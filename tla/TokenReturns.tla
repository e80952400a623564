----------------------------- MODULE TokenReturns -----------------------------
(***************************************************************************)
(* The estimators of verl/trainer/ppo/core_algos.py that walk back through *)
(* the tokens of a response: compute_gae_advantage_return and              *)
(* compute_reinforce_plus_plus_outcome_advantage. response_mask leaves out *)
(* what follows EOS and, in a conversation with tools, the observations in *)
(* between the turns. The whitening at the end is left out; it moves and   *)
(* scales all advantages alike.                                            *)
(***************************************************************************)
EXTENDS Integers, FiniteSetsExt

CONSTANTS
    Length,         \* response_length
    Rewards, Values,
    Gamma, Lam,     \* integers, so that fractions stay away; any will do
    MultiTurn       \* may the mask have zeros before EOS?

TokenReturnsAssumption ==
    /\ Length \in Nat \ {0}
    /\ Rewards \subseteq Int /\ Values \subseteq Int /\ 0 \in Rewards
    /\ Gamma \in Int /\ Lam \in Int
    /\ MultiTurn \in BOOLEAN

Tokens == 1..Length

VARIABLES
    response_mask, token_level_rewards, values,
    t,                      \* the token to come, from the last to the first
    nextvalues, lastgaelam, advantages,
    running_return, returns

input == <<response_mask, token_level_rewards, values>>
vars == <<input, t, nextvalues, lastgaelam, advantages, running_return, returns>>

Contiguous(mask) == \A i, j \in Tokens : i < j /\ mask[j] = 1 => mask[i] = 1

Init ==
    /\ response_mask \in [Tokens -> {0, 1}] /\ response_mask[1] = 1
    /\ MultiTurn \/ Contiguous(response_mask)
    /\ token_level_rewards \in [Tokens -> Rewards]
    /\ \A i \in Tokens : response_mask[i] = 0 => token_level_rewards[i] = 0
    /\ values \in [Tokens -> Values]
    /\ t = Length
    /\ nextvalues = 0 /\ lastgaelam = 0 /\ running_return = 0
    /\ advantages = [i \in Tokens |-> 0]
    /\ returns = [i \in Tokens |-> 0]

Masked(now, before) == now * response_mask[t] + (1 - response_mask[t]) * before

\* "skip values and TD-error on observation tokens"
NextValue == Masked(values[t], nextvalues)

\* Mutant: the error of an observation counts.
LastGaeLamUnmasked ==
    token_level_rewards[t] + Gamma * nextvalues - values[t] + Gamma * Lam * lastgaelam

LastGaeLam ==
    LET delta == token_level_rewards[t] + Gamma * nextvalues - values[t]
    IN  Masked(delta + Gamma * Lam * lastgaelam, lastgaelam)

GaeStep ==
    /\ nextvalues' = NextValue
    /\ lastgaelam' = LastGaeLam
    /\ advantages' = [advantages EXCEPT ![t] = LastGaeLam]

\* "Reset after EOS"
RunningReturn(running) == running * response_mask[t]

ReinforceStep ==
    LET running == token_level_rewards[t] + Gamma * running_return
    IN  /\ returns' = [returns EXCEPT ![t] = running]
        /\ running_return' = RunningReturn(running)

Next == t > 0 /\ GaeStep /\ ReinforceStep /\ t' = t - 1 /\ UNCHANGED input

Spec == Init /\ [][Next]_vars

-----------------------------------------------------------------------------
(* Properties.                                                             *)

Trained == {i \in Tokens : response_mask[i] = 1}

RECURSIVE Power(_, _)
Power(base, n) == IF n = 0 THEN 1 ELSE base * Power(base, n - 1)

After(i) == {j \in Trained : j > i}
Steps(i, j) == Cardinality({k \in Trained : i <= k /\ k < j})
ValueAfter(i) == IF After(i) = {} THEN 0 ELSE values[Min(After(i))]
Error(i) == token_level_rewards[i] + Gamma * ValueAfter(i) - values[i]

TypeOK ==
    /\ t \in 0..Length
    /\ advantages \in [Tokens -> Int] /\ returns \in [Tokens -> Int]
    /\ \A i \in 1..t : advantages[i] = 0 /\ returns[i] = 0

\* The generalized advantage of a token is that of the response without its
\* observations: the discounted errors of the trained tokens from it on, each
\* against the value of the next trained token.
GaeSkipsObservations ==
    \A i \in Trained : i > t =>
        advantages[i] = MapThenSumSet(LAMBDA j : Power(Gamma * Lam, Steps(i, j)) * Error(j),
                                      {i} \cup After(i))

\* REINFORCE++ pays every trained token the discounted rewards after it; what
\* follows EOS pays nothing.
RewardReachesEveryToken ==
    \A i \in Trained : i > t =>
        returns[i] = MapThenSumSet(LAMBDA j : Power(Gamma, j - i) * token_level_rewards[j],
                                   {i} \cup After(i))
=============================================================================
