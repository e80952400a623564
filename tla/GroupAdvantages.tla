---------------------------- MODULE GroupAdvantages ----------------------------
(***************************************************************************)
(* The estimators of verl/trainer/ppo/core_algos.py that compare the score *)
(* of a response with those of the other responses to its prompt: GRPO,    *)
(* GPG, REINFORCE++ with baseline, RLOO, OPO and pass@k, row by row, and   *)
(* the vectorized forms of GRPO and RLOO.                                  *)
(*                                                                         *)
(* id2score holds views of scores, and scores is written in place: what a  *)
(* group has is modelled by its rows, and read from scores when it is.     *)
(* The division by the standard deviation, the same for all rows of a      *)
(* group, is left out (norm_adv_by_std_in_grpo False).                     *)
(***************************************************************************)
EXTENDS Integers, FiniteSetsExt, Sequences

CONSTANTS
    Size,           \* rows of the batch
    Prompts,        \* index
    Scores,         \* multiples of 5040, so that all divisions are exact
    Lengths,        \* tokens that response_mask leaves of a row
    Estimator       \* "grpo", "gpg", "rloo", "opo" or "grpo_passk"

GroupAdvantagesAssumption ==
    /\ Size \in 1..8
    /\ Scores \subseteq {5040 * n : n \in -4..4}
    /\ Lengths \subseteq Nat \ {0}
    /\ Estimator \in {"grpo", "gpg", "rloo", "opo", "grpo_passk"}

Rows == 1..Size

VARIABLES
    index, length, given,   \* given: token_level_rewards, added up
    scores,                 \* the same, overwritten row by row
    id2score,               \* rows, in order
    id2mean,                \* id2bsl of OPO
    todo,                   \* prompts without a mean
    i,                      \* the row to come
    stage                   \* "group", "mean", "advantage", "done", "refused"

input == <<index, length, given>>
vars == <<input, scores, id2score, id2mean, todo, i, stage>>

Init ==
    /\ index \in [Rows -> Prompts]
    /\ length \in [Rows -> Lengths]
    /\ given \in [Rows -> Scores]
    /\ scores = given
    /\ id2score = [p \in Prompts |-> <<>>]
    /\ id2mean = [p \in Prompts |-> 0]
    /\ todo = {}
    /\ i = 1
    /\ stage = "group"

Group ==
    /\ stage = "group"
    /\ IF i <= Size
       THEN /\ id2score' = [id2score EXCEPT ![index[i]] = Append(@, i)]
            /\ i' = i + 1
            /\ UNCHANGED <<todo, stage>>
       ELSE /\ todo' = {p \in Prompts : id2score[p] # <<>>}
            /\ i' = 1
            /\ stage' = "mean"
            /\ UNCHANGED id2score
    /\ UNCHANGED <<input, scores, id2mean>>

Members(p) == {id2score[p][j] : j \in DOMAIN id2score[p]}
SumOf(f, rows) == MapThenSumSet(LAMBDA r : f[r], rows)

\* id2len
Weight(r) == IF Estimator = "opo" THEN length[r] ELSE 1

WeightedMean(rows) ==
    SumOf([r \in Rows |-> Weight(r) * scores[r]], rows) \div SumOf([r \in Rows |-> Weight(r)], rows)

\* A response on its own is compared with nothing.
Mean(p) == IF Len(id2score[p]) = 1 THEN 0 ELSE WeightedMean(Members(p))

TakeMean ==
    /\ stage = "mean"
    /\ IF todo = {} THEN stage' = "advantage" /\ UNCHANGED <<id2mean, todo>>
       ELSE \E p \in todo :
              /\ id2mean' = [id2mean EXCEPT ![p] = Mean(p)]
              /\ todo' = todo \ {p}
              /\ stage' = IF Estimator = "grpo_passk" /\ Len(id2score[p]) < 2 THEN "refused" ELSE "mean"
    /\ UNCHANGED <<input, scores, id2score, i>>

\* m: count_nonzero(scores) of the batch, before any is overwritten
Nonzero == Cardinality({r \in Rows : given[r] # 0})

\* torch.topk(rewards, 2): of equals, any.
Best(p) == CHOOSE r \in Members(p) : \A q \in Members(p) : given[q] <= given[r]
SecondBest(p) == Max({given[q] : q \in Members(p) \ {Best(p)}})

OverOthers(r) ==
    LET n == Len(id2score[index[r]])
    IN  IF n > 1 THEN ((scores[r] * n) \div (n - 1)) - ((id2mean[index[r]] * n) \div (n - 1))
        ELSE scores[r]

\* Mutant: topk_idx, a place in the group, is taken for a row of the batch.
AboveSecondLocal(r) ==
    IF r \in DOMAIN id2score[index[r]] /\ id2score[index[r]][r] = Best(index[r])
    THEN given[Best(index[r])] - SecondBest(index[r]) ELSE 0

AboveSecond(r) == IF r = Best(index[r]) THEN given[r] - SecondBest(index[r]) ELSE 0

Advantage(r) ==
    CASE Estimator \in {"grpo", "opo"} -> scores[r] - id2mean[index[r]]
      [] Estimator = "gpg" -> (Size * (scores[r] - id2mean[index[r]])) \div Max({Nonzero, 1})
      [] Estimator = "rloo" -> OverOthers(r)
      [] Estimator = "grpo_passk" -> AboveSecond(r)

Advance ==
    /\ stage = "advantage"
    /\ IF i <= Size
       THEN scores' = [scores EXCEPT ![i] = Advantage(i)] /\ i' = i + 1 /\ UNCHANGED stage
       ELSE stage' = "done" /\ UNCHANGED <<scores, i>>
    /\ UNCHANGED <<input, id2score, id2mean, todo>>

Next == Group \/ TakeMean \/ Advance

Spec == Init /\ [][Next]_vars

-----------------------------------------------------------------------------
(* The vectorized forms.                                                   *)

Peers(r) == {q \in Rows : index[q] = index[r]}

\* group_mean_std: "Singleton groups fallback to mean=0, std=1."
GrpoVectorized(r) ==
    given[r] - IF Cardinality(Peers(r)) <= 1 THEN 0 ELSE SumOf(given, Peers(r)) \div Cardinality(Peers(r))

RlooVectorized(r) ==
    LET c == Cardinality(Peers(r))
    IN  IF c > 1 THEN (c * given[r] - SumOf(given, Peers(r))) \div (c - 1) ELSE 0

-----------------------------------------------------------------------------
(* Properties.                                                             *)

TypeOK ==
    /\ scores \in [Rows -> Int]
    /\ \A p \in Prompts : Members(p) = {r \in Rows : index[r] = p /\ (stage = "group" => r < i)}
    /\ todo \subseteq Prompts
    /\ i \in 1..Size + 1
    /\ stage \in {"group", "mean", "advantage", "done", "refused"}

\* In a group of more than one, what some gain the others lose: of each row, or
\* with OPO of each token.
GroupsBalance ==
    stage = "done" /\ Estimator # "grpo_passk" =>
        \A r \in Rows : Cardinality(Peers(r)) > 1 =>
            SumOf([q \in Rows |-> scores[q] * IF Estimator = "opo" THEN length[q] ELSE 1], Peers(r)) = 0

\* The better of two answers to a prompt has the greater advantage.
BetterGetsMore ==
    stage = "done" =>
        \A q, r \in Rows : index[q] = index[r] /\ given[q] < given[r] =>
            IF Estimator = "grpo_passk" THEN scores[q] <= scores[r] ELSE scores[q] < scores[r]

\* RLOO: against the mean of the others; and no row's advantage hangs on what the
\* other prompts scored.
LeavesOneOut ==
    stage = "done" /\ Estimator = "rloo" =>
        \A r \in Rows :
            LET others == Peers(r) \ {r}
            IN  others # {} =>
                Cardinality(others) * scores[r] = Cardinality(others) * given[r] - SumOf(given, others)

\* pass@k: only the best answer counts, by what it adds to the second best.
PaysWhatBestAdds ==
    stage = "done" /\ Estimator = "grpo_passk" =>
        \A r \in Rows :
            /\ Cardinality({q \in Peers(r) : scores[q] # 0}) <= 1
            /\ SumOf(scores, Peers(r)) = Max({given[q] : q \in Peers(r)})
                 - Min({Max({given[q] : q \in Peers(r) \ {p}}) : p \in Peers(r)})

\* GRPO and GRPO_VECTORIZED, RLOO and RLOO_VECTORIZED are the same estimators.
VectorizedAgrees ==
    stage = "done" =>
        \A r \in Rows :
            /\ Estimator = "grpo" => scores[r] = GrpoVectorized(r)
            /\ Estimator = "rloo" => scores[r] = RlooVectorized(r)
=============================================================================
