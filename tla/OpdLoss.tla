------------------------------- MODULE OpdLoss -------------------------------
(***************************************************************************)
(* compute_policy_loss_opd (verl/trainer/ppo/core_algos.py): how a micro-  *)
(* batch of teacher scores becomes one advantage per response token.       *)
(*                                                                         *)
(* The reward manager sends a tensor twice as wide as prompt and response: *)
(* the teacher's log-probabilities, then the chunk of every position.  The *)
(* teacher's total over a chunk is shared among the chunk's tokens in      *)
(* proportion to the student's own log-probabilities.                      *)
(*                                                                         *)
(* Log-probabilities are integers; shares are counted in units of 1/Unit,  *)
(* which divides exactly by every total a chunk can have.                  *)
(***************************************************************************)
EXTENDS Integers, FiniteSets, Sequences, FiniteSetsExt

CONSTANTS
    BatchSize,      \* sequences of the micro-batch
    R,              \* response_length
    P,              \* width of the prompt
    MaxLogp,        \* bound: log-probabilities are in -MaxLogp..0
    Unit,
    Clamp,          \* opd_loss_max_clamp, in units; 0: none
    SameTokenizer   \* does the reward manager fill prompt and response token by token?

LossAssumption ==
    /\ {BatchSize, R, P, MaxLogp, Unit} \subseteq Nat \ {0}
    /\ \A n \in 1..R * MaxLogp : Unit % n = 0
    /\ \A n \in 1..R : Unit % n = 0
    /\ Clamp \in Nat /\ SameTokenizer \in BOOLEAN

VARIABLES
    prior,          \* old_log_prob, per sequence and response token
    mask,           \* response_mask
    reward,         \* token_level_rewards: [teacher log-probabilities | chunk ids]
    phase,
    teacher, ids,   \* teacher_log_probs, opd_chunk_ids: what is read from the reward
    skipped,        \* sentinel_mask
    seq_id, todo,   \* the sequence of the loop, and its chunks not yet visited
    target,         \* target_log_probs, in units
    advantages,     \* in units
    suppressed      \* opd_eos_negative_suppressed

inputs == <<prior, mask, reward>>
vars == <<prior, mask, reward, phase, teacher, ids, skipped, seq_id, todo, target, advantages, suppressed>>

Inf == 1            \* float('inf'): no log-probability is positive
Sentinel == -1      \* _OPD_SENTINEL_CHUNK_ID
Eos == -2           \* _OPD_EOS_CHUNK_ID
Logps == -MaxLogp..0
Seqs == 1..BatchSize
Toks == 1..R
Width == P + R

\* The rows a cross-tokenizer alignment fills: chunks are runs of content
\* tokens, holes between them are skipped, one terminal token may be supervised.
AlignedIds ==
    {f \in [Toks -> {Eos, Sentinel} \cup 0..R - 1] :
        \A i, j \in Toks : i < j =>
            /\ f[i] >= 0 /\ f[j] >= 0 => f[i] <= f[j]
            /\ f[i] = f[j] /\ f[i] >= 0 => \A k \in i..j : f[k] = f[i]
            /\ f[i] = Eos => f[j] = Sentinel}

\* What the manager returns: with its own tokenizer token by token from the prompt's
\* second token on, otherwise as the alignment filled it.
Rows ==
    IF SameTokenizer
    THEN {[i \in 1..2 * Width |->
             IF i <= Width THEN (IF i = 1 THEN 0 ELSE IF i <= P THEN -1 ELSE t[i - P])
             ELSE IF i = Width + 1 THEN Sentinel ELSE i - Width - 2]
           : t \in [Toks -> Logps]}
    ELSE UNION {{[i \in 1..2 * Width |->
                    IF i <= P THEN 0
                    ELSE IF i <= Width THEN (IF f[i - P] = Sentinel THEN Inf ELSE t[i - P])
                    ELSE IF i <= Width + P THEN Sentinel ELSE f[i - Width - P]]
                  : t \in [Toks -> Logps]} : f \in AlignedIds}

Init ==
    /\ prior \in [Seqs -> [Toks -> Logps]]
    /\ mask \in [Seqs -> [Toks -> {0, 1}]]
    /\ reward \in [Seqs -> Rows]
    /\ phase = "read"
    /\ teacher = <<>> /\ ids = <<>> /\ skipped = {} /\ target = <<>> /\ advantages = <<>>
    /\ seq_id = 1 /\ todo = {} /\ suppressed = 0

-----------------------------------------------------------------------------
Total(f, S) == MapThenSumSet(LAMBDA i : f[i], S)

Valid(s) == {i \in Toks : mask[s][i] = 1 /\ <<s, i>> \notin skipped}    \* seq_valid

\* Mutant: the chunk is looked up without the mask of valid tokens.
ChunkUnmasked(s, c) == {i \in Toks : ids[s][i] = c}

Chunk(s, c) == {i \in Valid(s) : ids[s][i] = c}                        \* chunk_mask

\* The last response_length columns of each half.
Halves(row) ==
    [teacher |-> [i \in Toks |-> row[P + i]], ids |-> [i \in Toks |-> row[Width + P + i]]]

Read ==
    /\ phase = "read"
    /\ teacher' = [s \in Seqs |-> Halves(reward[s]).teacher]
    /\ ids' = [s \in Seqs |-> Halves(reward[s]).ids]
    /\ phase' = "skip"
    /\ UNCHANGED <<inputs, skipped, seq_id, todo, target, advantages, suppressed>>

\* Skipped positions get the student's own value; the loop over sequences starts.
Skip ==
    /\ phase = "skip"
    /\ skipped' = {p \in Seqs \X Toks : teacher[p[1]][p[2]] = Inf \/ ids[p[1]][p[2]] = Sentinel}
    /\ teacher' = [s \in Seqs |-> [i \in Toks |->
                     IF <<s, i>> \in skipped' THEN prior[s][i] ELSE teacher[s][i]]]
    /\ target' = [s \in Seqs |-> [i \in Toks |-> Unit * prior[s][i]]]
    /\ phase' = "sequence"
    /\ UNCHANGED <<inputs, ids, seq_id, todo, advantages, suppressed>>

Sequence ==
    /\ phase = "sequence" /\ seq_id <= BatchSize
    /\ IF Valid(seq_id) = {}
       THEN /\ seq_id' = seq_id + 1
            /\ UNCHANGED <<phase, todo>>
       ELSE /\ todo' = {ids[seq_id][i] : i \in Valid(seq_id)}
            /\ phase' = "chunk"
            /\ UNCHANGED seq_id
    /\ UNCHANGED <<inputs, teacher, ids, skipped, target, advantages, suppressed>>

\* Uniform when the student is certain of the whole chunk.
Share(s, S, i) ==
    LET lt == Total(teacher[s], S)
        ls == Total(prior[s], S)
    IN  IF ls = 0 THEN lt * (Unit \div Cardinality(S))
        ELSE (-lt) * (Unit \div (-ls)) * prior[s][i]

\* torch.unique: chunks in increasing order.
AssignCredit ==
    /\ phase = "chunk" /\ todo # {}
    /\ LET c == CHOOSE c \in todo : \A d \in todo : c <= d
           S == Chunk(seq_id, c)
       IN  /\ target' = [target EXCEPT ![seq_id] =
                           [i \in Toks |-> IF i \in S THEN Share(seq_id, S, i) ELSE @[i]]]
           /\ todo' = todo \ {c}
    /\ UNCHANGED <<inputs, phase, teacher, ids, skipped, seq_id, advantages, suppressed>>

SequenceEnds ==
    /\ phase = "chunk" /\ todo = {}
    /\ seq_id' = seq_id + 1 /\ phase' = "sequence"
    /\ UNCHANGED <<inputs, teacher, ids, skipped, todo, target, advantages, suppressed>>

Clamped(a) ==
    IF Clamp > 0 /\ a < -Clamp THEN -Clamp
    ELSE IF Clamp > 0 /\ a > Clamp THEN Clamp ELSE a

Difference ==
    /\ phase = "sequence" /\ seq_id > BatchSize
    /\ advantages' = [s \in Seqs |-> [i \in Toks |-> Clamped(target[s][i] - Unit * prior[s][i])]]
    /\ phase' = "guard"
    /\ UNCHANGED <<inputs, teacher, ids, skipped, seq_id, todo, target, suppressed>>

EosTrained == {p \in Seqs \X Toks : p[2] \in Valid(p[1]) /\ ids[p[1]][p[2]] = Eos}

\* The teacher may reinforce the end of a response, never suppress it.
GuardEos ==
    /\ phase = "guard"
    /\ suppressed' = Cardinality({p \in EosTrained : advantages[p[1]][p[2]] < 0})
    /\ advantages' = [s \in Seqs |-> [i \in Toks |->
                        IF <<s, i>> \in EosTrained /\ advantages[s][i] < 0 THEN 0 ELSE advantages[s][i]]]
    /\ phase' = "done"
    /\ UNCHANGED <<inputs, teacher, ids, skipped, seq_id, todo, target>>

Next == Read \/ Skip \/ Sequence \/ AssignCredit \/ SequenceEnds \/ Difference \/ GuardEos

Spec == Init /\ [][Next]_vars

-----------------------------------------------------------------------------
(* Properties, of what the reward manager sent and what the loss uses.     *)

Done == phase = "done"
SentTeacher(s, i) == reward[s][P + i]
SentId(s, i) == reward[s][Width + P + i]
Trained(s) == {i \in Toks : mask[s][i] = 1 /\ SentId(s, i) # Sentinel}
SentChunks(s) == {SentId(s, i) : i \in Trained(s)}
SentChunk(s, c) == {i \in Trained(s) : SentId(s, i) = c}

\* The chunk's tokens share exactly what the teacher's total differs from the
\* student's: no sequence, no skipped and no environment token takes part in it.
BudgetKept ==
    Done /\ Clamp = 0 => \A s \in Seqs : \A c \in SentChunks(s) \ {Eos} :
        LET S == SentChunk(s, c)
        IN  Total(advantages[s], S)
              = Unit * (MapThenSumSet(LAMBDA i : SentTeacher(s, i), S) - Total(prior[s], S))

\* All tokens of a chunk are pushed the way the chunk is, also when clamped:
\* credit within a chunk never trades one token against another.
OneDirectionPerChunk ==
    Done => \A s \in Seqs : \A c \in SentChunks(s) :
        LET S == SentChunk(s, c)
            gain == MapThenSumSet(LAMBDA i : SentTeacher(s, i), S) - Total(prior[s], S)
        IN  \A i \in S : (gain >= 0 => advantages[s][i] >= 0) /\ (gain <= 0 => advantages[s][i] <= 0)

\* A token that the alignment skipped, a terminal one included, has no
\* influence on the policy.
SkippedHaveNoInfluence ==
    Done => \A s \in Seqs : \A i \in Toks \ Trained(s) : mask[s][i] = 1 => advantages[s][i] = 0

\* A well-formed end of response is never trained away.
EosNeverSuppressed ==
    Done => \A s \in Seqs : \A i \in Toks :
        mask[s][i] = 1 /\ SentId(s, i) = Eos => advantages[s][i] >= 0

\* No advantage exceeds opd_loss_max_clamp, whatever the two models disagree on.
Bounded ==
    Done /\ Clamp > 0 => \A s \in Seqs : \A i \in Toks : advantages[s][i] \in -Clamp..Clamp

\* Within a chunk the tokens the student was least sure of move the most.
SurprisePays ==
    Done => \A s \in Seqs : \A i, j \in Trained(s) :
        SentId(s, i) = SentId(s, j) /\ prior[s][i] <= prior[s][j] =>
            LET a == advantages[s][i]  b == advantages[s][j]
            IN  (a >= 0 /\ b >= 0 /\ a >= b) \/ (a <= 0 /\ b <= 0 /\ a <= b)

TypeOK ==
    /\ phase \in {"read", "skip", "sequence", "chunk", "guard", "done"}
    /\ seq_id \in 1..BatchSize + 1
    /\ todo \subseteq {Eos} \cup 0..Width
    /\ phase # "read" => \A s \in Seqs : teacher[s] \in [Toks -> Logps \cup {Inf}]
    /\ phase # "read" => \A s \in Seqs : ids[s] \in [Toks -> {Eos, Sentinel} \cup 0..Width]
    /\ target # <<>> => \A s \in Seqs : \A i \in Toks : target[s][i] <= 0
    /\ suppressed \in 0..BatchSize
=============================================================================
