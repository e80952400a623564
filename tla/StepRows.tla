------------------------------ MODULE StepRows ------------------------------
(***************************************************************************)
(* The rows of a training batch, how a worker group shares them out, and   *)
(* what the stages of a training step compute from them: DataProto, the    *)
(* dispatch and collect functions of the single controller, and the        *)
(* helpers of RayPPOTrainer.                                               *)
(*                                                                         *)
(* A row is a function from the names of its fields to values.  The value  *)
(* of "prompt" (and with it of uid and ground truth) is the prompt; that   *)
(* of any other field names the response it was computed for, a pair of    *)
(* the prompt it answers and its number, or Mixed when it was computed     *)
(* from fields of different responses.                                     *)
(***************************************************************************)
EXTENDS Naturals, Sequences, FiniteSets, SequencesExt

CONSTANTS
    Prompts,     \* train_batch_size
    N,           \* rollout.n
    UseCritic,   \* use_critic, with GAE; otherwise advantages compare a group
    UseRef,      \* use_reference_policy
    UseRm,       \* use_rm
    KlInReward   \* algorithm.use_kl_in_reward

Rows == Prompts * N
Mixed == <<0, 0>>

-----------------------------------------------------------------------------
(* DataProto.                                                              *)

\* repeat(times, interleave=True): the copies of a row are neighbours.
Repeat(batch, times) == [k \in 1..Len(batch) * times |-> batch[((k - 1) \div times) + 1]]

\* reorder(idx).
Reorder(batch, idx) == [k \in DOMAIN idx |-> batch[idx[k]]]

\* union: position by position.
Union(batch, other) == [k \in DOMAIN batch |-> batch[k] @@ other[k]]

\* batch.batch[field] = values.
Set(batch, field, values) == [k \in DOMAIN batch |-> (field :> values[k]) @@ batch[k]]

PadSize(batch, divisor) == (divisor - (Len(batch) % divisor)) % divisor

\* pad_dataproto_to_divisor: rows from the start again, as often as it takes.
PadToDivisor(batch, divisor) ==
    batch \o [k \in 1..PadSize(batch, divisor) |-> batch[((k - 1) % Len(batch)) + 1]]

\* unpad_dataproto.
Unpad(batch, pad_size) == SubSeq(batch, 1, Len(batch) - pad_size)

-----------------------------------------------------------------------------
(* dispatch_nd_compute_dataproto and collect_nd_compute_dataproto.  A mesh *)
(* has the data parallel rank of each rank, and which ranks are collected. *)

Ranks(mesh) == DOMAIN mesh.dp_rank_mapping
dp_size(mesh) == 1 + Max(Range(mesh.dp_rank_mapping))

\* chunk: equal parts, whose number divides the rows.
Chunk(batch, chunks) ==
    LET size == Len(batch) \div chunks
    IN  [c \in 1..chunks |-> SubSeq(batch, (c - 1) * size + 1, c * size)]

\* What a rank gets.
Part(mesh, batch, rank) == Chunk(batch, dp_size(mesh))[mesh.dp_rank_mapping[rank] + 1]

\* What the caller gets: the outputs of the collected ranks, in the order of ranks.
Collect(mesh, outputs) ==
    FlattenSeq([rank \in Ranks(mesh) |->
                  IF mesh.collect_mask[rank] THEN outputs[rank] ELSE <<>>])

\* Every part goes to a rank, and exactly one of the ranks that have it is collected,
\* in the order of the parts.
MeshIsSound(mesh) ==
    LET collected == SelectSeq([r \in Ranks(mesh) |-> r], LAMBDA r : mesh.collect_mask[r])
    IN  [k \in DOMAIN collected |-> mesh.dp_rank_mapping[collected[k]]]
          = [k \in 1..dp_size(mesh) |-> k - 1]

-----------------------------------------------------------------------------
(* What is computed from what.                                             *)

If(condition, fields) == IF condition THEN fields ELSE {}

\* The fields of the batch and what each is computed from.
Needs ==
    LET fields == {"response", "old_log_probs", "token_level_scores", "token_level_rewards",
                   "advantages"}
                  \cup If(UseRm, {"rm_scores"}) \cup If(UseRef, {"ref_log_prob"})
                  \cup If(UseCritic, {"values"})
    IN  [f \in fields |->
          CASE f = "response" -> {}
            [] f = "token_level_scores" -> {"response"} \cup If(UseRm, {"rm_scores"})
            [] f = "token_level_rewards" ->
                 {"token_level_scores"} \cup If(KlInReward, {"old_log_probs", "ref_log_prob"})
            [] f = "advantages" -> {"token_level_rewards"} \cup If(UseCritic, {"values"})
            [] OTHER -> {"response"}]

Fields == DOMAIN Needs

\* The response all these fields of a row belong to, if there is one.
Common(row, fields) ==
    LET of == {row[f] : f \in fields}
    IN  IF Cardinality(of) = 1 THEN CHOOSE id \in of : TRUE ELSE Mixed

\* generate_sequences: the k-th response of the batch answers the prompt it was given.
Generated(rows) ==
    [k \in DOMAIN rows |-> [response |-> <<rows[k].prompt, rows[k].number>>]]

\* A worker's or a reward manager's output for its rows.
Computed(field, rows) == [k \in DOMAIN rows |-> field :> Common(rows[k], Needs[field])]

\* The reward manager pairs a response with the ground truth of its row.
Scores(rows) ==
    [k \in DOMAIN rows |->
       LET id == Common(rows[k], Needs["token_level_scores"])
       IN  IF id[1] = rows[k].prompt THEN id ELSE Mixed]

\* apply_kl_penalty, or the scores themselves.
Rewards(rows) == [k \in DOMAIN rows |-> Common(rows[k], Needs["token_level_rewards"])]

\* compute_advantage: GAE row by row; the others compare the rows of the same uid,
\* which must be all N responses of a prompt.
Advantages(rows) ==
    [k \in DOMAIN rows |->
       LET group == {j \in DOMAIN rows : rows[j].prompt = rows[k].prompt}
           rewards == {rows[j].token_level_rewards : j \in group}
       IN  IF UseCritic \/ (/\ Cardinality(rewards) = N
                            /\ \A id \in rewards : id[1] = rows[k].prompt)
           THEN Common(rows[k], Needs["advantages"])
           ELSE Mixed]

\* The fields that all responses of the batch have, each computed for its row.
Complete(rows) ==
    LET ids == {<<((k - 1) \div N) + 1, k>> : k \in 1..Rows}
    IN  {f \in Fields :
           /\ Len(rows) = Rows
           /\ \A k \in DOMAIN rows : {f, "response"} \subseteq DOMAIN rows[k]
           /\ \A k \in DOMAIN rows : rows[k][f] = rows[k].response
           /\ {rows[k].response : k \in DOMAIN rows} = ids}
=============================================================================
