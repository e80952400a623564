------------------------------ MODULE ActorUpdate ------------------------------
(***************************************************************************)
(* An update of the actor: a rank's rows are split into mini-batches, each *)
(* of them into micro-batches whose gradients add up; the ranks average    *)
(* theirs and take a step unless it is not finite.                         *)
(*   "legacy"  DataParallelPPOActor.update_policy (workers/actor/dp_actor) *)
(*   "engine"  ActorWorker.update_actor with an FSDP engine (engine_workers,*)
(*             engine/fsdp/transformer_impl, utils/losses.ppo_loss)        *)
(*                                                                         *)
(* The loss is linear in what the tokens lose, so a gradient is modelled   *)
(* by the weight, a fraction, that agg_loss (trainer/ppo/core_algos) and   *)
(* the scaling give to a token of each row.                                *)
(***************************************************************************)
EXTENDS Integers, FiniteSetsExt

CONSTANTS
    Ranks,          \* data parallel ranks
    Size,           \* rows of a rank
    Mini,           \* rows of a rank's mini-batch
    Micro,          \* rows of a micro-batch, unless use_dynamic_bsz
    Dynamic,        \* use_dynamic_bsz: the rows are spread by their lengths
    Epochs,         \* ppo_epochs
    Masks,          \* how many tokens response_mask may leave of a row
    Path,           \* "legacy" or "engine"
    Mode,           \* loss_agg_mode
    Norm            \* loss_scale_factor of "seq-mean-token-sum-norm"

Modes == {"token-mean", "seq-mean-token-sum", "seq-mean-token-mean", "seq-mean-token-sum-norm"}

ActorUpdateAssumption ==
    /\ IsFiniteSet(Ranks) /\ Ranks # {}
    /\ {Size, Mini, Micro, Epochs, Norm} \subseteq Nat \ {0}
    /\ Masks \subseteq Nat
    /\ Dynamic \in BOOLEAN /\ Path \in {"legacy", "engine"} /\ Mode \in Modes
    /\ Size % Mini = 0 /\ Mini % Micro = 0

Rows == 1..Size
Minis == 1..Size \div Mini

VARIABLES
    mask,       \* tokens that count, of every row
    epoch, mini,
    order,      \* the mini-batch every row is in: the engine's loader may shuffle
    todo,       \* rows of the mini-batch that no micro-batch has had
    weight,     \* in the gradient, of a token of every row
    finite,     \* is the gradient? 0/0 is not a number
    old,        \* versions whose log-probabilities old_log_prob was
    seen,       \* micro-batches that had the row
    version,    \* optimizer steps taken
    skipped     \* tokens of the mini-batches whose step was not taken

vars == <<mask, epoch, mini, order, todo, weight, finite, old, seen, version, skipped>>

-----------------------------------------------------------------------------
(* Weights.                                                                *)

Zero == [n |-> 0, d |-> 1]
Same(a, b) == a.n * b.d = b.n * a.d /\ (a.d = 0 <=> b.d = 0)

Tokens(rows) == MapThenSumSet(LAMBDA p : mask[p[1]][p[2]], rows)
Valid(rows) == {p \in rows : mask[p[1]][p[2]] > 0}

\* What agg_loss divides by: its own micro-batch's counts, or those of
\* global_batch_info.
Denominator(rows, global) ==
    LET counted == IF Path = "engine" THEN global ELSE rows
    IN  CASE Mode = "token-mean" -> Tokens(counted)
          [] Mode = "seq-mean-token-sum-norm" -> Norm
          [] OTHER -> IF Path = "engine" THEN Cardinality(global) ELSE Cardinality(Valid(rows))

\* Mutant: agg_loss called without dp_size.
DpFactorOne(dp) == 1

\* "* dp_size", with global_batch_info: to make up for the average over ranks.
DpFactor(dp) == IF Path = "engine" /\ Mode # "seq-mean-token-sum-norm" THEN dp ELSE 1

\* "seq-mean-token-mean" also divides by the row's tokens.
RowTokens(p) == IF Mode = "seq-mean-token-mean" THEN mask[p[1]][p[2]] ELSE 1

\* A token's weight in the mean of dp gradients, for a micro-batch rows of a
\* mini-batch global, scaled by part / parts.
Weight(p, rows, global, dp, part, parts) ==
    [n |-> DpFactor(dp) * part,
     d |-> Denominator(rows, global) * RowTokens(p) * parts * dp]

-----------------------------------------------------------------------------
All == Ranks \X Rows
Global == {p \in All : order[p[1]][p[2]] = mini}
MiniRows(r) == {i \in Rows : order[r][i] = mini}

\* The rows of each mini-batch: in order, or as the engine's loader draws them.
InOrder == [i \in Rows |-> (i - 1) \div Mini + 1]
Loaded ==
    IF Path = "legacy" THEN {InOrder}
    ELSE {o \in [Rows -> Minis] : \A m \in Minis : Cardinality({i \in Rows : o[i] = m}) = Mini}

Opened ==
    /\ todo' = [r \in Ranks |-> {i \in Rows : order'[r][i] = mini'}]
    /\ weight' = [p \in All |-> Zero]
    /\ finite' = TRUE

Init ==
    /\ mask \in [Ranks -> [Rows -> Masks]]
    /\ epoch = 1 /\ mini = 1
    /\ order \in [Ranks -> Loaded]
    /\ todo = [r \in Ranks |-> {i \in Rows : order[r][i] = 1}]
    /\ weight = [p \in All |-> Zero]
    /\ finite = TRUE
    /\ old = {}
    /\ seen = [p \in All |-> 0]
    /\ version = 0
    /\ skipped = {}

\* Dynamic: any of the rows left, as many micro-batches on every rank.
\* Otherwise the next Micro rows.
MicroBatchesOf(r) ==
    IF Dynamic THEN SUBSET todo[r] \ {{}}
    ELSE {{i \in todo[r] : Cardinality({j \in todo[r] : j < i}) < Micro}}

\* loss_scale_factor of update_policy
Part(rows) == IF Path = "engine" THEN 1 ELSE IF Dynamic THEN Cardinality(rows) ELSE 1

Parts == IF Path = "engine" THEN 1 ELSE IF Dynamic THEN Mini ELSE Mini \div Micro

OnPolicy == Size = Mini /\ Epochs = 1

\* old_log_prob: log_prob.detach() when on_policy, otherwise what came with the
\* batch, which version 0 computed.
OldVersion == IF Path = "legacy" /\ OnPolicy THEN version ELSE 0

\* loss.backward(), on all ranks: they gather the same parameters.
Accumulate(micro) ==
    LET rows(r) == {r} \X micro[r]
    IN  /\ weight' = [p \in All |->
             IF p[2] \in micro[p[1]] /\ mask[p[1]][p[2]] > 0
             THEN Weight(p, rows(p[1]), Global, Cardinality(Ranks), Part(micro[p[1]]), Parts)
             ELSE weight[p]]
        /\ finite' = (finite /\ \A r \in Ranks : Denominator(rows(r), Global) # 0)

MicroBatch ==
    /\ \E micro \in [Ranks -> SUBSET Rows] :
         /\ \A r \in Ranks : micro[r] \in MicroBatchesOf(r)
         /\ \A q, r \in Ranks : micro[q] = todo[q] <=> micro[r] = todo[r]
         /\ Accumulate(micro)
         /\ todo' = [r \in Ranks |-> todo[r] \ micro[r]]
         /\ seen' = [p \in All |-> seen[p] + IF p[2] \in micro[p[1]] THEN 1 ELSE 0]
    /\ old' = old \cup {OldVersion}
    /\ UNCHANGED <<mask, epoch, mini, order, version, skipped>>

Ready == \A r \in Ranks : todo[r] = {}

NextMini ==
    \/ /\ mini < Size \div Mini
       /\ mini' = mini + 1
       /\ UNCHANGED <<epoch, order>>
    \/ /\ mini = Size \div Mini
       /\ mini' = 1
       /\ epoch' = epoch + 1
       /\ order' \in [Ranks -> Loaded]

\* "if grad_norm is not finite, skip the update"
OptimizerStep ==
    /\ Ready /\ epoch <= Epochs
    /\ IF finite THEN version' = version + 1 /\ UNCHANGED skipped
       ELSE skipped' = skipped \cup {Tokens(Global)} /\ UNCHANGED version
    /\ NextMini /\ Opened
    /\ UNCHANGED <<mask, old, seen>>

Next == (epoch <= Epochs /\ ~Ready /\ MicroBatch) \/ OptimizerStep

Spec == Init /\ [][Next]_vars

-----------------------------------------------------------------------------
(* Properties.                                                             *)

TypeOK ==
    /\ mask \in [Ranks -> [Rows -> Masks]]
    /\ epoch \in 1..Epochs + 1 /\ mini \in Minis
    /\ order \in [Ranks -> [Rows -> Minis]]
    /\ \A r \in Ranks : todo[r] \subseteq MiniRows(r)
    /\ finite \in BOOLEAN
    /\ seen \in [All -> 0..Epochs]
    /\ version \in 0..Epochs * (Size \div Mini)

\* "to ensure the loss is invariant to fsdp/megatron parallelism": however the
\* mini-batch is split, the gradient is what one rank would compute of all of it
\* at once.
SplitInvariant ==
    Ready /\ epoch <= Epochs /\ finite =>
        \A p \in Valid(Global) : Same(weight[p], Weight(p, Global, Global, 1, 1, 1))

\* "exclude fully masked sequences": a mini-batch is lost only if it has no
\* token to learn from.
SkipsOnlyEmpty == skipped \subseteq {0}

\* Every epoch has every row once.
EpochsCover == mini = 1 /\ todo = [r \in Ranks |-> MiniRows(r)] =>
    \A p \in All : seen[p] = epoch - 1

\* The ratio is to the policy that the batch came from, through all steps.
OldPolicyIsFixed == old \subseteq {0}
=============================================================================
