---------------------------- MODULE TransferQueue ----------------------------
(***************************************************************************)
(* The training loop of recipe/transfer_queue: rows stay in a storage, and *)
(* the driver and the worker groups pass on metadata that names them.  At  *)
(* each stage the driver asks for samples that have the fields it needs,   *)
(* puts them in the balanced order, and has a worker group (or itself)     *)
(* read them, compute a field, and put it back.                            *)
(*                                                                         *)
(* A sample is its place in its partition; metadata is a sequence of       *)
(* samples.  The queue is a library: it serves samples that have all       *)
(* fields asked for, in ascending order, once for each task, and waits     *)
(* until there are enough.                                                 *)
(***************************************************************************)
EXTENDS StepRows

CONSTANTS
    ActorMesh, CriticMesh, RolloutMesh,
    Warmup,         \* trainer.critic_warmup
    TestFreq,       \* trainer.test_freq, 0: never; then there is none before training either
    ValBatches,     \* len(val_dataloader)
    ValRows,        \* rows of a validation batch, repetitions included
    TotalSteps      \* bound: total_training_steps

\* The order of rows is a permutation only with trainer.balance_batch, and update_actor asks
\* for ref_log_prob whether there is a reference policy or not: without them the loop fails
\* or waits.  With reward_model.launch_reward_fn_async it fails, too: the remote function is
\* given the reward function for its config.  Validation is left out where a reward model
\* scores.
TransferQueueAssumption ==
    /\ {Prompts, N, ValBatches, ValRows, TotalSteps} \subseteq Nat \ {0}
    /\ {Warmup, TestFreq} \subseteq Nat
    /\ {UseCritic, UseRm, KlInReward} \subseteq BOOLEAN
    /\ UseRef /\ (UseRm => TestFreq = 0)
    /\ \A mesh \in {ActorMesh, CriticMesh, RolloutMesh} :
         MeshIsSound(mesh) /\ Rows % dp_size(mesh) = 0
    /\ ValRows % dp_size(RolloutMesh) = 0

VARIABLES
    phase,
    global_steps,
    storage,        \* the rows of each partition
    consumed,       \* of each partition, tasks with the samples they were given
    batch_meta,     \* the samples of the step, in the driver's order
    balanced_idx,
    call_meta,      \* the samples of the running call
    done,           \* ranks that have put their output
    reward_tensor,  \* the scores, in the order of the rows they were computed for
    samples         \* _validate's parallel lists

vars == <<phase, global_steps, storage, consumed, batch_meta, balanced_idx, call_meta, done,
          reward_tensor, samples>>

Partitions == {"train", "val"} \X (0..TotalSteps)
Tasks == {"generate_sequences", "balance_batch", "compute_reward", "compute_log_prob",
          "compute_ref_log_prob", "token_level_scores", "apply_kl_penalty", "compute_advantage",
          "update_actor", "get_data", "get_response"}

\* train_{global_steps - 1} and val_{global_steps - 1}.
Train == <<"train", global_steps>>
Val == <<"val", global_steps>>

total_storage_size == Prompts * N + ValBatches * ValRows

NoSamples == [inputs |-> <<>>, outputs |-> <<>>, scores |-> <<>>]

MeshOf(call) ==
    CASE call \in {"generate", "validate"} -> RolloutMesh
      [] call \in {"values", "update_critic", "rm_scores"} -> CriticMesh
      [] OTHER -> ActorMesh

Calls == {"generate", "validate", "rm_scores", "old_log_probs", "ref_log_prob", "values",
          "update_critic", "update_actor"}

Stages ==
    SelectSeq(<<"put", "generate", "balance", "rm_scores", "reward", "old_log_probs",
                "ref_log_prob", "values", "scores", "rewards", "adv", "update_critic",
                "update_actor", "end", "clear">>,
              LAMBDA s : /\ s = "rm_scores" => UseRm
                         /\ s \in {"values", "update_critic"} => UseCritic)

is_last_step == global_steps >= TotalSteps

Following ==
    LET k == CHOOSE k \in DOMAIN Stages : Stages[k] = phase
    IN  IF Stages[k + 1] = "update_actor" /\ Warmup > global_steps THEN "end" ELSE Stages[k + 1]

Init ==
    /\ phase = IF TestFreq > 0 THEN "put val" ELSE "put"
    /\ global_steps = IF TestFreq > 0 THEN 0 ELSE 1
    /\ storage = [p \in Partitions |-> <<>>] /\ consumed = [p \in Partitions |-> {}]
    /\ batch_meta = <<>> /\ balanced_idx = <<>>
    /\ call_meta = <<>> /\ done = {} /\ reward_tensor = <<>> /\ samples = NoSamples

-----------------------------------------------------------------------------
(* The queue.                                                              *)

Stored(partition, meta) == [k \in DOMAIN meta |-> storage[partition][meta[k]]]

\* async_put: the k-th row of values is for the k-th sample.
Put(partition, meta, values) ==
    [storage EXCEPT ![partition] =
       [id \in DOMAIN @ |-> IF id \in Range(meta)
                            THEN values[CHOOSE k \in DOMAIN meta : meta[k] = id] @@ @[id]
                            ELSE @[id]]]

Ready(partition, fields, task) ==
    SelectSeq([id \in DOMAIN storage[partition] |-> id],
              LAMBDA id : /\ fields \subseteq DOMAIN storage[partition][id]
                          /\ <<task, id>> \notin consumed[partition])

\* async_get_meta: waits for as many samples as the batch has.
CanGet(partition, fields, task, size) == Len(Ready(partition, fields, task)) >= size
Get(partition, fields, task, size) == SubSeq(Ready(partition, fields, task), 1, size)

Consume(partition, task, meta) ==
    [consumed EXCEPT ![partition] = @ \cup {<<task, meta[k]>> : k \in DOMAIN meta}]

\* Mutant: what a stage is given keeps the order of the queue.
OrderedUnbalanced(fields, task) == Get(Train, fields, task, Rows)

\* get_meta of a stage for the step's batch, and reorder(balanced_idx).
Ordered(fields, task) == Reorder(Get(Train, fields, task, Rows), balanced_idx)

\* Enter a stage; one that calls a worker group on the batch as it is has its samples.
Enter(stage) == phase' = stage /\ done' = {} /\ call_meta' = <<>>

-----------------------------------------------------------------------------
(* Calls of worker groups, through tqbridge.                               *)

\* The task and fields a stage asks the queue for, before it calls a worker group.
Request ==
    CASE phase = "old_log_probs" -> [task |-> "compute_log_prob", fields |-> {"prompt", "response"}]
      [] phase = "ref_log_prob" ->
           [task |-> "compute_ref_log_prob", fields |-> {"prompt", "response", "old_log_probs"}]
      [] phase = "update_actor" ->
           [task |-> "update_actor",
            fields |-> {"prompt", "response", "old_log_probs", "ref_log_prob", "advantages",
                        "token_level_rewards", "token_level_scores"}]

\* The driver asks for what a worker group is to work on; the reward model and the critic
\* are called on the batch's own metadata.
Call ==
    /\ call_meta = <<>>
    /\ \/ /\ phase \in {"old_log_probs", "ref_log_prob", "update_actor"}
          /\ CanGet(Train, Request.fields, Request.task, Rows)
          /\ call_meta' = Ordered(Request.fields, Request.task)
          /\ consumed' = Consume(Train, Request.task, call_meta')
       \/ /\ phase \in {"rm_scores", "values", "update_critic"}
          /\ call_meta' = batch_meta
          /\ UNCHANGED consumed
    /\ UNCHANGED <<phase, global_steps, storage, batch_meta, balanced_idx, done, reward_tensor, samples>>

\* A rank reads the rows of its part, computes, and puts what it has computed.
RankPuts(rank) ==
    /\ phase \in Calls /\ call_meta # <<>> /\ rank \in Ranks(MeshOf(phase)) \ done
    /\ LET partition == IF phase = "validate" THEN Val ELSE Train
           part == Part(MeshOf(phase), call_meta, rank)
           rows == Stored(partition, part)
       IN  storage' = CASE phase \in {"generate", "validate"} ->
                             Put(partition, part, Generated(rows))
                        [] phase \in {"update_critic", "update_actor"} -> storage
                        [] OTHER -> Put(partition, part, Computed(phase, rows))
    /\ done' = done \cup {rank}
    /\ UNCHANGED <<phase, global_steps, consumed, batch_meta, balanced_idx, call_meta, reward_tensor,
                   samples>>

Returned == phase \in Calls /\ call_meta # <<>> /\ done = Ranks(MeshOf(phase))

\* The metadata a call returns is that of its collected ranks; union keeps the batch's order.
CallReturns ==
    /\ phase \in Calls \ {"validate"} /\ Returned
    /\ batch_meta' = IF phase = "generate"
                     THEN Collect(RolloutMesh, [rank \in Ranks(RolloutMesh) |->
                                                  Part(RolloutMesh, call_meta, rank)])
                     ELSE batch_meta
    /\ Enter(Following)
    /\ UNCHANGED <<global_steps, storage, consumed, balanced_idx, reward_tensor, samples>>

-----------------------------------------------------------------------------
(* What the driver does itself.                                            *)

\* A batch is repeated and put, and asked for at once to generate responses.
PutBatch ==
    /\ phase = "put"
    /\ LET repeated == Repeat([p \in 1..Prompts |-> [prompt |-> p]], N)
       IN  storage' = [storage EXCEPT ![Train] =
                         @ \o [k \in DOMAIN repeated |-> ("number" :> k) @@ repeated[k]]]
    /\ phase' = Following /\ done' = {}
    /\ call_meta' = [k \in 1..Rows |-> k]
    /\ consumed' = Consume(Train, "generate_sequences", call_meta')
    /\ UNCHANGED <<global_steps, batch_meta, balanced_idx, reward_tensor, samples>>

\* _balance_batch returns an order, which the batch's metadata is put in.
BalanceBatch ==
    /\ phase = "balance" /\ CanGet(Train, {"response"}, "balance_batch", Rows)
    /\ balanced_idx' \in {f \in [1..Rows -> 1..Rows] : IsInjective(f)}
    /\ batch_meta' = Reorder(batch_meta, balanced_idx')
    /\ consumed' = Consume(Train, "balance_batch", [k \in 1..Rows |-> k])
    /\ Enter(Following)
    /\ UNCHANGED <<global_steps, storage, reward_tensor, samples>>

\* The scores of the rows asked for, in the balanced order.
AskReward ==
    LET fields == {"response", "prompt"} \cup If(UseRm, {"rm_scores"})
        meta == Ordered(fields, "compute_reward")
    IN  /\ phase = "reward" /\ CanGet(Train, fields, "compute_reward", Rows)
        /\ reward_tensor' = Scores(Stored(Train, meta))
        /\ consumed' = Consume(Train, "compute_reward", meta)
        /\ Enter(Following)
        /\ UNCHANGED <<global_steps, storage, batch_meta, balanced_idx, samples>>

Column(field, values) == [k \in DOMAIN values |-> field :> values[k]]

\* The scores are put with the metadata of the batch.
PutScores ==
    /\ phase = "scores"
    /\ storage' = Put(Train, batch_meta, Column("token_level_scores", reward_tensor))
    /\ Enter(Following)
    /\ UNCHANGED <<global_steps, consumed, batch_meta, balanced_idx, reward_tensor, samples>>

\* The driver reads the rows it asks for, computes a field, and puts it with their metadata.
Derive(fields, task, field, Values(_)) ==
    LET meta == Ordered(fields, task)
    IN  /\ CanGet(Train, fields, task, Rows)
        /\ storage' = Put(Train, meta, Column(field, Values(Stored(Train, meta))))
        /\ consumed' = Consume(Train, task, meta)
        /\ Enter(Following)
        /\ UNCHANGED <<global_steps, batch_meta, balanced_idx, reward_tensor, samples>>

\* apply_kl_penalty, or the scores as they are.
PutRewards ==
    /\ phase = "rewards"
    /\ Derive({"token_level_scores"} \cup If(KlInReward, {"old_log_probs", "ref_log_prob"}),
              IF KlInReward THEN "apply_kl_penalty" ELSE "token_level_scores",
              "token_level_rewards", Rewards)

PutAdvantages ==
    /\ phase = "adv"
    /\ Derive({"token_level_rewards", "prompt"} \cup If(UseCritic, {"values"}),
              "compute_advantage", "advantages", Advantages)

\* Metrics ask the queue once more; then validation may be due.
EndStep ==
    /\ phase = "end"
    /\ Enter(IF TestFreq > 0 /\ (is_last_step \/ global_steps % TestFreq = 0)
             THEN "put val" ELSE "clear")
    /\ samples' = NoSamples
    /\ UNCHANGED <<global_steps, storage, consumed, batch_meta, balanced_idx, reward_tensor>>

\* The metrics of the step, and its partition is cleared.
Clear ==
    /\ phase = "clear"
    /\ CanGet(Train, {"response", "token_level_scores", "token_level_rewards", "advantages"},
              "compute_data_metrics", Rows)
    /\ storage' = [storage EXCEPT ![Train] = <<>>]
    /\ consumed' = [consumed EXCEPT ![Train] = {}]
    /\ batch_meta' = <<>> /\ balanced_idx' = <<>> /\ reward_tensor' = <<>>
    /\ IF is_last_step THEN Enter("returned") /\ UNCHANGED global_steps
                       ELSE Enter("put") /\ global_steps' = global_steps + 1
    /\ UNCHANGED samples

-----------------------------------------------------------------------------
(* _validate: its batches come and go under one partition's name.          *)

test_batch == Len(samples.scores) \div ValRows + 1

PutVal ==
    /\ phase = "put val"
    /\ storage' = [storage EXCEPT ![Val] =
         @ \o [k \in 1..ValRows |-> [prompt |-> (test_batch - 1) * ValRows + k, number |-> k]]]
    /\ phase' = "get val"
    /\ UNCHANGED <<global_steps, consumed, batch_meta, balanced_idx, call_meta, done, reward_tensor,
                   samples>>

\* The inputs are listed, and the same samples asked for again to generate.
CallVal ==
    /\ phase = "get val"
    /\ CanGet(Val, {"prompt"}, "get_data", ValRows)
    /\ CanGet(Val, {"prompt"}, "generate_sequences", ValRows)
    /\ LET inputs == Stored(Val, Get(Val, {"prompt"}, "get_data", ValRows))
       IN  samples' = [samples EXCEPT !.inputs = @ \o [k \in DOMAIN inputs |-> inputs[k].prompt]]
    /\ call_meta' = Get(Val, {"prompt"}, "generate_sequences", ValRows)
    /\ consumed' = [consumed EXCEPT ![Val] = @ \cup
         {<<task, call_meta'[k]>> : task \in {"get_data", "generate_sequences"}, k \in 1..ValRows}]
    /\ phase' = "validate" /\ done' = {}
    /\ UNCHANGED <<global_steps, storage, batch_meta, balanced_idx, reward_tensor>>

\* Responses and scores are listed, each from samples the queue is asked for anew, and
\* the partition is cleared for the next batch.
ValReturns ==
    LET outputs == Stored(Val, Get(Val, {"response"}, "get_response", ValRows))
        scored == Scores(Stored(Val, Get(Val, {"response"}, "compute_reward", ValRows)))
    IN  /\ phase = "validate" /\ Returned
        /\ CanGet(Val, {"response"}, "get_response", ValRows)
        /\ samples' = [samples EXCEPT
                         !.outputs = @ \o [k \in DOMAIN outputs |-> outputs[k].response],
                         !.scores = @ \o scored]
        /\ storage' = [storage EXCEPT ![Val] = <<>>]
        /\ consumed' = [consumed EXCEPT ![Val] = {}]
        /\ IF Len(samples'.scores) < ValBatches * ValRows
             THEN Enter("put val") /\ UNCHANGED global_steps
           ELSE IF global_steps = 0
             THEN Enter("put") /\ global_steps' = 1
           ELSE Enter("clear") /\ UNCHANGED global_steps
        /\ UNCHANGED <<batch_meta, balanced_idx, reward_tensor>>

Driver == \/ Call \/ CallReturns \/ PutBatch \/ BalanceBatch \/ AskReward \/ PutScores
          \/ PutRewards \/ PutAdvantages \/ EndStep \/ Clear \/ PutVal \/ CallVal \/ ValReturns

Behind == \E rank \in 1..8 : RankPuts(rank)

Next == Driver \/ Behind

\* The driver runs when the queue does not let it wait, and what runs behind it ends.
Spec == Init /\ [][Next]_vars /\ WF_vars(Driver) /\ WF_vars(Behind)

-----------------------------------------------------------------------------
TypeOK ==
    /\ phase \in Calls \cup {"put", "balance", "reward", "scores", "rewards", "adv", "end",
                              "clear", "put val", "get val", "returned"}
    /\ global_steps \in 0..TotalSteps
    /\ DOMAIN storage = Partitions /\ DOMAIN consumed = Partitions
    /\ \A p \in Partitions : \A use \in consumed[p] : use[1] \in Tasks
    /\ \A meta \in {batch_meta, balanced_idx, call_meta} : IsInjective(meta)
    /\ done \subseteq 1..8

\* What is stored at once fits the units made at the start, one batch of each kind, and
\* nothing of a step is left when its partition is cleared.
StorageSuffices ==
    /\ FoldSet(LAMBDA p, sum : sum + Len(storage[p]), 0, Partitions) <= total_storage_size
    /\ \A p \in Partitions : p[2] # global_steps => storage[p] = <<>> /\ consumed[p] = {}

\* The parallel lists of a validation, each filled from an answer of its own of the queue,
\* agree: the output of a line answers its input, and the score is that output's.
ValidationIsAligned ==
    phase \in {"put val", "put", "clear"} =>
      /\ Len(samples.inputs) = Len(samples.outputs) /\ Len(samples.inputs) = Len(samples.scores)
      /\ \A k \in DOMAIN samples.inputs : /\ samples.inputs[k] = k
                                          /\ samples.outputs[k][1] = k
                                          /\ samples.scores[k] = samples.outputs[k]

\* The step is the abstract one, with the fields that every sample of the partition has.
Dataflow == INSTANCE StepDataflow WITH
    computed <- Complete(storage[Train]),
    steps <- IF phase = "returned" \/ global_steps = 0 THEN global_steps ELSE global_steps - 1

\* fit has returned.
Ended == phase = "returned"
=============================================================================
