------------------------------ MODULE OneStepOff ------------------------------
(***************************************************************************)
(* The trainer of recipe/one_step_off_policy: while the actor trains on a  *)
(* batch, separate rollout workers already generate the next one.          *)
(*                                                                         *)
(* The driver is one thread.  The rollout workers serve its calls in       *)
(* order, a generation completes behind the driver, and with               *)
(* launch_reward_fn_async a task of its own scores it when it has.         *)
(*                                                                         *)
(* A batch is the position in the data it was read from; its responses are *)
(* numbered in the order they were generated in.                           *)
(*                                                                         *)
(* Bounds: Epochs over NumBatches batches, MaxRestarts restarts from the   *)
(* latest checkpoint, MaxErrors failures to read a batch.                  *)
(***************************************************************************)
EXTENDS Naturals, Sequences, FiniteSets

CONSTANTS
    NumBatches,     \* len(train_dataloader)
    Epochs,         \* config.trainer.total_epochs
    Responses,      \* responses of a batch, prompts times rollout.n
    BalanceBatch,   \* config.trainer.balance_batch
    RewardAsync,    \* config.reward_model.launch_reward_fn_async
    Warmup,         \* config.trainer.critic_warmup
    SaveFreq,       \* config.trainer.save_freq
    TestFreq,       \* config.trainer.test_freq
    MaxRestarts,
    MaxErrors

OneStepOffAssumption ==
    /\ {NumBatches, Epochs, Responses, SaveFreq, TestFreq} \subseteq Nat \ {0}
    /\ {Warmup, MaxRestarts, MaxErrors} \subseteq Nat
    /\ {BalanceBatch, RewardAsync} \subseteq BOOLEAN

VARIABLES
    phase,              \* where the driver is in fit
    global_steps,
    epoch, position,    \* of the continuous iterator
    futures,            \* GenerationBatchFutures of this process, in order
    batch_data_future,  \* the newest of them, or None
    batch,              \* the one that is trained on
    rows,               \* the order of its responses on the driver
    token_level_scores, \* the response each row's score is of
    actor_version,      \* updates the actor has seen
    rollout_version,    \* actor version the rollout workers hold
    log,                \* training steps in the history of the weights
    measured,           \* what each validation measured
    checkpoint,
    restarts, errors

reading == <<epoch, position, errors>>
rowVars == <<rows, token_level_scores>>
lasting == <<log, checkpoint, restarts>>
vars == <<phase, global_steps, reading, futures, batch_data_future, batch, rowVars,
          actor_version, rollout_version, measured, lasting>>

total_training_steps == NumBatches * Epochs
None == 0
InOrder == [k \in 1..Responses |-> k]
Orders == {p \in [1..Responses -> 1..Responses] : \A j, k \in 1..Responses : p[j] = p[k] => j = k}

Init ==
    /\ phase = "begin" /\ global_steps = 0
    /\ epoch = 1 /\ position = 0 /\ errors = 0
    /\ futures = <<>> /\ batch_data_future = None /\ batch = None
    /\ rows = InOrder /\ token_level_scores = InOrder
    /\ actor_version = 0 /\ rollout_version = 0
    /\ log = <<>> /\ measured = {}
    /\ checkpoint = [step |-> 0, version |-> 0, position |-> 0, log |-> <<>>]
    /\ restarts = 0

-----------------------------------------------------------------------------
(* Reading and generating.                                                 *)

\* The continuous iterator goes from one pass over the data to the next.
HasNext == position < NumBatches \/ epoch < Epochs

ReadNext ==
    IF position < NumBatches THEN position' = position + 1 /\ UNCHANGED epoch
                             ELSE position' = 1 /\ epoch' = epoch + 1

\* Mutant: the rollout workers start before they have the new weights.
GenerateAndSync ==
    /\ rollout_version' = actor_version
    /\ futures' = Append(futures, [batch |-> position', version |-> rollout_version,
                                   generated |-> FALSE, scored |-> FALSE])
    /\ batch_data_future' = Len(futures')

\* sync_rollout_weights, then async_generate_sequences.
SyncAndGenerate ==
    /\ rollout_version' = actor_version
    /\ futures' = Append(futures, [batch |-> position', version |-> rollout_version',
                                   generated |-> FALSE, scored |-> FALSE])
    /\ batch_data_future' = Len(futures')

\* _async_gen_next_batch returns None at the end of the data, and also when a
\* batch cannot be read.
AsyncGenNextBatch ==
    \/ /\ HasNext /\ ReadNext /\ UNCHANGED errors
       /\ SyncAndGenerate
    \/ /\ \/ ~HasNext /\ UNCHANGED errors
          \/ errors < MaxErrors /\ errors' = errors + 1
       /\ batch_data_future' = None
       /\ UNCHANGED <<epoch, position, futures, rollout_version>>

-----------------------------------------------------------------------------
(* The driver.                                                             *)

\* _validate generates with the rollout workers.
Validate ==
    measured' = measured \cup {[step |-> global_steps, trained |-> actor_version,
                                used |-> rollout_version]}

\* After _load_checkpoint, val_before_train.
Begin ==
    /\ phase = "begin"
    /\ Validate
    /\ global_steps' = global_steps + 1
    /\ phase' = "first"
    /\ UNCHANGED <<reading, futures, batch_data_future, batch, rowVars, actor_version,
                   rollout_version, lasting>>

First ==
    /\ phase = "first"
    /\ AsyncGenNextBatch
    /\ phase' = "loop"
    /\ UNCHANGED <<global_steps, batch, rowVars, actor_version, measured, lasting>>

is_last_step == global_steps >= total_training_steps

\* batch_data_future.get() waits for the generation.
Wait ==
    /\ phase = "loop" /\ batch_data_future # None
    /\ futures[batch_data_future].generated
    /\ batch' = batch_data_future
    /\ phase' = "next"
    /\ UNCHANGED <<global_steps, reading, futures, batch_data_future, rowVars, actor_version,
                   rollout_version, measured, lasting>>

GenNext ==
    /\ phase = "next"
    /\ IF is_last_step
       THEN UNCHANGED <<reading, futures, batch_data_future, rollout_version>>
       ELSE AsyncGenNextBatch
    /\ phase' = "balance"
    /\ UNCHANGED <<global_steps, batch, rowVars, actor_version, measured, lasting>>

\* _balance_batch reorders the responses in place.
Balance ==
    /\ phase = "balance"
    /\ rows' \in IF BalanceBatch THEN Orders ELSE {InOrder}
    /\ phase' = "reward"
    /\ UNCHANGED <<global_steps, reading, futures, batch_data_future, batch,
                   token_level_scores, actor_version, rollout_version, measured, lasting>>

\* The scores are those of the task started with the generation, in the order of
\* the generation, or are computed now of the rows as they stand.
Reward ==
    /\ phase = "reward"
    /\ RewardAsync => futures[batch].scored
    /\ token_level_scores' = IF RewardAsync THEN InOrder ELSE rows
    /\ phase' = "update"
    /\ UNCHANGED <<global_steps, reading, futures, batch_data_future, batch, rows,
                   actor_version, rollout_version, measured, lasting>>

Step == [batch |-> futures[batch].batch, generated_by |-> futures[batch].version,
         trained_at |-> actor_version]

\* update_actor, from the step that critic_warmup names on.
Update ==
    /\ phase = "update"
    /\ IF Warmup <= global_steps
       THEN actor_version' = actor_version + 1 /\ log' = Append(log, Step)
       ELSE UNCHANGED <<actor_version, log>>
    /\ phase' = "finish"
    /\ UNCHANGED <<global_steps, reading, futures, batch_data_future, batch, rowVars,
                   rollout_version, measured, checkpoint, restarts>>

\* Validation queues behind the next generation at the rollout workers.
Finish ==
    /\ phase = "finish"
    /\ IF is_last_step \/ global_steps % TestFreq = 0
       THEN Validate /\ \A k \in DOMAIN futures : futures[k].generated
       ELSE UNCHANGED measured
    /\ checkpoint' = IF is_last_step \/ global_steps % SaveFreq = 0
                     THEN [step |-> global_steps, version |-> actor_version,
                           position |-> position, log |-> log]
                     ELSE checkpoint
    /\ global_steps' = global_steps + 1
    /\ phase' = IF is_last_step THEN "returned" ELSE "loop"
    /\ UNCHANGED <<reading, futures, batch_data_future, batch, rowVars, actor_version,
                   rollout_version, log, restarts>>

\* The while loop is left for want of a batch.
RunOut ==
    /\ phase = "loop" /\ batch_data_future = None
    /\ phase' = "ended"
    /\ UNCHANGED <<global_steps, reading, futures, batch_data_future, batch, rowVars,
                   actor_version, rollout_version, measured, lasting>>

-----------------------------------------------------------------------------
(* Behind the driver.                                                      *)

Generated(k) ==
    /\ ~futures[k].generated
    /\ futures' = [futures EXCEPT ![k].generated = TRUE]
    /\ UNCHANGED <<phase, global_steps, reading, batch_data_future, batch, rowVars,
                   actor_version, rollout_version, measured, lasting>>

\* _launch_individual_rewards.
Scored(k) ==
    /\ RewardAsync /\ futures[k].generated /\ ~futures[k].scored
    /\ futures' = [futures EXCEPT ![k].scored = TRUE]
    /\ UNCHANGED <<phase, global_steps, reading, batch_data_future, batch, rowVars,
                   actor_version, rollout_version, measured, lasting>>

\* The job is started again.  init_workers gives the rollout workers the base
\* weights before _load_checkpoint gives the actor its own; the iterator counts
\* its epochs anew from where the dataloader stood.  What an exhausted
\* StatefulDataLoader resumes to is the library's affair and left out.
Restart ==
    /\ phase # "returned" /\ restarts < MaxRestarts
    /\ checkpoint.position < NumBatches
    /\ restarts' = restarts + 1
    /\ phase' = "begin" /\ global_steps' = checkpoint.step
    /\ epoch' = 1 /\ position' = checkpoint.position
    /\ futures' = <<>> /\ batch_data_future' = None /\ batch' = None
    /\ rows' = InOrder /\ token_level_scores' = InOrder
    /\ actor_version' = checkpoint.version /\ rollout_version' = 0
    /\ log' = checkpoint.log
    /\ UNCHANGED <<errors, measured, checkpoint>>

-----------------------------------------------------------------------------
Driver ==
    \/ Begin \/ First \/ Wait \/ GenNext \/ Balance \/ Reward \/ Update \/ Finish \/ RunOut

Background == \E k \in DOMAIN futures : Generated(k) \/ Scored(k)

Next == Driver \/ Background \/ Restart

\* The driver thread runs, and generations and reward tasks end.
Fairness == WF_vars(Driver) /\ WF_vars(Background)

Spec == Init /\ [][Next]_vars /\ Fairness

-----------------------------------------------------------------------------
Future == [batch : 1..NumBatches, version : Nat, generated : BOOLEAN, scored : BOOLEAN]
StepRec == [batch : 1..NumBatches, generated_by : Nat, trained_at : Nat]

TypeOK ==
    /\ phase \in {"begin", "first", "loop", "next", "balance", "reward", "update", "finish",
                  "returned", "ended"}
    /\ global_steps \in 0..total_training_steps + 1
    /\ epoch \in 1..Epochs /\ position \in 0..NumBatches
    /\ futures \in Seq(Future)
    /\ {batch_data_future, batch} \subseteq 0..Len(futures)
    /\ {rows, token_level_scores} \subseteq Orders
    /\ {actor_version, rollout_version} \subseteq 0..total_training_steps
    /\ log \in Seq(StepRec)
    /\ measured \subseteq [step : 0..total_training_steps, trained : Nat, used : Nat]
    /\ checkpoint \in [step : 0..total_training_steps, version : Nat,
                       position : 0..NumBatches, log : Seq(StepRec)]
    /\ restarts \in 0..MaxRestarts /\ errors \in 0..MaxErrors

\* "generation and training parameters maintain a one-step off policy": a batch
\* was generated by the weights it is trained on or by those one update older.
OneStepBehind ==
    \A k \in DOMAIN log : log[k].trained_at - log[k].generated_by \in {0, 1}

\* The reward of a row is that of its own response, however the rows were
\* reordered to balance them over the ranks.
RowsKeepScores == phase = "update" => token_level_scores = rows

\* Only a first pass: the batches are trained in the order of the data, each at
\* most once, and what is missing between them was in flight at a restart.
InDataOrder ==
    Epochs = 1 =>
      /\ \A j, k \in DOMAIN log : j < k => log[j].batch < log[k].batch
      /\ log # <<>> /\ Warmup = 0 => log[Len(log)].batch <= Len(log) + restarts

\* A validation that follows a step measures weights the trainer has left
\* behind: those before the step, and in the last step, which generates nothing
\* for later, those before the step before it.
MeasuresEarlier ==
    \A m \in measured :
      /\ m.used <= m.trained
      /\ m.step > 0 /\ restarts + errors = 0 =>
           m.trained - m.used <= (IF m.step = total_training_steps THEN 2 ELSE 1)

\* fit leaves its loop without its last step, and so without a final checkpoint
\* and validation, only because data is missing: each restart loses the batch in
\* flight, and one that cannot be read ends the data.
EndsShort ==
    phase = "ended" =>
      \/ errors > 0
      \/ total_training_steps - (global_steps - 1) \in 1..restarts

\* The loop has left fit: after its last step or at the end of the data.
Ended == phase \in {"returned", "ended"}
=============================================================================
