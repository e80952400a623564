---------------------------- MODULE GkdPipeline ----------------------------
(***************************************************************************)
(* The off-policy pipeline of recipe/gkd: a generator (one_step_off or      *)
(* two_step_off scheduler) that overlaps rollout, teacher scoring and       *)
(* weight synchronisation, and the fit loop that pulls batches from it,     *)
(* trains the actor and saves checkpoints.                                  *)
(*                                                                          *)
(* Each iteration of a scheduler's for loop is a sequence of blocking or    *)
(* non-blocking operations, written here as a script that the driver works  *)
(* off one operation at a time.  The driver is one thread; generations and  *)
(* teacher requests complete at any time behind it.                         *)
(*                                                                          *)
(* Bounds: one pass over the data (NumBatches, total_epochs = 1) and        *)
(* MaxRestarts process restarts.                                            *)
(***************************************************************************)
EXTENDS Naturals, Sequences, FiniteSets

CONSTANTS
  Schedulers,   \* config.trainer.scheduler: "one_step_off", "two_step_off"
  NumBatches,   \* len(train_dataloader) = total_training_steps
  SaveFreq,     \* config.trainer.save_freq
  MaxRestarts   \* bound: restarts from the latest checkpoint

ASSUME SchedulersAssumption == Schedulers \subseteq {"one_step_off", "two_step_off"}
ASSUME NumBatchesAssumption == NumBatches \in Nat \ {0, 1}
ASSUME SaveFreqAssumption == SaveFreq \in Nat \ {0}
ASSUME MaxRestartsAssumption == MaxRestarts \in Nat

VARIABLES
  scheduler,       \* the configured scheduler
  phase,           \* the driver: in next(scheduler), in the training step, or over
  script,          \* what the scheduler's current iteration still has to do
  iteration,       \* iterations of the scheduler's for loop begun
  tail,            \* the for loop has ended
  futures,         \* GenerationBatchFutures of this process, in issue order
  fut,             \* index of the newest one (fut / rollout_future), 0 if unbound
  teacher_fut,     \* index of the one at the teacher (prev_fut / teacher_future)
  result,          \* index of the one yielded
  buffer,          \* the future whose scores the shared padded buffer holds
  consumed,        \* position of the train dataloader
  global_steps,
  actor_version,   \* updates the actor's weights have seen
  rollout_version, \* actor version the rollout workers generate with
  log,             \* training steps in the history of the weights
  skipped,         \* batches dropped because the teacher failed
  checkpoint,      \* what the latest checkpoint holds
  restarts

pipelineVars == <<script, iteration, tail, futures, fut, teacher_fut, result, buffer>>
learnerVars  == <<global_steps, actor_version, log, skipped, checkpoint>>
vars == <<scheduler, phase, script, iteration, tail, futures, fut, teacher_fut, result,
          buffer, consumed, global_steps, actor_version, rollout_version, log, skipped,
          checkpoint, restarts>>

Batches == 1..NumBatches
Unbound == 0

-----------------------------------------------------------------------------
(* The schedulers.  "sync" and "gen" are _async_gen_next_batch with and     *)
(* without sync_before_generation, "teach" is _async_get_teacher_knowledge, *)
(* "get" is GenerationBatchFuture.get.                                      *)

(* Mutant: the last batch is not drained after the loop.                    *)
TwoStepFinalShort == <<"get", "teach", "yield">>

OneStepIteration(i) ==
  CASE i = 0 -> <<"sync", "gen", "teach", "sync", "gen", "get", "yield", "teach">>
    [] i = 1 -> <<"gen", "get", "yield", "teach">>
    [] OTHER -> <<"sync", "gen", "get", "yield", "teach">>

OneStepFinal == <<"get", "yield">>

TwoStepIteration(i) ==
  CASE i = 0 -> <<"sync", "gen">>
    [] i = 1 -> <<"teach", "gen">>
    [] i = 2 -> <<"get", "teach", "gen", "yield">>
    [] OTHER -> <<"get", "teach", "sync", "gen", "yield">>

TwoStepFinal == <<"get", "teach", "yield", "get", "yield">>

Iteration(i) ==
  IF scheduler = "one_step_off" THEN OneStepIteration(i) ELSE TwoStepIteration(i)

Final == IF scheduler = "one_step_off" THEN OneStepFinal ELSE TwoStepFinal

Init ==
  /\ scheduler \in Schedulers
  /\ phase = "scheduler"
  /\ script = <<>> /\ iteration = 0 /\ tail = FALSE
  /\ futures = <<>> /\ fut = Unbound /\ teacher_fut = Unbound /\ result = Unbound
  /\ buffer = Unbound
  /\ consumed = 0
  /\ global_steps = 1
  /\ actor_version = 0 /\ rollout_version = 0
  /\ log = <<>> /\ skipped = {}
  /\ checkpoint = [step |-> 0, version |-> 0, consumed |-> 0, log |-> <<>>, skipped |-> {}]
  /\ restarts = 0

(* The next batch of the continuous iterator starts an iteration; its end   *)
(* leads to the statements after the loop, and theirs to StopIteration,     *)
(* which next(scheduler) in fit does not catch.                             *)
NextIteration ==
  /\ phase = "scheduler" /\ script = <<>> /\ ~tail
  /\ IF consumed < NumBatches
     THEN /\ consumed' = consumed + 1
          /\ iteration' = iteration + 1
          /\ script' = Iteration(iteration)
          /\ UNCHANGED tail
     ELSE /\ tail' = TRUE
          /\ script' = Final
          /\ UNCHANGED <<consumed, iteration>>
  /\ UNCHANGED <<scheduler, phase, futures, fut, teacher_fut, result, buffer,
                 rollout_version, learnerVars, restarts>>

StopIteration ==
  /\ phase = "scheduler" /\ script = <<>> /\ tail
  /\ phase' = "raised"
  /\ UNCHANGED <<scheduler, pipelineVars, consumed, rollout_version, learnerVars, restarts>>

(* The operation at the head of the script.                                 *)
Does(op) == phase = "scheduler" /\ script # <<>> /\ Head(script) = op

(* sync_rollout_weights waits for the rollout workers, which serve their    *)
(* calls in order, so for every generation issued before.                   *)
Sync ==
  /\ Does("sync")
  /\ \A k \in DOMAIN futures : futures[k].done
  /\ rollout_version' = actor_version
  /\ script' = Tail(script)
  /\ UNCHANGED <<scheduler, phase, iteration, tail, futures, fut, teacher_fut, result,
                 buffer, consumed, learnerVars, restarts>>

(* async_generate_sequences returns a future at once.                       *)
Gen ==
  /\ Does("gen")
  /\ futures' = Append(futures, [batch |-> consumed, version |-> rollout_version,
                                 done |-> FALSE, teacher |-> "none"])
  /\ fut' = Len(futures) + 1
  /\ script' = Tail(script)
  /\ UNCHANGED <<scheduler, phase, iteration, tail, teacher_fut, result, buffer,
                 consumed, rollout_version, learnerVars, restarts>>

(* An unbound local raises out of the generator and of fit.                 *)
UnboundLocal ==
  /\ \/ Does("teach") /\ fut = Unbound
     \/ Does("get") /\ teacher_fut = Unbound
  /\ phase' = "raised"
  /\ UNCHANGED <<scheduler, pipelineVars, consumed, rollout_version, learnerVars, restarts>>

(* Waits for the generation, then submits its sequences to the teacher.     *)
Teach ==
  /\ Does("teach") /\ fut # Unbound
  /\ futures[fut].done
  /\ futures' = [futures EXCEPT ![fut].teacher = "asked"]
  /\ teacher_fut' = fut
  /\ script' = Tail(script)
  /\ UNCHANGED <<scheduler, phase, iteration, tail, fut, result, buffer, consumed,
                 rollout_version, learnerVars, restarts>>

(* Waits for the teacher and copies its scores into the module's padded      *)
(* buffer, which the returned batch aliases; a failure is swallowed.        *)
Get ==
  /\ Does("get") /\ teacher_fut # Unbound
  /\ futures[teacher_fut].teacher \in {"ok", "failed"}
  /\ result' = teacher_fut
  /\ buffer' = IF futures[teacher_fut].teacher = "ok" THEN teacher_fut ELSE buffer
  /\ script' = Tail(script)
  /\ UNCHANGED <<scheduler, phase, iteration, tail, futures, fut, teacher_fut, consumed,
                 rollout_version, learnerVars, restarts>>

Yield ==
  /\ Does("yield")
  /\ phase' = "step"
  /\ script' = Tail(script)
  /\ UNCHANGED <<scheduler, iteration, tail, futures, fut, teacher_fut, result, buffer,
                 consumed, rollout_version, learnerVars, restarts>>

-----------------------------------------------------------------------------
(* The fit loop.                                                            *)

IsLastStep == global_steps >= NumBatches

Save(version, history, dropped) ==
  checkpoint' = IF IsLastStep \/ global_steps % SaveFreq = 0
                THEN [step |-> global_steps, version |-> version, consumed |-> consumed,
                      log |-> history, skipped |-> dropped]
                ELSE checkpoint

EndStep ==
  /\ global_steps' = global_steps + 1
  /\ phase' = IF IsLastStep THEN "returned" ELSE "scheduler"
  /\ UNCHANGED <<scheduler, pipelineVars, consumed, rollout_version, restarts>>

(* What a training step adds to the history of the weights.                 *)
Step == [batch |-> futures[result].batch, generated_by |-> futures[result].version,
         trained_at |-> actor_version, scores_of |-> buffer]

(* Mutant: the checkpoint is written before the actor is updated.           *)
TrainStepSavesFirst ==
  /\ phase = "step" /\ futures[result].teacher = "ok"
  /\ actor_version' = actor_version + 1
  /\ log' = Append(log, Step)
  /\ Save(actor_version, log, skipped)
  /\ EndStep
  /\ UNCHANGED skipped

TrainStep ==
  /\ phase = "step" /\ futures[result].teacher = "ok"
  /\ actor_version' = actor_version + 1
  /\ log' = Append(log, Step)
  /\ Save(actor_version', log', skipped)
  /\ EndStep
  /\ UNCHANGED skipped

(* "Error in getting teacher knowledge. Skip this batch."                   *)
SkipStep ==
  /\ phase = "step" /\ futures[result].teacher = "failed"
  /\ skipped' = skipped \cup {futures[result].batch}
  /\ Save(actor_version, log, skipped')
  /\ EndStep
  /\ UNCHANGED <<actor_version, log>>

-----------------------------------------------------------------------------
(* Behind the driver.                                                       *)

GenerationDone(k) ==
  /\ ~futures[k].done
  /\ futures' = [futures EXCEPT ![k].done = TRUE]
  /\ UNCHANGED <<scheduler, phase, script, iteration, tail, fut, teacher_fut, result,
                 buffer, consumed, rollout_version, learnerVars, restarts>>

(* Mutant: the scores are written to the shared buffer when they arrive.    *)
TeacherDoneWritesBuffer(k, outcome) ==
  /\ futures[k].teacher = "asked"
  /\ futures' = [futures EXCEPT ![k].teacher = outcome]
  /\ buffer' = IF outcome = "ok" THEN k ELSE buffer
  /\ UNCHANGED <<scheduler, phase, script, iteration, tail, fut, teacher_fut, result,
                 consumed, rollout_version, learnerVars, restarts>>

TeacherDone(k, outcome) ==
  /\ futures[k].teacher = "asked"
  /\ futures' = [futures EXCEPT ![k].teacher = outcome]
  /\ UNCHANGED <<scheduler, phase, script, iteration, tail, fut, teacher_fut, result,
                 buffer, consumed, rollout_version, learnerVars, restarts>>

(* The process dies and is started again: _load_checkpoint restores the     *)
(* step, the actor and the dataloader position, and everything in flight    *)
(* is gone.  What an exhausted StatefulDataLoader resumes to is the         *)
(* library's affair, so a restart from such a checkpoint is left out.       *)
Restart ==
  /\ phase # "returned"
  /\ restarts < MaxRestarts
  /\ checkpoint.consumed < NumBatches
  /\ restarts' = restarts + 1
  /\ phase' = "scheduler"
  /\ script' = <<>> /\ iteration' = 0 /\ tail' = FALSE
  /\ futures' = <<>> /\ fut' = Unbound /\ teacher_fut' = Unbound /\ result' = Unbound
  /\ buffer' = Unbound
  /\ consumed' = checkpoint.consumed
  /\ global_steps' = checkpoint.step + 1
  /\ actor_version' = checkpoint.version
  /\ rollout_version' = 0
  /\ log' = checkpoint.log
  /\ skipped' = checkpoint.skipped
  /\ UNCHANGED <<scheduler, checkpoint>>

-----------------------------------------------------------------------------
Driver ==
  \/ NextIteration \/ StopIteration \/ Sync \/ Gen \/ UnboundLocal \/ Teach \/ Get \/ Yield
  \/ TrainStep \/ SkipStep

Background ==
  \E k \in DOMAIN futures :
    \/ GenerationDone(k)
    \/ \E outcome \in {"ok", "failed"} : TeacherDone(k, outcome)

Next == Driver \/ Background \/ Restart

Spec == Init /\ [][Next]_vars

(* Every rollout and every teacher request ends (the teacher client's       *)
(* receives time out), and the driver thread runs.                          *)
FairSpec == Spec /\ WF_vars(Driver) /\ WF_vars(Background)

-----------------------------------------------------------------------------
Operation == {"sync", "gen", "teach", "get", "yield"}
FutureRec == [batch : Batches, version : Nat, done : BOOLEAN,
              teacher : {"none", "asked", "ok", "failed"}]
StepRec   == [batch : Batches, generated_by : Nat, trained_at : Nat, scores_of : Nat]

(* Type correctness of the driver, its futures, the learner and the         *)
(* checkpoint.                                                              *)
TypeOK ==
  /\ scheduler \in Schedulers
  /\ phase \in {"scheduler", "step", "returned", "raised"}
  /\ script \in Seq(Operation)
  /\ iteration \in Nat
  /\ tail \in BOOLEAN
  /\ futures \in Seq(FutureRec)
  /\ {fut, teacher_fut, result, buffer} \subseteq Unbound..Len(futures)
  /\ consumed \in 0..NumBatches
  /\ global_steps \in 1..NumBatches + 1
  /\ {actor_version, rollout_version} \subseteq 0..NumBatches
  /\ log \in Seq(StepRec)
  /\ skipped \subseteq Batches
  /\ checkpoint \in [step : 0..NumBatches, version : 0..NumBatches,
                     consumed : 0..NumBatches, log : Seq(StepRec), skipped : SUBSET Batches]
  /\ restarts \in 0..MaxRestarts

Trained == {log[k].batch : k \in DOMAIN log}

(* A batch is trained at most two updates after the weights that generated  *)
(* it, under both schedulers: the third iteration of two_step_off generates *)
(* without a synchronisation, and one_step_off does so in its second.       *)
StalenessBounded ==
  \A k \in DOMAIN log : log[k].trained_at - log[k].generated_by \in 0..2

(* The two-step scheduler never trains a batch twice and never out of       *)
(* order, restarts and skipped batches included.                            *)
TwoStepTrainsInOrder ==
  scheduler = "two_step_off" =>
    \A j, k \in DOMAIN log : j < k => log[j].batch < log[k].batch

(* The actor is trained on the scores of the very generation it trains on:  *)
(* the padded buffer of teacher_utils is one global that every get()        *)
(* overwrites and the yielded batch aliases.                                *)
ScoresMatchStep ==
  phase = "step" /\ futures[result].teacher = "ok" => buffer = result

(* A two-step run that no restart disturbed returns having trained, or      *)
(* dropped for a failed teacher, every batch.                               *)
TwoStepCoversData ==
  scheduler = "two_step_off" /\ phase = "returned" /\ restarts = 0
    => Trained \cup skipped = Batches

(* The dataloader position in a checkpoint is ahead of what was trained by  *)
(* what the scheduler had in flight, and a restart drops those batches: two *)
(* at most for two_step_off, one for one_step_off, and no more per restart. *)
RestartLossBounded ==
  LET depth == IF scheduler = "two_step_off" THEN 2 ELSE 1
      done  == Trained \cup skipped
  IN  Cardinality({b \in Batches : b \notin done /\ \E c \in done : b < c})
        <= depth * restarts

(* What training has seen of the data: under the two-step scheduler every    *)
(* batch at most once and in order, and every batch unless a restart or a   *)
(* failed teacher dropped it; and of those that are missing, a restart      *)
(* dropped no more than was in flight.                                      *)
DataIsUsedOnce == TypeOK /\ TwoStepTrainsInOrder /\ TwoStepCoversData /\ RestartLossBounded

(* A step belongs together: the actor trains on the scores of the very      *)
(* batch it trains on, and that batch is no staler than the pipeline is     *)
(* deep.                                                                    *)
StepsMatch == ScoresMatchStep /\ StalenessBounded

(* How fit should end: a run that no restart disturbed leaves it by its     *)
(* return, never by a StopIteration or an unbound local.                    *)
Ended == phase = "returned" \/ (phase = "raised" /\ restarts > 0)

=============================================================================
