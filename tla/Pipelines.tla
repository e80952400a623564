------------------------------ MODULE Pipelines ------------------------------
(***************************************************************************)
(* The recipes' training loops around data, rollout and checkpoint, one    *)
(* chosen in the initial state: "gkd", the pipeline of GkdPipeline with    *)
(* the sizes of the .cfg; "one step" and "rewards", the two ways of        *)
(* OneStepOff to keep scores with their rows; "dapo" and "patient",        *)
(* DynamicSampling with and without a limit; "ppo" and "bypass", the step  *)
(* of PpoStep comparing groups or with a critic; "queue" and "queue rm",   *)
(* the same of TransferQueue.  The modules have variables of their own     *)
(* (os_, ds_, pp_, tq_); whatever is not chosen stands still.              *)
(***************************************************************************)
EXTENDS GkdPipeline

VARIABLES
    setting,
    os_phase, os_steps, epoch, position, os_futures, batch_data_future, batch, rows,
    token_level_scores, os_actor, os_rollout, os_log, measured, os_checkpoint, os_restarts,
    errors,
    ds_phase, ds_steps, ds_position, ds_batch, num_prompt_in_batch, num_gen_batches,
    informative, ds_log, ds_checkpoint, ds_restarts,
    pp_phase, pp_steps, pp_batch, pp_outputs, pp_future, source, pp_samples,
    tq_phase, tq_steps, storage, tq_consumed, batch_meta, balanced_idx, call_meta, done,
    tq_reward, tq_samples

osVars == <<os_phase, os_steps, epoch, position, os_futures, batch_data_future, batch, rows,
            token_level_scores, os_actor, os_rollout, os_log, measured, os_checkpoint,
            os_restarts, errors>>
dsVars == <<ds_phase, ds_steps, ds_position, ds_batch, num_prompt_in_batch, num_gen_batches,
            informative, ds_log, ds_checkpoint, ds_restarts>>
ppVars == <<pp_phase, pp_steps, pp_batch, pp_outputs, pp_future, source, pp_samples>>
tqVars == <<tq_phase, tq_steps, storage, tq_consumed, batch_meta, balanced_idx, call_meta, done,
            tq_reward, tq_samples>>
mcVars == <<setting, vars, osVars, dsVars, ppVars, tqVars>>

\* Responses are reordered to balance them, and scored afterwards.
OneStep == INSTANCE OneStepOff WITH NumBatches <- 4, Epochs <- 1, Responses <- 3,
    BalanceBatch <- TRUE, RewardAsync <- FALSE, Warmup <- 0, SaveFreq <- 1, TestFreq <- 2,
    MaxRestarts <- 2, MaxErrors <- 1,
    phase <- os_phase, global_steps <- os_steps, futures <- os_futures,
    actor_version <- os_actor, rollout_version <- os_rollout, log <- os_log,
    checkpoint <- os_checkpoint, restarts <- os_restarts
\* Responses are scored as soon as they are generated, and keep their order.
Rewards == INSTANCE OneStepOff WITH NumBatches <- 3, Epochs <- 2, Responses <- 2,
    BalanceBatch <- FALSE, RewardAsync <- TRUE, Warmup <- 2, SaveFreq <- 2, TestFreq <- 2,
    MaxRestarts <- 1, MaxErrors <- 1,
    phase <- os_phase, global_steps <- os_steps, futures <- os_futures,
    actor_version <- os_actor, rollout_version <- os_rollout, log <- os_log,
    checkpoint <- os_checkpoint, restarts <- os_restarts

Dapo == INSTANCE DynamicSampling WITH NumBatches <- 4, GenSize <- 3, TrainSize <- 2, N <- 2,
    Filter <- TRUE, MaxGenBatches <- 2, TotalSteps <- 4, SaveFreq <- 1, MaxRestarts <- 1,
    phase <- ds_phase, global_steps <- ds_steps, position <- ds_position, batch <- ds_batch,
    log <- ds_log, checkpoint <- ds_checkpoint, restarts <- ds_restarts
Patient == INSTANCE DynamicSampling WITH NumBatches <- 5, GenSize <- 2, TrainSize <- 3, N <- 2,
    Filter <- TRUE, MaxGenBatches <- 0, TotalSteps <- 2, SaveFreq <- 2, MaxRestarts <- 1,
    phase <- ds_phase, global_steps <- ds_steps, position <- ds_position, batch <- ds_batch,
    log <- ds_log, checkpoint <- ds_checkpoint, restarts <- ds_restarts

\* Two data parallel ranks; two with a replica each, the first collected; two with a
\* pipeline each, the last stage collected.
Flat == [dp_rank_mapping |-> <<0, 1>>, collect_mask |-> <<TRUE, TRUE>>]
Replicas == [dp_rank_mapping |-> <<0, 0, 1, 1>>, collect_mask |-> <<TRUE, FALSE, TRUE, FALSE>>]
Pipeline == [dp_rank_mapping |-> <<0, 1, 0, 1>>, collect_mask |-> <<FALSE, FALSE, TRUE, TRUE>>]

\* Groups of responses, a reference, the reward computed behind.
Ppo == INSTANCE PpoStep WITH Prompts <- 2, N <- 2, UseCritic <- FALSE, UseRef <- TRUE,
    UseRm <- FALSE, KlInReward <- TRUE, ActorMesh <- Flat, CriticMesh <- Flat,
    RolloutMesh <- Replicas, LaunchAsync <- TRUE, Bypass <- FALSE, Balance <- TRUE, Warmup <- 0,
    TestFreq <- 2, ValSources <- <<"a", "b", "a">>, ValN <- [a |-> 2, b |-> 1], TotalSteps <- 2,
    phase <- pp_phase, global_steps <- pp_steps, batch <- pp_batch, outputs <- pp_outputs,
    future <- pp_future, samples <- pp_samples
\* A critic and a reward model, the rollout's log-probabilities, actor warm-up.
BypassPpo == INSTANCE PpoStep WITH Prompts <- 2, N <- 2, UseCritic <- TRUE, UseRef <- FALSE,
    UseRm <- TRUE, KlInReward <- FALSE, ActorMesh <- Replicas, CriticMesh <- Pipeline,
    RolloutMesh <- Flat, LaunchAsync <- FALSE, Bypass <- TRUE, Balance <- TRUE, Warmup <- 2,
    TestFreq <- 1, ValSources <- <<"a">>, ValN <- [a |-> 1], TotalSteps <- 2,
    phase <- pp_phase, global_steps <- pp_steps, batch <- pp_batch, outputs <- pp_outputs,
    future <- pp_future, samples <- pp_samples

\* A critic, a KL penalty, validation.
Queue == INSTANCE TransferQueue WITH Prompts <- 2, N <- 2, UseCritic <- TRUE, UseRef <- TRUE,
    UseRm <- FALSE, KlInReward <- TRUE, ActorMesh <- Flat, CriticMesh <- Pipeline,
    RolloutMesh <- Replicas, Warmup <- 0, TestFreq <- 2, ValBatches <- 2,
    ValRows <- 2, TotalSteps <- 2,
    phase <- tq_phase, global_steps <- tq_steps, consumed <- tq_consumed,
    reward_tensor <- tq_reward, samples <- tq_samples
\* Groups of responses, a reward model, actor warm-up.
QueueRm == INSTANCE TransferQueue WITH Prompts <- 2, N <- 2, UseCritic <- FALSE, UseRef <- TRUE,
    UseRm <- TRUE, KlInReward <- FALSE, ActorMesh <- Replicas, CriticMesh <- Flat,
    RolloutMesh <- Flat, Warmup <- 2, TestFreq <- 0, ValBatches <- 1,
    ValRows <- 2, TotalSteps <- 2,
    phase <- tq_phase, global_steps <- tq_steps, consumed <- tq_consumed,
    reward_tensor <- tq_reward, samples <- tq_samples

ASSUME SettingsAssumption ==
    /\ Ppo!PpoStepAssumption /\ BypassPpo!PpoStepAssumption
    /\ Queue!TransferQueueAssumption /\ QueueRm!TransferQueueAssumption
    /\ OneStep!OneStepOffAssumption /\ Rewards!OneStepOffAssumption
    /\ Dapo!DynamicSamplingAssumption /\ Patient!DynamicSamplingAssumption

GkdIdle == Init /\ scheduler = "one_step_off"

OsIdle ==
    /\ os_phase = "idle" /\ os_steps = 0 /\ epoch = 0 /\ position = 0 /\ os_futures = 0
    /\ batch_data_future = 0 /\ batch = 0 /\ rows = 0 /\ token_level_scores = 0
    /\ os_actor = 0 /\ os_rollout = 0 /\ os_log = 0 /\ measured = 0 /\ os_checkpoint = 0
    /\ os_restarts = 0 /\ errors = 0

DsIdle ==
    /\ ds_phase = "idle" /\ ds_steps = 0 /\ ds_position = 0 /\ ds_batch = 0
    /\ num_prompt_in_batch = 0 /\ num_gen_batches = 0 /\ informative = 0 /\ ds_log = 0
    /\ ds_checkpoint = 0 /\ ds_restarts = 0

PpIdle ==
    /\ pp_phase = "idle" /\ pp_steps = 0 /\ pp_batch = 0 /\ pp_outputs = 0 /\ pp_future = 0
    /\ source = 0 /\ pp_samples = 0

TqIdle ==
    /\ tq_phase = "idle" /\ tq_steps = 0 /\ storage = 0 /\ tq_consumed = 0
    /\ batch_meta = 0 /\ balanced_idx = 0 /\ call_meta = 0 /\ done = 0
    /\ tq_reward = 0 /\ tq_samples = 0

MCInit ==
    \/ setting = "gkd" /\ Init /\ OsIdle /\ DsIdle /\ PpIdle /\ TqIdle
    \/ /\ GkdIdle /\ DsIdle /\ PpIdle /\ TqIdle
       /\ \/ setting = "one step" /\ OneStep!Init
          \/ setting = "rewards" /\ Rewards!Init
    \/ /\ GkdIdle /\ OsIdle /\ PpIdle /\ TqIdle
       /\ \/ setting = "dapo" /\ Dapo!Init
          \/ setting = "patient" /\ Patient!Init
    \/ /\ GkdIdle /\ OsIdle /\ DsIdle /\ TqIdle
       /\ \/ setting = "ppo" /\ Ppo!Init
          \/ setting = "bypass" /\ BypassPpo!Init
    \/ /\ GkdIdle /\ OsIdle /\ DsIdle /\ PpIdle
       /\ \/ setting = "queue" /\ Queue!Init
          \/ setting = "queue rm" /\ QueueRm!Init

InGkd(A) == setting = "gkd" /\ A /\ UNCHANGED <<setting, osVars, dsVars, ppVars, tqVars>>
InOneStep(name, A) ==
    setting = name /\ A /\ UNCHANGED <<setting, vars, dsVars, ppVars, tqVars>>
InDapo(name, A) == setting = name /\ A /\ UNCHANGED <<setting, vars, osVars, ppVars, tqVars>>
InPpo(name, A) == setting = name /\ A /\ UNCHANGED <<setting, vars, osVars, dsVars, tqVars>>
InQueue(name, A) == setting = name /\ A /\ UNCHANGED <<setting, vars, osVars, dsVars, ppVars>>

MCNext ==
    \/ InGkd(Next)
    \/ InOneStep("one step", OneStep!Next)
    \/ InOneStep("rewards", Rewards!Next)
    \/ InDapo("dapo", Dapo!Next)
    \/ InDapo("patient", Patient!Next)
    \/ InPpo("ppo", Ppo!Next)
    \/ InPpo("bypass", BypassPpo!Next)
    \/ InQueue("queue", Queue!Next)
    \/ InQueue("queue rm", QueueRm!Next)

MCDriver ==
    \/ InGkd(Driver)
    \/ InOneStep("one step", OneStep!Driver)
    \/ InOneStep("rewards", Rewards!Driver)
    \/ InDapo("dapo", Dapo!Driver)
    \/ InDapo("patient", Patient!Driver)
    \/ InPpo("ppo", Ppo!Driver)
    \/ InPpo("bypass", BypassPpo!Driver)
    \/ InQueue("queue", Queue!Driver)
    \/ InQueue("queue rm", QueueRm!Driver)
MCBehind ==
    \/ InGkd(Background)
    \/ InOneStep("one step", OneStep!Background)
    \/ InOneStep("rewards", Rewards!Background)
    \/ InPpo("ppo", Ppo!Behind)
    \/ InPpo("bypass", BypassPpo!Behind)
    \/ InQueue("queue", Queue!Behind)
    \/ InQueue("queue rm", QueueRm!Behind)

\* In each setting the driver runs, and what runs behind it ends.
MCFairness == WF_mcVars(MCDriver) /\ WF_mcVars(MCBehind)

MCSpec == MCInit /\ [][MCNext]_mcVars /\ MCFairness

-----------------------------------------------------------------------------
\* In the other loops a step trains on what belongs together: data in its order, none
\* of it twice where the loop promises that, and what is missing was in flight at a
\* restart, failed, or was one too many; batches as stale as the loop allows and no
\* more, the scores of its own rows, whole groups, every row by one rank and its
\* replicas; a validation measures weights that are known and lists outputs with
\* their inputs; and a step's data fit the storage.
StepsAreSound ==
    /\ setting = "one step" => /\ OneStep!TypeOK /\ OneStep!OneStepBehind
                               /\ OneStep!InDataOrder /\ OneStep!EndsShort
                               /\ OneStep!RowsKeepScores /\ OneStep!MeasuresEarlier
    /\ setting = "rewards" => /\ Rewards!TypeOK /\ Rewards!OneStepBehind /\ Rewards!EndsShort
                              /\ Rewards!RowsKeepScores /\ Rewards!MeasuresEarlier
    /\ setting = "dapo" => Dapo!TypeOK /\ Dapo!PromptsUsedOnce /\ Dapo!GroupsAreWhole
    /\ setting = "patient" => /\ Patient!TypeOK /\ Patient!PromptsUsedOnce
                              /\ Patient!GroupsAreWhole
    /\ setting = "ppo" => Ppo!TypeOK /\ Ppo!PartsAreTheBatch /\ Ppo!ValidationIsAligned
    /\ setting = "bypass" => /\ BypassPpo!TypeOK /\ BypassPpo!PartsAreTheBatch
                             /\ BypassPpo!ValidationIsAligned
    /\ setting = "queue" => /\ Queue!TypeOK /\ Queue!StorageSuffices
                            /\ Queue!ValidationIsAligned
    /\ setting = "queue rm" => QueueRm!TypeOK /\ QueueRm!StorageSuffices

\* Whether the driver holds the rows or only names them, whatever order they are put
\* in, however worker groups share them out and whenever the reward comes, a step is
\* the one of StepDataflow: every field is there before it is used and was computed,
\* for each row, from that row.
StepsFollowDataflow ==
    /\ setting = "ppo" => Ppo!Dataflow!Init
    /\ setting = "bypass" => BypassPpo!Dataflow!Init
    /\ setting = "queue" => Queue!Dataflow!Init
    /\ setting = "queue rm" => QueueRm!Dataflow!Init
    /\ [][/\ setting = "ppo" => Ppo!Dataflow!Next \/ UNCHANGED Ppo!Dataflow!dataflow
          /\ setting = "bypass" =>
               BypassPpo!Dataflow!Next \/ UNCHANGED BypassPpo!Dataflow!dataflow
          /\ setting = "queue" => Queue!Dataflow!Next \/ UNCHANGED Queue!Dataflow!dataflow
          /\ setting = "queue rm" =>
               QueueRm!Dataflow!Next \/ UNCHANGED QueueRm!Dataflow!dataflow]_mcVars

\* Every loop leaves fit.
EveryFitEnds ==
    <>(/\ setting = "gkd" => Ended
       /\ setting = "one step" => OneStep!Ended
       /\ setting = "rewards" => Rewards!Ended
       /\ setting = "dapo" => Dapo!Ended
       /\ setting = "patient" => Patient!Ended
       /\ setting = "ppo" => Ppo!Ended
       /\ setting = "bypass" => BypassPpo!Ended
       /\ setting = "queue" => Queue!Ended
       /\ setting = "queue rm" => QueueRm!Ended)
=============================================================================
