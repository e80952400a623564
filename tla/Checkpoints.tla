----------------------------- MODULE Checkpoints -----------------------------
(***************************************************************************)
(* Saving, rotating and resuming checkpoints: the training loop of         *)
(* RayPPOTrainer with _save_checkpoint and _load_checkpoint, or of         *)
(* SFTTrainer with CheckpointHandler; the FSDP or the Megatron checkpoint  *)
(* manager of each model; and the files they leave when the job dies.      *)
(*                                                                         *)
(* A file is the life (the start of the job) that wrote it, so that shards *)
(* of two lives in one folder can be told apart. Ranks write their shards  *)
(* in any order between the barriers of save_checkpoint.                   *)
(***************************************************************************)
EXTENDS Integers, Sequences, FiniteSets

CONSTANT Jobs     \* the jobs that may be started, in what concerns their checkpoints

Job == [
    handler : {"ppo", "sft"}, backend : {"fsdp", "megatron"},
    async_save : BOOLEAN,   \* Megatron's checkpoint.async_save of the actor
    use_critic : BOOLEAN,   \* does PPO save a critic too?
    world_size : Nat \ {0}, \* ranks 1 to world_size; the code's rank 0 is 1
    epoch_len : Nat \ {0},  \* len(train_dataloader)
    epochs : Nat \ {0},     \* total_epochs
    save_freq : Nat \ {0},
    esi : BOOLEAN,          \* may should_save_ckpt_esi ask for a save at any step?
    keep : Nat,             \* max_ckpt_to_keep, 0 for None
    max_life : Nat \ {0}]   \* bound: the job starts this many times

\* Only PPO has a critic, and saves in the background are modelled of an actor alone.
ASSUME JobsAssumption ==
    /\ Jobs \subseteq Job
    /\ \A j \in Jobs :
         /\ j.use_critic => j.handler = "ppo"
         /\ j.async_save => j.backend = "megatron" /\ j.handler = "ppo" /\ ~j.use_critic

VARIABLES job,      \* this one
          at,       \* where the job is
          model,    \* index of the model being saved
          life,     \* how often the job has been started
          g,        \* training steps done
          epoch,    \* the epoch loop's variable
          pos,      \* batches of this epoch each feeder's dataloader has yielded
          saved,    \* previous_saved_paths of each model's manager, rank 0's
          pending,  \* asynchronous saves not finalized yet: step and whether it is written
          shard,    \* model and optimizer files on disk: the life that wrote each
          data,     \* dataloader files on disk: the position stored
          tracker,  \* latest_checkpointed_iteration.txt
          lastSave  \* the last step whose save returned, in any life

Handler == job.handler
Backend == job.backend
AsyncSave == job.async_save
EpochLen == job.epoch_len
Epochs == job.epochs
Keep == job.keep

WorldRank == 1..job.world_size
TotalSteps == EpochLen * Epochs
Step == 1..TotalSteps
Models == IF job.use_critic THEN <<"actor", "critic">> ELSE <<"actor">>
Model == {Models[i] : i \in DOMAIN Models}

\* Who stores a dataloader state: PPO's driver, or every data-parallel rank of SFT.
Feeder == IF Handler = "ppo" THEN {1} ELSE WorldRank

NoFile == 0
Torn == -1
NoData == -2

disk == <<shard, data, tracker>>
jobVars == <<job, at, model, life, g, epoch, pos, saved, pending, shard, data, tracker, lastSave>>

NoShards == [r \in WorldRank |-> NoFile]
HasFiles(m, s) == shard[m][s] # NoShards
Whole(m, s) == \E l \in 1..job.max_life : \A r \in WorldRank : shard[m][s][r] = l
FolderExists(s) == (\E m \in Model : HasFiles(m, s)) \/ \E f \in Feeder : data[s][f] # NoData

JobTypeOK ==
    /\ job \in Jobs
    /\ at \in {"load", "loop", "rotate", "shards", "early", "earlyOpen", "data", "open",
               "stepEnd", "failed", "ended"}
    /\ model \in DOMAIN Models /\ life \in 1..job.max_life
    /\ g \in 0..TotalSteps /\ epoch \in 0..Epochs /\ pos \in [Feeder -> 0..EpochLen]
    /\ saved \in [Model -> Seq(Step)]
    /\ pending \in Seq([step : Step, written : BOOLEAN])
    /\ shard \in [Model -> [Step -> [WorldRank -> 0..job.max_life]]]
    /\ data \in [Step -> [Feeder -> {NoData, Torn} \cup 0..EpochLen]]
    /\ tracker \in {NoFile, Torn} \cup Step
    /\ lastSave \in 0..TotalSteps
    /\ Keep > 0 => \A m \in Model : Len(saved[m]) <= Keep

JobInit ==
    /\ job \in Jobs
    /\ at = "load" /\ model = 1 /\ life = 1 /\ g = 0 /\ epoch = 0
    /\ pos = [f \in Feeder |-> 0]
    /\ saved = [m \in Model |-> <<>>] /\ pending = <<>>
    /\ shard = [m \in Model |-> [s \in Step |-> NoShards]]
    /\ data = [s \in Step |-> [f \in Feeder |-> NoData]]
    /\ tracker = NoFile /\ lastSave = 0

-----------------------------------------------------------------------------
(* Resuming.                                                               *)

\* find_latest_ckpt_path: no tracker or no folder means training from scratch.
Scratch ==
    /\ tracker = NoFile \/ (tracker \in Step /\ ~FolderExists(tracker))
    /\ at' = "loop"
    /\ g' = 0 /\ epoch' = 0 /\ pos' = [f \in Feeder |-> 0]

\* Load every model, then the dataloader, which starts afresh when its file is missing.
Resume ==
    /\ tracker \in Step /\ FolderExists(tracker)
    /\ \A m \in Model, r \in WorldRank : shard[m][tracker][r] # NoFile
    /\ \A f \in Feeder : data[tracker][f] # Torn
    /\ g' = tracker /\ epoch' = tracker \div EpochLen
    /\ pos' = [f \in Feeder |-> IF data[tracker][f] = NoData THEN 0 ELSE data[tracker][f]]
    /\ at' = IF epoch' < Epochs THEN "loop" ELSE "ended"

\* int('') on an empty tracker, or torch.load of a missing or damaged file, ends the job.
LoadFails ==
    /\ \/ tracker = Torn
       \/ /\ tracker \in Step /\ FolderExists(tracker)
          /\ \/ \E m \in Model, r \in WorldRank : shard[m][tracker][r] = NoFile
             \/ \E f \in Feeder : data[tracker][f] = Torn
    /\ at' = "failed"
    /\ UNCHANGED <<g, epoch, pos>>

LoadCheckpoint ==
    /\ at = "load"
    /\ Scratch \/ Resume \/ LoadFails
    /\ UNCHANGED <<disk, model, life, saved, pending, lastSave>>

-----------------------------------------------------------------------------
(* The training loop.                                                      *)

\* Asynchronous saves are finalized in order, up to the first that is not written.
Finalized(p) == {i \in DOMAIN p : \A k \in 1..i : p[k].written}

SaveDue(n) == n >= TotalSteps \/ n % job.save_freq = 0

\* One batch: finalize asynchronous saves that are written, train, decide about saving.
TrainStep ==
    /\ at = "loop" /\ \A f \in Feeder : pos[f] < EpochLen
    /\ LET n == Cardinality(Finalized(pending)) IN
         /\ tracker' = IF n > 0 THEN pending[n].step ELSE tracker
         /\ pending' = SubSeq(pending, n + 1, Len(pending))
    /\ g' = g + 1
    /\ pos' = [f \in Feeder |-> pos[f] + 1]
    /\ at' \in {IF SaveDue(g + 1) THEN "rotate" ELSE "stepEnd"}
                \cup (IF job.esi THEN {"rotate"} ELSE {})
    /\ model' = 1
    /\ UNCHANGED <<life, epoch, saved, shard, data, lastSave>>

\* The dataloader is exhausted: the next epoch iterates over it anew.
NextEpoch ==
    /\ at = "loop" /\ \A f \in Feeder : pos[f] = EpochLen
    /\ epoch' = epoch + 1
    /\ pos' = [f \in Feeder |-> 0]
    /\ at' = IF epoch' < Epochs THEN "loop" ELSE "ended"
    /\ UNCHANGED <<disk, model, life, g, saved, pending, lastSave>>

\* After the last step the loop waits for the asynchronous saves and returns.
StepEnd ==
    /\ at = "stepEnd"
    /\ IF g < TotalSteps THEN at' = "loop" /\ UNCHANGED <<tracker, pending>>
       ELSE /\ \A i \in DOMAIN pending : pending[i].written
            /\ at' = "ended" /\ pending' = <<>>
            /\ tracker' = IF pending = <<>> THEN tracker ELSE pending[Len(pending)].step
    /\ UNCHANGED <<model, life, g, epoch, pos, saved, shard, data, lastSave>>

-----------------------------------------------------------------------------
(* save_checkpoint of the checkpoint managers.                             *)

Current == Models[model]

\* Mutant: rotation removes everything.
DoomedTooMany(m) == IF Keep > 0 /\ Len(saved[m]) >= Keep THEN Len(saved[m]) ELSE 0

\* The paths rotation removes: all but the last Keep - 1.
Doomed(m) ==
    IF Keep > 0 /\ Len(saved[m]) >= Keep THEN Len(saved[m]) - Keep + 1 ELSE 0

\* PPO's paths are the model's subfolders; SFT's are whole step folders, dataloader included.
Rotate ==
    LET n == Doomed(Current)
        gone == {saved[Current][i] : i \in 1..n} IN
    /\ at = "rotate"
    /\ shard' = [shard EXCEPT ![Current] = [s \in Step |-> IF s \in gone THEN NoShards ELSE @[s]]]
    /\ data' = [s \in Step |-> IF Handler = "sft" /\ s \in gone
                               THEN [f \in Feeder |-> NoData] ELSE data[s]]
    /\ saved' = [saved EXCEPT ![Current] = SubSeq(@, n + 1, Len(@))]
    /\ at' = "shards"
    /\ UNCHANGED <<model, life, g, epoch, pos, pending, tracker, lastSave>>

\* A rank writes its shard before the barrier.
WriteShard(r) ==
    /\ at = "shards" /\ ~AsyncSave /\ shard[Current][g][r] # life
    /\ shard' = [shard EXCEPT ![Current][g][r] = life]
    /\ UNCHANGED <<at, model, life, g, epoch, pos, saved, pending, data, tracker, lastSave>>

\* With async_save the files of a scheduled save are written in the background.
WriteBehind ==
    /\ \E i \in DOMAIN pending :
         /\ ~pending[i].written
         /\ pending' = [pending EXCEPT ![i].written = TRUE]
         /\ shard' = [shard EXCEPT !["actor"][pending[i].step] = [r \in WorldRank |-> life]]
    /\ UNCHANGED <<at, model, life, g, epoch, pos, saved, data, tracker, lastSave>>

AfterModel == IF model < Len(Models) THEN "rotate" ELSE "data"

\* After the barrier the path is remembered; Megatron's manager then writes the tracker
\* (finalize_save_fn), of SFT in another folder: it takes two levels off the path.
ManagerReturns ==
    /\ at = "shards"
    /\ IF AsyncSave THEN pending' = Append(pending, [step |-> g, written |-> FALSE])
                    ELSE /\ \A r \in WorldRank : shard[Current][g][r] = life
                         /\ UNCHANGED pending
    /\ saved' = [saved EXCEPT ![Current] = Append(@, g)]
    /\ IF Backend = "megatron" /\ Handler = "ppo" /\ ~AsyncSave
         THEN at' = "early" /\ UNCHANGED model
         ELSE at' = AfterModel /\ model' = IF AfterModel = "rotate" THEN model + 1 ELSE model
    /\ UNCHANGED <<disk, life, g, epoch, pos, lastSave>>

EarlyOpen ==
    /\ at = "early"
    /\ at' = "earlyOpen" /\ tracker' = Torn
    /\ UNCHANGED <<model, life, g, epoch, pos, saved, pending, shard, data, lastSave>>

EarlyWrite ==
    /\ at = "earlyOpen"
    /\ tracker' = g
    /\ at' = AfterModel /\ model' = IF AfterModel = "rotate" THEN model + 1 ELSE model
    /\ UNCHANGED <<life, g, epoch, pos, saved, pending, shard, data, lastSave>>

-----------------------------------------------------------------------------
(* The rest of _save_checkpoint and of CheckpointHandler.save_checkpoint.  *)

WriteData(f) ==
    /\ at \in {"data", "open"} /\ data[g][f] # pos[f]
    /\ data' = [data EXCEPT ![g][f] = pos[f]]
    /\ UNCHANGED <<at, model, life, g, epoch, pos, saved, pending, shard, tracker, lastSave>>

\* Mutant: nobody writes the tracker.
WriteTrackerSkips ==
    /\ at = "data" /\ data[g][1] = pos[1]
    /\ at' = "open"
    /\ UNCHANGED <<disk, model, life, g, epoch, pos, saved, pending, lastSave>>

\* Rank 0 goes on to the tracker once its own dataloader state is stored: PPO truncates the
\* file and then writes it, SFT renames a finished one, with async_save nobody writes it here.
WriteTracker ==
    /\ at = "data" /\ data[g][1] = pos[1]
    /\ IF AsyncSave THEN at' = "open" /\ UNCHANGED tracker
       ELSE IF Handler = "ppo" /\ tracker # Torn
         THEN tracker' = Torn /\ UNCHANGED at ELSE tracker' = g /\ at' = "open"
    /\ UNCHANGED <<model, life, g, epoch, pos, saved, pending, shard, data, lastSave>>

\* The last barrier: the save returns.
SaveReturns ==
    /\ at = "open" /\ \A f \in Feeder : data[g][f] = pos[f]
    /\ at' = "stepEnd"
    /\ lastSave' = IF AsyncSave THEN lastSave ELSE g
    /\ UNCHANGED <<disk, model, life, g, epoch, pos, saved, pending>>

-----------------------------------------------------------------------------
\* The job dies and is started again; a file being overwritten may be left damaged.
Crash ==
    /\ at \notin {"load", "failed", "ended"} /\ life < job.max_life
    /\ life' = life + 1
    /\ at' = "load" /\ model' = 1 /\ saved' = [m \in Model |-> <<>>] /\ pending' = <<>>
    /\ shard' \in IF at = "shards" /\ ~AsyncSave
                  THEN {[shard EXCEPT ![Current][g] =
                            [r \in WorldRank |->
                                IF r \in lost /\ @[r] # life THEN NoFile ELSE @[r]]]
                          : lost \in SUBSET WorldRank}
                  ELSE {shard}
    /\ data' \in IF at \in {"data", "open"}
                 THEN {[data EXCEPT ![g] = [f \in Feeder |-> IF f \in lost /\ @[f] # pos[f]
                                                             THEN Torn ELSE @[f]]]
                         : lost \in SUBSET Feeder}
                 ELSE {data}
    /\ UNCHANGED <<job, g, epoch, pos, tracker, lastSave>>

Save == \/ Rotate \/ \E r \in WorldRank : WriteShard(r)
        \/ WriteBehind \/ ManagerReturns \/ EarlyOpen \/ EarlyWrite
        \/ (\E f \in Feeder : WriteData(f)) \/ WriteTracker \/ SaveReturns

JobRun ==
    /\ LoadCheckpoint \/ TrainStep \/ NextEpoch \/ StepEnd \/ Save
    /\ UNCHANGED job

JobNext == JobRun \/ Crash

\* A job that is up goes on; crashes are bounded, not fair.
JobSpec == JobInit /\ [][JobNext]_jobVars /\ WF_jobVars(JobRun)

-----------------------------------------------------------------------------
\* What must be so for the models of the step that is tracked to stay: a folder is kept until its
\* successor is tracked, nothing is rotated while saves are under way in the background, and a
\* manager that moves the tracker itself (Megatron's) has no other model to come.
ModelsKept ==
    /\ Keep # 1 /\ (AsyncSave => Keep = 0)
    /\ Backend = "megatron" => ~job.use_critic

\* And for its dataloader states to be stored before it is tracked: SFT's ranks other than 0
\* store theirs after rank 0 went on to the tracker, and Megatron's manager comes first.
DataKept ==
    /\ Handler = "sft" => job.world_size = 1
    /\ Backend = "megatron" /\ Handler = "ppo" => AsyncSave

\* Whatever step the tracker names, every model's shards are there, written in one life:
\* neither rotation nor a save cut short touches them.
ModelsTracked == tracker \in Step => \A m \in Model : Whole(m, tracker)

DataTracked == tracker \in Step => \A f \in Feeder : data[tracker][f] \in 0..EpochLen

\* A life of the job leaves at most Keep folders of a model, half written ones included.
FoldersBounded ==
    Keep > 0 => \A m \in Model : Cardinality({s \in Step : HasFiles(m, s)}) <= Keep * life

\* A crash, at any point of a save, leaves files the next start can load.
AlwaysLoads == at # "failed"

\* checkpoint_manager.py: the tracker records the latest checkpoint to restart from. The step
\* it names has its models and the dataloader's state, so it can be loaded; but PPO and Megatron
\* truncate the tracker before they write it, and a crash in between leaves none that can be
\* read. And folders do not pile up within a life.
TrackedCanBeLoaded ==
    /\ JobTypeOK
    /\ ModelsKept => ModelsTracked
    /\ ModelsKept /\ DataKept => DataTracked
    /\ ModelsKept /\ DataKept /\ (Handler = "sft" \/ AsyncSave) => AlwaysLoads
    /\ ~AsyncSave => FoldersBounded

\* A job that starts again goes on from the last save that returned, or from one that was
\* finished but for its return; nothing that was saved is trained again.
ResumesAtLastSave ==
    [][ModelsKept /\ at = "load" /\ at' \in {"loop", "ended"} => g' >= lastSave]_jobVars

\* May a save other than the last fall on the end of an epoch?
SavesAtEpochEnd == \E e \in 1..Epochs - 1 : job.esi \/ SaveDue(e * EpochLen)

\* A job that resumes there takes what is left of the dataloader, which is nothing, for the epoch
\* that fit begins with (global_step // steps_per_epoch): that epoch is not trained. The next
\* resume counts the epochs anew, so it is never more than one.
EnoughTrained ==
    \/ g = TotalSteps
    \/ g = TotalSteps - EpochLen /\ SavesAtEpochEnd /\ life > 1

\* In spite of crashes the job comes to its end with every step trained, or with all but one
\* epoch's where a checkpoint may fall between epochs; or its files cannot be loaded.
TrainsToTheEnd == <>[](at = "failed" \/ (at = "ended" /\ EnoughTrained))
==============================================================================
