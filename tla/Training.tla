------------------------------ MODULE Training ------------------------------
(***************************************************************************)
(* How the workers train and keep the model, one part chosen in the        *)
(* initial state.                                                          *)
(*                                                                         *)
(* How a batch is split for an update: the ranks' micro-batches of         *)
(* MicroBatches with the sizes of the .cfg, the same for one rank with     *)
(* more rows ("rows") and for the driver's balancing over ranks            *)
(* ("balance"); the steps that ActorUpdate takes over such splits; what    *)
(* ActivationOffload does with the layers in each of them.  "rows" and     *)
(* "balance" have a copy of the variables of their own.                    *)
(*                                                                         *)
(* "job": the checkpoints of one of the jobs of MCJobs.                    *)
(*                                                                         *)
(* Whatever is not chosen stands still.                                    *)
(***************************************************************************)
EXTENDS MicroBatches, Checkpoints

VARIABLES
    setting,
    lone_len, lone_stage, lone_num, lone_states, lone_batches, lone_passed, lone_restored,
    mask, actor_epoch, mini, order, todo, weight, finite, old, seen, version, skipped,
    host, pass, current_group, offloaded_group_count, tag_to_state, tag_to_buf,
    group_offload_mapping, released, work, memory

loneVars == <<lone_len, lone_stage, lone_num, lone_states, lone_batches, lone_passed,
              lone_restored>>
actorVars == <<mask, actor_epoch, mini, order, todo, weight, finite, old, seen, version, skipped>>
offVars == <<host, pass, current_group, offloaded_group_count, tag_to_state, tag_to_buf,
             group_offload_mapping, released, work, memory>>
mcVars == <<setting, vars, loneVars, actorVars, offVars, jobVars>>

RowsOf == INSTANCE MicroBatches WITH Ranks <- {0}, Size <- 5, Lengths <- {1, 2, 3, 5},
    EqualSize <- FALSE, Partitions <- 1, MaxTokenLen <- 5, MinNum <- 1, DividedBy <- 1,
    SameNumInDp <- TRUE,
    seq_len <- lone_len, stage <- lone_stage, num <- lone_num, states <- lone_states,
    micro_batches <- lone_batches, passed <- lone_passed, restored <- lone_restored
Balance == INSTANCE MicroBatches WITH Ranks <- {0}, Size <- 8, Lengths <- {1, 2, 5},
    EqualSize <- TRUE, Partitions <- 2, MaxTokenLen <- 5, MinNum <- 1, DividedBy <- 1,
    SameNumInDp <- TRUE,
    seq_len <- lone_len, stage <- lone_stage, num <- lone_num, states <- lone_states,
    micro_batches <- lone_batches, passed <- lone_passed, restored <- lone_restored

\* The engine's actor, over the whole mini-batch and with two shuffled ones; the
\* older actor with micro-batches by length and with fixed ones.
EngineTokens == INSTANCE ActorUpdate WITH Ranks <- {0, 1}, Size <- 2, Mini <- 2, Micro <- 1,
    Dynamic <- TRUE, Epochs <- 2, Masks <- {0, 1, 3}, Path <- "engine", Mode <- "token-mean",
    Norm <- 2, epoch <- actor_epoch
EngineRows == INSTANCE ActorUpdate WITH Ranks <- {0, 1}, Size <- 4, Mini <- 2, Micro <- 1,
    Dynamic <- TRUE, Epochs <- 1, Masks <- {0, 2}, Path <- "engine",
    Mode <- "seq-mean-token-mean", Norm <- 2, epoch <- actor_epoch
LegacyRows == INSTANCE ActorUpdate WITH Ranks <- {0, 1}, Size <- 4, Mini <- 2, Micro <- 1,
    Dynamic <- TRUE, Epochs <- 2, Masks <- {1, 2}, Path <- "legacy",
    Mode <- "seq-mean-token-mean", Norm <- 2, epoch <- actor_epoch
LegacyFixed == INSTANCE ActorUpdate WITH Ranks <- {0, 1}, Size <- 3, Mini <- 3, Micro <- 1,
    Dynamic <- FALSE, Epochs <- 2, Masks <- {1, 3}, Path <- "legacy",
    Mode <- "seq-mean-token-sum", Norm <- 2, epoch <- actor_epoch

\* All layers but the last, which is what FSDP configures; and a window of three.
Offload == INSTANCE ActivationOffload WITH NumLayers <- 5, NumOffload <- 4, Passes <- 2
Window == INSTANCE ActivationOffload WITH NumLayers <- 5, NumOffload <- 2, Passes <- 2

\* PPO with FSDP and a critic on two ranks, four steps and a save at any of them, or PPO and SFT with
\* saves that never fall between epochs; SFT that saves after each epoch; and PPO with Megatron,
\* which saves in the background or not.
PpoJob ==
    [handler |-> "ppo", backend |-> "fsdp", async_save |-> FALSE, use_critic |-> TRUE,
     world_size |-> 2, epoch_len |-> 2, epochs |-> 2, save_freq |-> 2, esi |-> TRUE,
     keep |-> 2, max_life |-> 3]
SftJob ==
    [PpoJob EXCEPT !.handler = "sft", !.use_critic = FALSE, !.world_size = 1,
                   !.epoch_len = 3, !.esi = FALSE]
SftEpochJob == [SftJob EXCEPT !.save_freq = 3, !.epochs = 3]
PlainJob == [SftJob EXCEPT !.handler = "ppo"]
MegatronJob == [PpoJob EXCEPT !.backend = "megatron", !.use_critic = FALSE]
AsyncJob == [MegatronJob EXCEPT !.async_save = TRUE, !.world_size = 1, !.save_freq = 1, !.keep = 0]
MCJobs == {PpoJob, PlainJob, SftJob, SftEpochJob, MegatronJob, AsyncJob}

ASSUME SettingsAssumption ==
    /\ RowsOf!MicroBatchesAssumption /\ Balance!MicroBatchesAssumption
    /\ EngineTokens!ActorUpdateAssumption /\ EngineRows!ActorUpdateAssumption
    /\ LegacyRows!ActorUpdateAssumption /\ LegacyFixed!ActorUpdateAssumption
    /\ Offload!OffloadAssumption /\ Window!OffloadAssumption

RanksIdle ==
    /\ seq_len = 0 /\ stage = [r \in Ranks |-> "done"] /\ num = [r \in Ranks |-> 0]
    /\ states = [r \in Ranks |-> {}] /\ micro_batches = [r \in Ranks |-> <<>>]
    /\ passed = [r \in Ranks |-> 0] /\ restored = [r \in Ranks |-> <<>>]

LoneIdle ==
    /\ lone_len = 0 /\ lone_stage = 0 /\ lone_num = 0 /\ lone_states = 0
    /\ lone_batches = 0 /\ lone_passed = 0 /\ lone_restored = 0

ActorIdle ==
    /\ mask = 0 /\ actor_epoch = 0 /\ mini = 0 /\ order = 0 /\ todo = 0 /\ weight = 0
    /\ finite = 0 /\ old = 0 /\ seen = 0 /\ version = 0 /\ skipped = 0

OffloadIdle ==
    /\ host = "idle" /\ pass = 0 /\ current_group = 0 /\ offloaded_group_count = 0
    /\ tag_to_state = 0 /\ tag_to_buf = 0 /\ group_offload_mapping = 0
    /\ released = 0 /\ work = [s \in Offload!Streams |-> [pending |-> <<>>]] /\ memory = 0

JobIdle == JobInit /\ job = PpoJob

MCInit ==
    \/ setting = "ranks" /\ Init /\ LoneIdle /\ ActorIdle /\ OffloadIdle /\ JobIdle
    \/ /\ RanksIdle /\ ActorIdle /\ OffloadIdle /\ JobIdle
       /\ \/ setting = "rows" /\ RowsOf!Init
          \/ setting = "balance" /\ Balance!Init
    \/ /\ RanksIdle /\ LoneIdle /\ OffloadIdle /\ JobIdle
       /\ \/ setting = "engine tokens" /\ EngineTokens!Init
          \/ setting = "engine rows" /\ EngineRows!Init
          \/ setting = "legacy rows" /\ LegacyRows!Init
          \/ setting = "legacy fixed" /\ LegacyFixed!Init
    \/ /\ RanksIdle /\ LoneIdle /\ ActorIdle /\ JobIdle
       /\ \/ setting = "offload" /\ Offload!OffloadInit
          \/ setting = "window" /\ Window!OffloadInit
    \/ /\ RanksIdle /\ LoneIdle /\ ActorIdle /\ OffloadIdle
       /\ setting = "job" /\ JobInit

RanksNext ==
    setting = "ranks" /\ Next /\ UNCHANGED <<setting, loneVars, actorVars, offVars, jobVars>>
LoneNext ==
    /\ \/ setting = "rows" /\ RowsOf!Next
       \/ setting = "balance" /\ Balance!Next
    /\ UNCHANGED <<setting, vars, actorVars, offVars, jobVars>>
ActorNext ==
    /\ \/ setting = "engine tokens" /\ EngineTokens!Next
       \/ setting = "engine rows" /\ EngineRows!Next
       \/ setting = "legacy rows" /\ LegacyRows!Next
       \/ setting = "legacy fixed" /\ LegacyFixed!Next
    /\ UNCHANGED <<setting, vars, loneVars, offVars, jobVars>>
OffloadNext ==
    /\ \/ setting = "offload" /\ Offload!OffloadNext
       \/ setting = "window" /\ Window!OffloadNext
    /\ UNCHANGED <<setting, vars, loneVars, actorVars, jobVars>>

CheckpointsNext ==
    setting = "job" /\ JobNext /\ UNCHANGED <<setting, vars, loneVars, actorVars, offVars>>

MCNext == RanksNext \/ LoneNext \/ ActorNext \/ OffloadNext \/ CheckpointsNext

OfRanks(A) == setting = "ranks" /\ A /\ UNCHANGED <<setting, loneVars, actorVars, offVars, jobVars>>
OfOffload(A) == setting = "offload" /\ A /\ UNCHANGED <<setting, vars, loneVars, actorVars, jobVars>>
OfWindow(A) == setting = "window" /\ A /\ UNCHANGED <<setting, vars, loneVars, actorVars, jobVars>>

\* Collectives complete once all ranks have entered them, and every rank, every
\* host and every stream runs. A job that is up goes on; crashes are bounded, not fair.
MCSpec ==
    /\ MCInit /\ [][MCNext]_mcVars
    /\ WF_mcVars(OfRanks(Together))
    /\ \A r \in Ranks : WF_mcVars(OfRanks(Rank(r)))
    /\ WF_mcVars(OfOffload(Offload!Host)) /\ WF_mcVars(OfWindow(Window!Host))
    /\ \A s \in {"compute", "d2h", "h2d"} :
         WF_mcVars(OfOffload(Offload!Execute(s))) /\ WF_mcVars(OfWindow(Window!Execute(s)))
    /\ WF_mcVars(/\ setting = "job" /\ JobRun
                  /\ UNCHANGED <<setting, vars, loneVars, actorVars, offVars>>)

-----------------------------------------------------------------------------
\* Every row is in one micro-batch and none is empty, small ones are at the ends,
\* and what is computed of a row comes back at its place.
OutputsReturn ==
    /\ setting = "ranks" => TypeOK /\ ItemsPartition /\ NoneEmpty /\ OutputsInPlace
    /\ setting = "rows" => /\ RowsOf!TypeOK /\ RowsOf!Balanced /\ RowsOf!ItemsPartition
                           /\ RowsOf!NoneEmpty /\ RowsOf!SmallAtEnds /\ RowsOf!OutputsInPlace
    /\ setting = "balance" => /\ Balance!Balanced /\ Balance!ItemsPartition
                              /\ Balance!NoneEmpty /\ Balance!SmallAtEnds

\* An update is what one rank would compute of the mini-batch at once: whatever
\* the split, every row counts once an epoch, against the policy that generated
\* it, and only a mini-batch without a token to learn from is dropped.
UpdateIsSplitInvariant ==
    /\ setting = "engine tokens" => /\ EngineTokens!TypeOK /\ EngineTokens!SplitInvariant
                                    /\ EngineTokens!SkipsOnlyEmpty
    /\ setting = "engine rows" => /\ EngineRows!TypeOK /\ EngineRows!SplitInvariant
                                  /\ EngineRows!SkipsOnlyEmpty /\ EngineRows!EpochsCover
    /\ setting = "legacy rows" => /\ LegacyRows!TypeOK /\ LegacyRows!SplitInvariant
                                  /\ LegacyRows!EpochsCover /\ LegacyRows!OldPolicyIsFixed
    /\ setting = "legacy fixed" => /\ LegacyFixed!TypeOK /\ LegacyFixed!SplitInvariant
                                   /\ LegacyFixed!EpochsCover /\ LegacyFixed!OldPolicyIsFixed

\* The backward pass of a layer reads what its forward pass saved, whatever was
\* copied to the host and back meanwhile, and no more stays on the device than said.
BackwardReadsItsOwn ==
    /\ setting = "offload" => /\ Offload!OffloadTypeOK /\ Offload!ReadsWhatWasSaved
                              /\ Offload!HandlerIsReset /\ Offload!TwoGroupsOnDevice
    /\ setting = "window" => /\ Window!OffloadTypeOK /\ Window!ReadsWhatWasSaved
                             /\ Window!HandlerIsReset

\* No rank waits for a collective that another has passed or will not enter, and
\* no stream for one that waits for it.
UpdateEnds ==
    /\ setting = "ranks" => EveryRankReturns
    /\ setting = "offload" => Offload!PassesEnd
    /\ setting = "window" => Window!PassesEnd

\* A restart goes on from the last save that returned, or from one that was all but finished, and
\* a job comes to its end in spite of crashes with every step trained, at most one epoch left out
\* where a checkpoint falls between epochs; only PPO's tracker may stop it for good.
RestartsGoOn ==
    /\ ResumesAtLastSave
    /\ setting = "job" /\ ModelsKept /\ DataKept => TrainsToTheEnd
=============================================================================
