------------------------------ MODULE Rollouts ------------------------------
(***************************************************************************)
(* How trajectories come about, one part chosen in the initial state.      *)
(*                                                                         *)
(* The tool agent loop "partial", interrupted by the Rollouter, with the   *)
(* sizes of the .cfg; the uninterrupted one with tools alone ("tools") or  *)
(* with tools and a user ("user"); SGLang's own loop, for one request with *)
(* tools and a user ("sglang") or for three of which two are wanted and    *)
(* one may hang ("oversampled"); and the loop of a model and its           *)
(* simulators ("environments").                                            *)
(*                                                                         *)
(* HybridEngine, whose workers change between training and rollout         *)
(* ("engine"): every kind of engine, actor and adapter.                    *)
(*                                                                         *)
(* Whatever is not chosen stands still.                                    *)
(***************************************************************************)
EXTENDS PartialToolAgentLoop, HybridEngine

VARIABLES
    setting,
    req, result, finished, counted, driver,
    succeeds, pc, sims, env_calls, env_results, vla_calls, vla_results, trajectories, batch

rolloutVars == <<req, result, finished, counted, driver>>
envVars == <<succeeds, pc, sims, env_calls, env_results, vla_calls, vla_results, trajectories, batch>>
mcVars == <<setting, partialVars, rolloutVars, envVars, engineVars>>

Tools == INSTANCE ToolAgentLoop WITH ResponseLength <- 7, MaxTurn <- 4, MaxUserTurns <- 1
User == INSTANCE ToolAgentLoop WITH MaxAssistantTurns <- 3, MaxUserTurns <- 1,
    Interactive <- TRUE

Sglang == INSTANCE SglangRollout WITH Requests <- {1}, TargetCompletion <- 1, Prompts <- {2, 3},
    PromptLength <- 2, ResponseLength <- 6, MaxModelLen <- 9, MaxAssistantTurns <- 3,
    MaxUserTurns <- 1, Drift <- 1, Answers <- {0, 1, 2}, Creations <- {0}, Tooled <- TRUE,
    Interactive <- TRUE, Slow <- {}
Oversampled == INSTANCE SglangRollout WITH Requests <- {1, 2, 3}, TargetCompletion <- 2,
    Prompts <- {2}, PromptLength <- 2, ResponseLength <- 1, MaxModelLen <- 5,
    MaxAssistantTurns <- 2, MaxUserTurns <- 0, Drift <- 0, Answers <- {1}, Creations <- {1},
    Tooled <- TRUE, Interactive <- FALSE, Slow <- {1}

\* Two workers with two stages; a success may come, go and come again.
Environments == INSTANCE EnvLoop WITH Workers <- 2, Stages <- 2, Envs <- 1, Ranks <- 2,
    max_interactions <- 3, Chunk <- 2, Successes <- {{}, {0, 5}, {3, 4}}, Faulty <- TRUE

\* Engines whose weights are destroyed at every sleep, kept on the CPU, or never leave the GPU,
\* with the whole model trained or an adapter.
MCSetups ==
    {s \in Setup : s.offload = s.free_cache /\ (~s.free_cache => s.sleep_level = 1)}

ASSUME SettingsAssumption ==
    /\ Tools!LoopAssumption /\ User!LoopAssumption
    /\ Sglang!RolloutAssumption /\ Oversampled!RolloutAssumption
    /\ Environments!EnvLoopAssumption

ControlIdle ==
    /\ running = FALSE /\ partial = FALSE /\ asking = FALSE /\ hit = FALSE
    /\ phase = "rolling" /\ paused = FALSE /\ event = FALSE
    /\ piece = <<>> /\ tokenVersions = <<>>
    /\ version = 0 /\ runVersion = 0 /\ first = 0 /\ span = NoSpan

RolloutIdle ==
    req = <<>> /\ result = <<>> /\ finished = <<>> /\ counted = 0 /\ driver = "waiting"

EngineIdle ==
    EngineInit /\ setup = [lora |-> FALSE, preloaded |-> FALSE, free_cache |-> FALSE, sleep_level |-> 1,
                           offload |-> FALSE]

EnvIdle == Environments!Init /\ \A i \in DOMAIN succeeds : succeeds[i] = {}

MCInit ==
    \/ /\ RolloutIdle /\ EnvIdle /\ EngineIdle
       /\ \/ setting = "partial" /\ PartialInit
          \/ setting = "tools" /\ ControlIdle /\ Tools!Init
          \/ setting = "user" /\ ControlIdle /\ User!Init
    \/ /\ ControlIdle /\ Tools!Init /\ EnvIdle /\ EngineIdle
       /\ \/ setting = "sglang" /\ Sglang!RolloutInit
          \/ setting = "oversampled" /\ Oversampled!RolloutInit
    \/ /\ ControlIdle /\ Tools!Init /\ RolloutIdle /\ EngineIdle
       /\ setting = "environments" /\ Environments!Init
    \/ /\ ControlIdle /\ Tools!Init /\ RolloutIdle /\ EnvIdle
       /\ setting = "engine" /\ EngineInit

PartialPart ==
    setting = "partial" /\ PartialNext /\ UNCHANGED <<setting, rolloutVars, envVars, engineVars>>
ToolsPart ==
    /\ \/ setting = "tools" /\ Tools!Next
       \/ setting = "user" /\ User!Next
    /\ UNCHANGED <<setting, control, piece, tokenVersions, rolloutVars, envVars, engineVars>>
SglangPart ==
    /\ \/ setting = "sglang" /\ Sglang!RolloutNext
       \/ setting = "oversampled" /\ Oversampled!RolloutNext
    /\ UNCHANGED <<setting, partialVars, envVars, engineVars>>
EnvPart ==
    /\ setting = "environments" /\ Environments!Next
    /\ UNCHANGED <<setting, partialVars, rolloutVars, engineVars>>
EnginePart ==
    /\ setting = "engine" /\ EngineNext
    /\ UNCHANGED <<setting, partialVars, rolloutVars, envVars>>

MCNext == PartialPart \/ ToolsPart \/ SglangPart \/ EnvPart \/ EnginePart

\* The fairness of each part, silent where it is not chosen: coroutines, servers, ranks and
\* simulators run, and the Rollouter's calls are delivered; a sample submitted meanwhile may
\* delay the synchronization again and again.
MCFairness ==
    /\ WF_partialVars(setting = "partial" /\ Run) /\ WF_partialVars(setting = "partial" /\ Loop)
    /\ WF_partialVars(setting = "partial" /\ CancelServer)
    /\ WF_partialVars(setting = "partial" /\ CancelWorker)
    /\ SF_partialVars(setting = "partial" /\ Synchronize)
    /\ WF_partialVars(setting = "partial" /\ ResumeServer)
    /\ WF_partialVars(setting = "partial" /\ ResumeWorker)
    /\ WF_agent(setting = "tools" /\ Tools!Next)
    /\ WF_rolloutVars(setting = "sglang" /\ Sglang!Driver)
    /\ WF_rolloutVars(setting = "sglang" /\ Sglang!Coroutine(1))
    /\ WF_rolloutVars(setting = "oversampled" /\ Oversampled!Driver)
    /\ WF_rolloutVars(setting = "oversampled" /\ Oversampled!Coroutine(2))
    /\ WF_rolloutVars(setting = "oversampled" /\ Oversampled!Coroutine(3))
    /\ WF_envVars(setting = "environments" /\ Environments!Driver)
    /\ \A k \in {0, 1} :
         /\ WF_envVars(setting = "environments" /\ Environments!Serve(k))
         /\ WF_envVars(setting = "environments" /\ Environments!Generate(k))
    /\ WF_engineVars(setting = "engine" /\ ModeReached)
    /\ \A r \in EngineRanks : WF_engineVars(setting = "engine" /\ RankStep(r))

MCSpec == MCInit /\ [][MCNext]_mcVars /\ MCFairness

-----------------------------------------------------------------------------
\* Of the uninterrupted loop: the lists every handler extends on its own stay in
\* step, and what comes out can be trained on, position by position, within the
\* limits on turns and length.  After a user's answer, which nothing measures,
\* there may be no room to generate.  Of SGLang's batch
\* also: its rows read as the conversations did, enough of them are genuine, and
\* no reason to stop makes finalize raise.  Of the simulators: actions fit what they
\* were computed from, rows are whole trajectories, trained on up to their success.
OutputIsSound ==
    /\ setting = "tools" => /\ Tools!TypeOK /\ Tools!ListsAligned /\ Tools!OutputTrainable
                            /\ Tools!TurnsBounded /\ Tools!RoomToGenerate
    /\ setting = "user" => User!TypeOK /\ User!ListsAligned /\ User!OutputTrainable /\ User!TurnsBounded
    /\ setting = "sglang" => /\ Sglang!RolloutTypeOK /\ Sglang!MaskMarksAssistant /\ Sglang!RowIsConversation
                             /\ Sglang!NothingElseRaises /\ Sglang!TurnsBounded
    /\ setting = "oversampled" => /\ Oversampled!RolloutTypeOK /\ Oversampled!MaskMarksAssistant
                                  /\ Oversampled!NothingElseRaises /\ Oversampled!BatchIsWhole
    /\ setting = "environments" => /\ Environments!TypeOK /\ Environments!ActionsFit
                                   /\ Environments!TrajectoriesAreWhole
                                   /\ Environments!TrainedUntilDone

\* Every trajectory ends with an output, however often it is interrupted, no run
\* holds up a synchronization, and SGLang's batch returns, or raises, though a
\* request that is not needed hangs, and so does the simulators' run.  A generation
\* that was asked for gets its servers, and gives them back.
LoopsEnd ==
    /\ setting \in {"partial", "tools"} => <>(output # NoOutput)
    /\ setting = "partial" => CancelReturns
    /\ setting = "sglang" => Sglang!BatchReturns
    /\ setting = "oversampled" => Oversampled!BatchReturns
    /\ setting = "environments" => Environments!RunReturns
    /\ setting = "engine" => ModesChange
=============================================================================
