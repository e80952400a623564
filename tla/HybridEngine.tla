----------------------------- MODULE HybridEngine -----------------------------
(***************************************************************************)
(* The hybrid engine of one rollout replica: its ranks hold the actor and  *)
(* the inference engine on the same GPUs and change between trainer mode   *)
(* and rollout mode (verl/workers/fsdp_workers.py, rollout_mode and        *)
(* trainer_mode) when AgentLoopManager wakes the servers up and puts them  *)
(* to sleep around every generation.                                       *)
(*                                                                         *)
(* Weights are known by the number of updates they have seen: of the whole *)
(* model, or of the adapter when LoRA is used.                             *)
(***************************************************************************)
EXTENDS Integers, FiniteSets

CONSTANTS
    EngineRanks,    \* the tensor-parallel ranks of the replica
    Setups,         \* the setups a job may be started with
    MaxUpdates,     \* bound: updates of the actor
    MaxRestarts     \* bound: restarts of the job

Setup == [
    lora : BOOLEAN,         \* is an adapter trained?
    preloaded : BOOLEAN,    \* is load_format something else than dummy?
    free_cache : BOOLEAN,   \* rollout.free_cache_engine
    sleep_level : {1, 2},   \* 1: the weights are kept on the CPU; 2: they are destroyed
    offload : BOOLEAN]      \* actor.fsdp_config.param_offload

ASSUME EngineAssumption ==
    Setups \subseteq Setup /\ MaxUpdates \in Nat /\ MaxRestarts \in Nat

VARIABLES
    setup,          \* that of this job
    engine_phase,   \* where the trainer is
    actor,          \* updates the trained weights have seen
    actor_saved,    \* and those of the last checkpoint
    mode,           \* how far a rank is in its change of mode
    params,         \* where a rank's actor weights are
    weights, kv,    \* are the engine's weights and its cache in GPU memory?
    base, adapter,  \* what the engine holds
    base_sync_done,
    rng, torch_random_states, gen_random_states,
    prefixes,       \* the weights under which the cached prefixes were computed
    restarts

engine == <<weights, kv, base, adapter, base_sync_done>>
random == <<rng, torch_random_states, gen_random_states>>
engineVars ==
    <<setup, engine_phase, actor, actor_saved, mode, params, engine, random, prefixes, restarts>>

EnginePhases == {"built", "settling", "load", "train", "updating", "waking", "rollout", "sleeping"}
ModeSteps == {"train", "on_gpu", "collected", "resumed", "updated", "rollout"}
None == -1          \* no adapter loaded
Dummy == -2         \* weights that were never set, or were destroyed

Train(r) == <<"train", r>>
Gen == <<"gen">>    \* the generator seeded with the data-parallel rank
Streams == {Gen} \cup {Train(r) : r \in EngineRanks}

\* Loaded from the model's files, or drawn at random.
AsBuilt == IF setup.preloaded THEN 0 ELSE Dummy

Everywhere(x) == [r \in EngineRanks |-> x]
AtRest == IF setup.offload THEN "cpu" ELSE "gpu"
Seeded == [r \in EngineRanks |-> Train(r)]

EngineInit ==
    /\ setup \in Setups
    /\ engine_phase = "built" /\ mode = Everywhere("train") /\ params = Everywhere(AtRest)
    /\ weights = Everywhere(TRUE) /\ kv = Everywhere(TRUE)
    /\ base = Everywhere(AsBuilt) /\ adapter = Everywhere(None)
    /\ base_sync_done = Everywhere(setup.preloaded)
    /\ rng = Seeded /\ torch_random_states = Seeded /\ gen_random_states = Everywhere(Gen)
    /\ prefixes = {}
    /\ actor = 0 /\ actor_saved = 0 /\ restarts = 0

-----------------------------------------------------------------------------
(* The trainer.                                                            *)

\* AgentLoopManager.__init__: "Initially we're in sleep mode."
InitialSleep ==
    /\ engine_phase = "built"
    /\ engine_phase' = IF setup.free_cache THEN "settling" ELSE "load"
    /\ mode' = Everywhere(IF setup.free_cache THEN "rollout" ELSE "train")
    /\ UNCHANGED <<setup, actor, actor_saved, params, engine, random, prefixes, restarts>>

LoadCheckpoint ==
    /\ engine_phase = "load"
    /\ actor' = actor_saved /\ engine_phase' = "train"
    /\ UNCHANGED <<setup, actor_saved, mode, params, engine, random, prefixes, restarts>>

\* update_actor: the parameters are on the GPU while it trains.
UpdateBegins ==
    /\ engine_phase = "train" /\ actor < MaxUpdates
    /\ params' = Everywhere("gpu") /\ engine_phase' = "updating"
    /\ UNCHANGED <<setup, actor, actor_saved, mode, engine, random, prefixes, restarts>>

UpdateEnds ==
    /\ engine_phase = "updating"
    /\ actor' = actor + 1 /\ engine_phase' = "train"
    /\ params' = Everywhere(AtRest)
    /\ UNCHANGED <<setup, actor_saved, mode, engine, random, prefixes, restarts>>

Save ==
    /\ engine_phase = "train" /\ actor_saved' = actor
    /\ UNCHANGED <<setup, engine_phase, actor, mode, params, engine, random, prefixes, restarts>>

WakeUp ==
    /\ engine_phase = "train" /\ engine_phase' = "waking"
    /\ UNCHANGED <<setup, actor, actor_saved, mode, params, engine, random, prefixes, restarts>>

Awake ==
    /\ engine_phase = "waking" /\ \A r \in EngineRanks : mode[r] = "rollout"
    /\ engine_phase' = "rollout"
    /\ UNCHANGED <<setup, actor, actor_saved, mode, params, engine, random, prefixes, restarts>>

Generate ==
    /\ engine_phase = "rollout" /\ prefixes' = prefixes \cup {actor}
    /\ UNCHANGED <<setup, engine_phase, actor, actor_saved, mode, params, engine, random, restarts>>

\* No request is left; reset_prefix_cache, then every worker's sleep.
Sleep ==
    /\ engine_phase = "rollout" /\ engine_phase' = "sleeping"
    /\ prefixes' = {}
    /\ UNCHANGED <<setup, actor, actor_saved, mode, params, engine, random, restarts>>

Asleep ==
    /\ engine_phase \in {"settling", "sleeping"} /\ \A r \in EngineRanks : mode[r] = "train"
    /\ engine_phase' = IF engine_phase = "settling" THEN "load" ELSE "train"
    /\ UNCHANGED <<setup, actor, actor_saved, mode, params, engine, random, prefixes, restarts>>

Restart ==
    /\ engine_phase # "built" /\ restarts < MaxRestarts
    /\ engine_phase' = "built" /\ mode' = Everywhere("train") /\ params' = Everywhere(AtRest)
    /\ weights' = Everywhere(TRUE) /\ kv' = Everywhere(TRUE)
    /\ base' = Everywhere(AsBuilt) /\ adapter' = Everywhere(None)
    /\ base_sync_done' = Everywhere(setup.preloaded)
    /\ rng' = Seeded /\ torch_random_states' = Seeded /\ gen_random_states' = Everywhere(Gen)
    /\ prefixes' = {}
    /\ actor' = 0 /\ restarts' = restarts + 1
    /\ UNCHANGED <<setup, actor_saved>>

-----------------------------------------------------------------------------
(* rollout_mode of one rank.                                               *)

Moves(r, from, to) == engine_phase = "waking" /\ mode[r] = from /\ mode' = [mode EXCEPT ![r] = to]

LoadParams(r) ==
    /\ Moves(r, "train", "on_gpu")
    /\ params' = [params EXCEPT ![r] = "gpu"]
    /\ UNCHANGED <<setup, engine_phase, actor, actor_saved, engine, random, prefixes, restarts>>

\* What will be sent is gathered, then the actor goes back to the CPU.
CollectParams(r) ==
    /\ Moves(r, "on_gpu", "collected")
    /\ params' = [params EXCEPT ![r] = AtRest]
    /\ UNCHANGED <<setup, engine_phase, actor, actor_saved, engine, random, prefixes, restarts>>

ResumeWeights(r) ==
    /\ Moves(r, "collected", "resumed")
    /\ weights' = [weights EXCEPT ![r] = TRUE]
    /\ UNCHANGED <<setup, engine_phase, actor, actor_saved, params, kv, base, adapter,
                   base_sync_done, random, prefixes, restarts>>

\* Mutant: what was sent once is not sent again.
BaseSentOnce(r) == IF base_sync_done[r] THEN base[r] ELSE IF setup.lora THEN 0 ELSE actor

\* The base weights, unless the engine has them: after the first time only the
\* adapter is sent, but sleep level 2 destroys what the adapter applies to.
BaseSent(r) ==
    IF ~setup.lora THEN actor
    ELSE IF setup.sleep_level = 2 \/ ~base_sync_done[r] THEN 0 ELSE base[r]

UpdateWeights(r) ==
    /\ Moves(r, "resumed", "updated")
    /\ base' = [base EXCEPT ![r] = BaseSent(r)]
    /\ adapter' = [adapter EXCEPT ![r] = IF setup.lora /\ base_sync_done[r] THEN actor ELSE @]
    /\ UNCHANGED <<setup, engine_phase, actor, actor_saved, params, weights, kv, base_sync_done,
                   random, prefixes, restarts>>

\* resume(kv_cache), then the random states are exchanged.
EnterRollout(r) ==
    /\ Moves(r, "updated", "rollout")
    /\ kv' = [kv EXCEPT ![r] = TRUE]
    /\ base_sync_done' = [base_sync_done EXCEPT ![r] = TRUE]
    /\ torch_random_states' = [torch_random_states EXCEPT ![r] = rng[r]]
    /\ rng' = [rng EXCEPT ![r] = gen_random_states[r]]
    /\ UNCHANGED <<setup, engine_phase, actor, actor_saved, params, weights, base, adapter,
                   gen_random_states, prefixes, restarts>>

-----------------------------------------------------------------------------
(* trainer_mode of one rank.                                               *)

Released(f, r, to) == [f EXCEPT ![r] = IF setup.free_cache THEN to ELSE @]

\* Mutant: the generator the rollout used goes on in training.
EnterTrainerKeepsRng(r) ==
    /\ engine_phase \in {"settling", "sleeping"} /\ mode[r] = "rollout"
    /\ mode' = [mode EXCEPT ![r] = "train"]
    /\ weights' = Released(weights, r, FALSE) /\ kv' = Released(kv, r, FALSE)
    /\ base' = Released(base, r, IF setup.sleep_level = 2 THEN Dummy ELSE base[r])
    /\ gen_random_states' = [gen_random_states EXCEPT ![r] = rng[r]]
    /\ UNCHANGED <<setup, engine_phase, actor, actor_saved, params, adapter, base_sync_done, rng,
                   torch_random_states, prefixes, restarts>>

\* release, then the random states are exchanged.
EnterTrainer(r) ==
    /\ engine_phase \in {"settling", "sleeping"} /\ mode[r] = "rollout"
    /\ mode' = [mode EXCEPT ![r] = "train"]
    /\ weights' = Released(weights, r, FALSE) /\ kv' = Released(kv, r, FALSE)
    /\ base' = Released(base, r, IF setup.sleep_level = 2 THEN Dummy ELSE base[r])
    /\ gen_random_states' = [gen_random_states EXCEPT ![r] = rng[r]]
    /\ rng' = [rng EXCEPT ![r] = torch_random_states[r]]
    /\ UNCHANGED <<setup, engine_phase, actor, actor_saved, params, adapter, base_sync_done,
                   torch_random_states, prefixes, restarts>>

RankStep(r) ==
    \/ LoadParams(r) \/ CollectParams(r) \/ ResumeWeights(r)
    \/ UpdateWeights(r) \/ EnterRollout(r) \/ EnterTrainer(r)

\* A change of mode that all ranks have made.
ModeReached == InitialSleep \/ Awake \/ Asleep

Trainer ==
    \/ LoadCheckpoint \/ UpdateBegins \/ UpdateEnds \/ Save
    \/ WakeUp \/ Generate \/ Sleep \/ ModeReached

EngineNext == Trainer \/ Restart \/ \E r \in EngineRanks : RankStep(r)

EngineFairness ==
    /\ WF_engineVars(ModeReached)
    /\ \A r \in EngineRanks : WF_engineVars(RankStep(r))

EngineSpec == EngineInit /\ [][EngineNext]_engineVars /\ EngineFairness

-----------------------------------------------------------------------------
(* Properties.                                                             *)

EngineTypeOK ==
    /\ setup \in Setups /\ engine_phase \in EnginePhases
    /\ actor \in 0..MaxUpdates /\ actor_saved \in 0..MaxUpdates /\ restarts \in 0..MaxRestarts
    /\ mode \in [EngineRanks -> ModeSteps] /\ params \in [EngineRanks -> {"cpu", "gpu"}]
    /\ weights \in [EngineRanks -> BOOLEAN] /\ kv \in [EngineRanks -> BOOLEAN]
    /\ base_sync_done \in [EngineRanks -> BOOLEAN]
    /\ base \in [EngineRanks -> {Dummy} \cup 0..MaxUpdates]
    /\ adapter \in [EngineRanks -> {None} \cup 0..MaxUpdates]
    /\ rng \in [EngineRanks -> Streams] /\ torch_random_states \in [EngineRanks -> Streams]
    /\ gen_random_states \in [EngineRanks -> Streams]
    /\ prefixes \subseteq 0..MaxUpdates

\* The weights of n updates. Only where the base was not preloaded the first rollout of a job has
\* the base alone: base_sync_done says that the adapter is not sent then.
RunsOn(r, n) ==
    /\ weights[r] /\ kv[r]
    /\ IF setup.lora
         THEN base[r] = 0 /\ (adapter[r] = n \/ (adapter[r] = None /\ ~setup.preloaded))
         ELSE base[r] = n

RolloutIsCurrent == engine_phase = "rollout" => \A r \in EngineRanks : RunsOn(r, actor)

PrefixesAreFresh == engine_phase = "rollout" => prefixes \subseteq {actor}

CacheHasRoom ==
    setup.offload /\ setup.free_cache =>
        \A r \in EngineRanks :
            kv[r] /\ engine_phase \notin {"built", "settling"} => params[r] = "cpu"

\* Every rank of a server generates with the weights the trainer has, also right after a restart
\* and after any number of sleeps; no prefix computed under older weights is reused; and the cache
\* is only given memory that the actor has left: an offloaded actor and the cache are never on the
\* GPU together.
GeneratesWithCurrent == EngineTypeOK /\ RolloutIsCurrent /\ PrefixesAreFresh /\ CacheHasRoom

TrainingDrawsItsOwn ==
    engine_phase \in {"load", "train", "updating"} => \A r \in EngineRanks : rng[r] = Train(r)

RanksDrawAlike == engine_phase = "rollout" => \A r, q \in EngineRanks : rng[r] = rng[q]

\* Rollouts do not disturb the random numbers that training draws, and the ranks of a server draw
\* the same ones: "make sure all tp ranks have the same random states".  The latter only for an
\* engine that is not put to sleep before its first rollout: that sleep stores the training
\* generator as the rollout's.
DrawsItsOwn == TrainingDrawsItsOwn /\ (~setup.free_cache => RanksDrawAlike)

\* A generation that was asked for gets its servers, and gives them back.
ModesChange ==
    /\ engine_phase = "waking" ~> engine_phase \in {"rollout", "built"}
    /\ engine_phase = "sleeping" ~> engine_phase \in {"train", "built"}
=============================================================================
