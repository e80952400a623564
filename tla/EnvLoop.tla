------------------------------- MODULE EnvLoop -------------------------------
(***************************************************************************)
(* The rollout of recipe/vla: EnvLoop.run drives simulators and a model    *)
(* against each other in pipeline stages, and the trainer flattens the     *)
(* trajectories it collates into rows to train on.                         *)
(*                                                                         *)
(* Every env worker holds a simulator per stage, each with Envs            *)
(* environments.  While the model computes the actions of one stage the    *)
(* environments of another step: the driver's calls return futures, and a  *)
(* worker or a rank serves its calls in order, one at a time.              *)
(*                                                                         *)
(* An observation is which environment it is of, by the state it was reset *)
(* to, and after how many chunks of actions; the action computed from it   *)
(* is named by it.  State ids are the positions of the prompts.            *)
(***************************************************************************)
EXTENDS Naturals, Sequences, FiniteSets, SequencesExt, FiniteSetsExt

CONSTANTS
    Workers,            \* env_wg.world_size
    Stages,             \* pipeline_stage_num
    Envs,               \* num_envs of a simulator
    Ranks,              \* rollout_wg.world_size
    max_interactions,
    Chunk,              \* num_action_chunks
    Successes,          \* the sets of moments at which an environment may report success
    Faulty              \* may a simulator raise?

Rows == Workers * Envs
NumEnvs == Rows * Stages
Moments == 0..max_interactions * Chunk - 1

EnvLoopAssumption ==
    /\ {Workers, Stages, Envs, Ranks, max_interactions, Chunk} \subseteq Nat \ {0}
    /\ Rows % Ranks = 0
    /\ Successes \subseteq SUBSET Moments
    /\ Faulty \in BOOLEAN

VARIABLES
    succeeds,       \* when each environment will, by its state id: the simulators' choice
    pc,             \* where the driver is: [at, step, stage]
    sims,           \* worker -> stage -> environment -> [state_id, taken]
    env_calls,      \* worker -> its pending calls of env_interact_step
    env_results,    \* worker -> stage -> its answer, or NoResult
    vla_calls,      \* rank -> its pending calls of generate_sequences
    vla_results,    \* rank -> stage -> its answer, or NoActions
    trajectories,   \* stage -> the actions and dones of its interactions
    batch           \* what run returns

workerSide == <<sims, env_calls, env_results>>
rankSide == <<vla_calls, vla_results>>
vars == <<succeeds, pc, workerSide, rankSide, trajectories, batch>>

NoActions == <<>>
NoResult == [status |-> "none", obs |-> <<>>, done |-> <<>>]
Failure == [status |-> "error", obs |-> <<>>, done |-> <<>>]
NoBatch == <<>>

\* DataProto.chunk: the k-th of n equal parts, from 0.
Part(rows, n, k) == LET size == Len(rows) \div n IN SubSeq(rows, k * size + 1, (k + 1) * size)

\* What the parts of all workers add up to.
Concat(n, PartOf(_)) == FlattenSeq([k \in 1..n |-> PartOf(k - 1)])

Observation(env) == [state_id |-> env.state_id, t |-> Len(env.taken)]
Observations(simulator) == [e \in 1..Envs |-> Observation(simulator[e])]

\* Does an environment report success at each moment of its next chunk?
ChunkDones(env) ==
    [j \in 1..Chunk |-> (Len(env.taken) * Chunk) + j - 1 \in succeeds[env.state_id]]

Init ==
    /\ succeeds \in [1..NumEnvs -> Successes]
    /\ pc = [at |-> "reset", step |-> 0, stage |-> 0]
    /\ sims = [w \in 0..Workers - 1 |-> [s \in 0..Stages - 1 |->
                  [e \in 1..Envs |-> [state_id |-> 0, taken |-> <<>>]]]]
    /\ env_calls = [w \in 0..Workers - 1 |-> <<>>]
    /\ env_results = [w \in 0..Workers - 1 |-> [s \in 0..Stages - 1 |-> NoResult]]
    /\ vla_calls = [r \in 0..Ranks - 1 |-> <<>>]
    /\ vla_results = [r \in 0..Ranks - 1 |-> [s \in 0..Stages - 1 |-> NoActions]]
    /\ trajectories = [s \in 0..Stages - 1 |-> <<>>]
    /\ batch = NoBatch

-----------------------------------------------------------------------------
(* The driver.                                                             *)

\* The prompts go to the workers in equal parts, and each deals its part to its stages.
Reset == [w \in 0..Workers - 1 |-> [s \in 0..Stages - 1 |->
            [e \in 1..Envs |-> [state_id |-> (w * Stages + s) * Envs + e, taken |-> <<>>]]]]

\* _restructure_obs_data: from worker by worker to stage by stage.
Staged(simulators, s) ==
    LET OfWorker(w) == Concat(Stages, LAMBDA q : Observations(simulators[w][q]))
    IN Concat(Workers, LAMBDA w : Part(OfWorker(w), Stages, s))

\* rollout_wg.generate_sequences, for a whole stage.
AskModel(calls, s, observations) ==
    [r \in DOMAIN calls |->
        Append(calls[r], [stage |-> s, rows |-> Part(observations, Ranks, r)])]

\* Everything up to the pipeline: all stages are reset and asked for their first actions.
Start ==
    /\ pc.at = "reset"
    /\ sims' = Reset
    /\ vla_calls' = FoldSeq(LAMBDA s, calls : AskModel(calls, s, Staged(Reset, s)),
                            vla_calls, [k \in 1..Stages |-> Stages - k])
    /\ trajectories' = [s \in DOMAIN trajectories |-> <<[action |-> <<>>, done |-> <<>>]>>]
    /\ pc' = [at |-> "act", step |-> 0, stage |-> 0]
    /\ UNCHANGED <<succeeds, env_calls, env_results, vla_results, batch>>

IsReady(results, s, none) == \A i \in DOMAIN results : results[i][s] # none
Taken(results, s, none) == [i \in DOMAIN results |-> [results[i] EXCEPT ![s] = none]]

\* The driver goes through the stages, first with "act" and then with "observe".
NextStage ==
    IF pc.stage < Stages - 1 THEN [pc EXCEPT !.stage = @ + 1]
    ELSE IF pc.at = "act" THEN [pc EXCEPT !.at = "observe", !.stage = 0]
    ELSE IF pc.step < max_interactions - 1
         THEN [at |-> "act", step |-> pc.step + 1, stage |-> 0]
         ELSE [pc EXCEPT !.at = "collate"]

\* The stage's actions are there: they are kept and sent to its environments.
Act ==
    LET s == pc.stage
        actions == Concat(Ranks, LAMBDA r : vla_results[r][s])
    IN /\ pc.at = "act" /\ IsReady(vla_results, s, NoActions)
       /\ trajectories' = [trajectories EXCEPT ![s][Len(trajectories[s])].action = actions]
       /\ env_calls' = [w \in DOMAIN env_calls |->
            Append(env_calls[w], [stage |-> s, actions |-> Part(actions, Workers, w)])]
       /\ vla_results' = Taken(vla_results, s, NoActions)
       /\ pc' = NextStage
       /\ UNCHANGED <<succeeds, sims, env_results, vla_calls, batch>>

AsksAgain == pc.step < max_interactions - 1

\* The stage's environments have stepped: unless it was the last time, the model is
\* asked for what to do next.
Observe ==
    LET s == pc.stage
        Of(field(_)) == Concat(Workers, LAMBDA w : field(env_results[w][s]))
        kept == [trajectories EXCEPT ![s][Len(trajectories[s])].done = Of(LAMBDA a : a.done)]
    IN /\ pc.at = "observe" /\ IsReady(env_results, s, NoResult)
       /\ \A w \in DOMAIN env_results : env_results[w][s] # Failure
       /\ IF AsksAgain
          THEN /\ trajectories' = [kept EXCEPT ![s] = Append(@, [action |-> <<>>, done |-> <<>>])]
               /\ vla_calls' = AskModel(vla_calls, s, Of(LAMBDA a : a.obs))
          ELSE trajectories' = kept /\ UNCHANGED vla_calls
       /\ env_results' = Taken(env_results, s, NoResult)
       /\ pc' = NextStage
       /\ UNCHANGED <<succeeds, sims, env_calls, vla_results, batch>>

\* A simulator's exception comes out of the future, and of run.
ObserveRaises ==
    /\ pc.at = "observe" /\ IsReady(env_results, pc.stage, NoResult)
    /\ \E w \in DOMAIN env_results : env_results[w][pc.stage] = Failure
    /\ pc' = [pc EXCEPT !.at = "raised"]
    /\ UNCHANGED <<succeeds, workerSide, rankSide, trajectories, batch>>

\* One interaction of all environments, stage after stage.
RowsOf(k) ==
    Concat(Stages, LAMBDA s :
        LET part == trajectories[s][k]
        IN [j \in 1..Rows |-> [action |-> part.action[j], done |-> part.done[j]]])

\* _collate_trajectories: the rows of the interactions, stacked, and the state ids as they came.
Collated ==
    [i \in 1..NumEnvs |->
        [env_state_id |-> i,
         action |-> [k \in 1..max_interactions |-> RowsOf(k)[i].action],
         complete |-> [k \in 1..max_interactions |-> RowsOf(k)[i].done]]]

Collate ==
    /\ pc.at = "collate"
    /\ batch' = Collated
    /\ pc' = [pc EXCEPT !.at = "returned"]
    /\ UNCHANGED <<succeeds, workerSide, rankSide, trajectories>>

Driver == Start \/ Act \/ Observe \/ ObserveRaises \/ Collate

-----------------------------------------------------------------------------
(* The workers and the ranks.                                              *)

\* Mutant: a worker steps the environments it reset first, whatever stage asks.
SimulatorFirst(call) == 0

\* self.simulator_list[stage_id]
Simulator(call) == call.stage

\* env_interact_step: the stage's simulator takes the chunk, action by action. It goes on with
\* environments that have succeeded.
StepEnvs(w) ==
    LET call == Head(env_calls[w])
        Step(env, k) == [env EXCEPT !.taken = Append(@, call.actions[k])]
        before == sims[w][Simulator(call)]
        after == [e \in 1..Envs |-> Step(before[e], e)]
    IN /\ env_calls[w] # <<>>
       /\ sims' = [sims EXCEPT ![w][Simulator(call)] = after]
       /\ env_results' = [env_results EXCEPT ![w][call.stage] =
            [status |-> "success", obs |-> Observations(after),
             done |-> [e \in 1..Envs |-> ChunkDones(before[e])]]]
       /\ env_calls' = [env_calls EXCEPT ![w] = Tail(@)]
       /\ UNCHANGED <<succeeds, pc, rankSide, trajectories, batch>>

\* The simulator's process answers with an error, which its proxy raises.
StepFails(w) ==
    /\ Faulty /\ env_calls[w] # <<>>
    /\ env_results' = [env_results EXCEPT ![w][Head(env_calls[w]).stage] = Failure]
    /\ env_calls' = [env_calls EXCEPT ![w] = Tail(@)]
    /\ UNCHANGED <<succeeds, pc, sims, rankSide, trajectories, batch>>

\* generate_sequences: an action for each observation.
Generate(r) ==
    LET call == Head(vla_calls[r]) IN
    /\ vla_calls[r] # <<>>
    /\ vla_results' = [vla_results EXCEPT ![r][call.stage] = call.rows]
    /\ vla_calls' = [vla_calls EXCEPT ![r] = Tail(@)]
    /\ UNCHANGED <<succeeds, pc, workerSide, trajectories, batch>>

Serve(w) == StepEnvs(w) \/ StepFails(w)

Next ==
    \/ Driver
    \/ \E w \in 0..Workers - 1 : Serve(w)
    \/ \E r \in 0..Ranks - 1 : Generate(r)

\* The driver runs, and every worker and rank serves its calls.
Fairness ==
    /\ WF_vars(Driver)
    /\ \A w \in 0..Workers - 1 : WF_vars(Serve(w))
    /\ \A r \in 0..Ranks - 1 : WF_vars(Generate(r))

Spec == Init /\ [][Next]_vars /\ Fairness

-----------------------------------------------------------------------------
(* What the trainer makes of the batch.                                    *)

\* All moments of a row in order: complete.view(batch_size, -1).
Moment(i, m) == batch[i].complete[(m \div Chunk) + 1][(m % Chunk) + 1]
Complete(i) == {m \in Moments : Moment(i, m)}

\* compute_response_mask: up to the first success, or everything.
ResponseMask(i) ==
    {m \in Moments : Complete(i) # {} => m <= Min(Complete(i))}

\* calculate_reward and flatten_trajectories: an interaction is a row of its own, with the
\* reward of the trajectory at the last moment that is not masked out.
Scores(i) ==
    [k \in 1..max_interactions |->
        LET first == (k - 1) * Chunk
            own == ResponseMask(i) \cap (first..first + Chunk - 1)
        IN [m \in 0..Chunk - 1 |->
              IF Complete(i) # {} /\ own # {} /\ first + m = Max(own) THEN 1 ELSE 0]]

-----------------------------------------------------------------------------
TypeOK ==
    /\ pc.at \in {"reset", "act", "observe", "collate", "returned", "raised"}
    /\ pc.step \in 0..max_interactions - 1 /\ pc.stage \in 0..Stages - 1
    /\ \A w \in 0..Workers - 1 : Len(env_calls[w]) <= Stages
    /\ \A r \in 0..Ranks - 1 : Len(vla_calls[r]) <= Stages
    /\ \A s \in 0..Stages - 1 : Len(trajectories[s]) <= max_interactions

\* However the stages overlap, an environment is given the actions that were computed from
\* what it showed, one after the other.
ActionsFit ==
    \A w \in 0..Workers - 1, s \in 0..Stages - 1, e \in 1..Envs :
        LET env == sims[w][s][e]
        IN \A k \in 1..Len(env.taken) :
              env.taken[k] = [state_id |-> env.state_id, t |-> k - 1]

\* "A batch containing the complete trajectories" (EnvLoop.run): each row is one environment's,
\* from its reset to its end with its own successes, and each environment has one.
TrajectoriesAreWhole ==
    batch # NoBatch =>
        LET env(i) == batch[i].action[1].state_id
        IN /\ {env(i) : i \in 1..NumEnvs} = 1..NumEnvs
           /\ \A i \in 1..NumEnvs :
                /\ \A k \in 1..max_interactions :
                      batch[i].action[k] = [state_id |-> env(i), t |-> k - 1]
                /\ Complete(i) = succeeds[env(i)]

\* A trajectory is trained on up to its first success and no further, although the simulator
\* goes on and may report it again or no more; each chunk of actions that is trained on has the
\* trajectory's reward once, at its last action, and no other has any.
TrainedUntilDone ==
    batch # NoBatch =>
        \A i \in 1..NumEnvs :
            LET own == succeeds[batch[i].action[1].state_id]
                end == IF own = {} THEN Max(Moments) ELSE Min(own)
            IN /\ ResponseMask(i) = 0..end
               /\ \A k \in 1..max_interactions :
                    {m \in 0..Chunk - 1 : Scores(i)[k][m] = 1} =
                        IF own = {} \/ (k - 1) * Chunk > end THEN {}
                        ELSE {Min({Chunk - 1, end - (k - 1) * Chunk})}

\* "repeat to align with repeated responses in rollout" (fit), and the state ids that
\* _collate_trajectories puts beside the rows: the rows come in the order of the prompts.
RowsAreTheirStates ==
    batch # NoBatch =>
        \A i \in 1..NumEnvs : batch[i].action[1].state_id = batch[i].env_state_id

\* The pipeline never waits for an answer that nobody was asked for.
RunReturns == <>(pc.at \in {"returned", "raised"})
=============================================================================
