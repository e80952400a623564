------------------------------ MODULE PpoStep ------------------------------
(***************************************************************************)
(* The training step of RayPPOTrainer.fit and its validation: the driver   *)
(* has the batch and hands it to worker groups, whose ranks run in any     *)
(* order; the reward may be computed behind; the rows are repeated, put in *)
(* another order, padded, joined with what comes back, and compared.       *)
(*                                                                         *)
(* Checkpoints are modelled in Checkpoints, the order of balanced rows in  *)
(* MicroBatches, and the update itself in ActorUpdate.                     *)
(***************************************************************************)
EXTENDS StepRows

CONSTANTS
    ActorMesh, CriticMesh, RolloutMesh,
    LaunchAsync,   \* reward_model.launch_reward_fn_async
    Bypass,        \* algorithm.rollout_correction.bypass_mode
    Balance,       \* trainer.balance_batch
    Warmup,        \* trainer.critic_warmup
    TestFreq,      \* trainer.test_freq, 0: never
    ValSources,    \* the data source of each row of the validation batch
    ValN,          \* the repetitions of each data source
    TotalSteps     \* bound: total_training_steps

PpoStepAssumption ==
    /\ {Prompts, N, TotalSteps} \subseteq Nat \ {0} /\ {Warmup, TestFreq} \subseteq Nat
    /\ {UseCritic, UseRef, UseRm, KlInReward, LaunchAsync, Bypass, Balance} \subseteq BOOLEAN
    /\ KlInReward => UseRef
    /\ \A mesh \in {ActorMesh, CriticMesh, RolloutMesh} :
         MeshIsSound(mesh) /\ Rows % dp_size(mesh) = 0
    /\ \A k \in DOMAIN ValSources : ValN[ValSources[k]] \in Nat \ {0}

VARIABLES
    phase,
    global_steps,
    batch,      \* the rows the driver has
    outputs,    \* what each rank of the running call has returned, <<>> before
    future,     \* the rows whose reward was asked for, and is it there
    source,     \* data sources of the validation batch finished
    samples     \* _validate's parallel lists

vars == <<phase, global_steps, batch, outputs, future, source, samples>>

NoFuture == [rows |-> <<>>, done |-> FALSE]
NoSamples == [inputs |-> <<>>, outputs |-> <<>>, scores |-> <<>>]

\* A batch from the dataloader, before it is repeated.
Loaded == [p \in 1..Prompts |-> [prompt |-> p]]

\* The calls of worker groups, with the mesh of each.
MeshOf(call) ==
    CASE call \in {"generate", "validate"} -> RolloutMesh
      [] call \in {"values", "update_critic", "rm_scores"} -> CriticMesh
      [] OTHER -> ActorMesh

Calls == {"generate", "validate", "rm_scores", "old_log_probs", "ref_log_prob", "values",
          "update_critic", "update_actor"}

\* What a step goes through; the configuration leaves stages out.
Stages ==
    SelectSeq(<<"generate", "balance", "rm_scores", "reward", "old_log_probs", "ref_log_prob",
                "values", "adv", "update_critic", "update_actor", "end">>,
              LAMBDA s : /\ s = "balance" => Balance
                         /\ s = "rm_scores" => UseRm
                         /\ s = "ref_log_prob" => UseRef
                         /\ s \in {"values", "update_critic"} => UseCritic)

is_last_step == global_steps >= TotalSteps

\* The stage after this one: during critic warm-up the actor is left alone.
Following ==
    LET k == CHOOSE k \in DOMAIN Stages : Stages[k] = phase
    IN  IF Stages[k + 1] = "update_actor" /\ Warmup > global_steps THEN "end" ELSE Stages[k + 1]

NoOutputs(call) ==
    IF call \in Calls THEN [rank \in Ranks(MeshOf(call)) |-> <<>>] ELSE <<>>

Enter(stage) == phase' = stage /\ outputs' = NoOutputs(stage)

Init ==
    /\ phase = "generate" /\ global_steps = 1
    /\ batch = Loaded /\ outputs = NoOutputs("generate")
    /\ future = NoFuture /\ source = 0 /\ samples = NoSamples

-----------------------------------------------------------------------------
(* Calls of worker groups.                                                 *)

Numbered(rows) == [k \in DOMAIN rows |-> ("number" :> k) @@ rows[k]]

\* The validation batch is split by data source, in the order they first occur.
Sources == FoldLeft(LAMBDA found, s : IF s \in Range(found) THEN found ELSE Append(found, s),
                    <<>>, ValSources)

\* The rows of the data source that is next, each repeated as often as it asks for.
SubBatch ==
    LET s == Sources[source + 1]
        indices == SelectSeq([k \in DOMAIN ValSources |-> k], LAMBDA k : ValSources[k] = s)
    IN  Repeat([k \in DOMAIN indices |-> [prompt |-> indices[k]]], ValN[s])

world_size == Cardinality(Ranks(RolloutMesh))

\* The batch a call is given.
Given ==
    CASE phase = "generate" -> Numbered(Repeat(batch, N))
      [] phase = "validate" -> PadToDivisor(Numbered(SubBatch), world_size)
      [] OTHER -> batch

\* A rank has worked off its part. A trained row is returned as itself: what the call
\* returns is metrics.
RankReturns(rank) ==
    /\ phase \in Calls /\ outputs[rank] = <<>>
    /\ outputs' = [outputs EXCEPT ![rank] =
         LET part == Part(MeshOf(phase), Given, rank)
         IN  CASE phase \in {"generate", "validate"} -> Generated(part)
               [] phase \in {"update_critic", "update_actor"} -> part
               [] OTHER -> Computed(phase, part)]
    /\ UNCHANGED <<phase, global_steps, batch, future, source, samples>>

Returned == phase \in Calls /\ \A rank \in DOMAIN outputs : outputs[rank] # <<>>

\* The responses join the rows of the batch, repeated as they were.
GenerateReturns ==
    /\ phase = "generate" /\ Returned
    /\ batch' = Union(Repeat(batch, N), Collect(RolloutMesh, outputs))
    /\ Enter(Following)
    /\ UNCHANGED <<global_steps, future, source, samples>>

\* What the reward model, the actor, the reference and the critic compute joins the rows.
CallReturns ==
    /\ phase \in {"rm_scores", "old_log_probs", "ref_log_prob", "values"} /\ Returned
    /\ batch' = Union(batch, Collect(MeshOf(phase), outputs))
    /\ Enter(Following)
    /\ UNCHANGED <<global_steps, future, source, samples>>

UpdateReturns ==
    /\ phase \in {"update_critic", "update_actor"} /\ Returned
    /\ Enter(Following)
    /\ UNCHANGED <<global_steps, batch, future, source, samples>>

-----------------------------------------------------------------------------
(* What the driver does itself.                                            *)

\* _balance_batch: any order may come out of it, depending on the lengths.
BalanceBatch ==
    /\ phase = "balance"
    /\ \E idx \in {f \in [1..Rows -> 1..Rows] : IsInjective(f)} : batch' = Reorder(batch, idx)
    /\ Enter(Following)
    /\ UNCHANGED <<global_steps, future, source, samples>>

\* The reward of the rows as they are now: computed at once, or asked for.  With the
\* rollout's log-probabilities for old ones, the actor is not asked for any.
AskReward ==
    /\ phase = "reward"
    /\ future' = [rows |-> batch, done |-> ~LaunchAsync]
    /\ IF Bypass
         THEN /\ batch' = Set(batch, "old_log_probs", [k \in DOMAIN batch |-> batch[k].response])
              /\ Enter(Stages[2 + CHOOSE k \in DOMAIN Stages : Stages[k] = "reward"])
         ELSE Enter(Following) /\ UNCHANGED batch
    /\ UNCHANGED <<global_steps, source, samples>>

\* compute_reward_async ends.
RewardReady ==
    /\ future # NoFuture /\ ~future.done
    /\ future' = [future EXCEPT !.done = TRUE]
    /\ UNCHANGED <<phase, global_steps, batch, outputs, source, samples>>

\* Scores, rewards with or without a KL penalty, and advantages.
ComputeAdvantage ==
    /\ phase = "adv" /\ future.done
    /\ LET scored == Set(batch, "token_level_scores", Scores(future.rows))
           rewarded == Set(scored, "token_level_rewards", Rewards(scored))
       IN  batch' = Set(rewarded, "advantages", Advantages(rewarded))
    /\ future' = NoFuture
    /\ Enter(Following)
    /\ UNCHANGED <<global_steps, source, samples>>

NextStep ==
    /\ batch' = Loaded
    /\ IF is_last_step THEN Enter("returned") /\ UNCHANGED global_steps
                       ELSE Enter("generate") /\ global_steps' = global_steps + 1

\* The step has ended, and validation may be due.
EndStep ==
    /\ phase = "end"
    /\ IF TestFreq > 0 /\ (is_last_step \/ global_steps % TestFreq = 0)
         THEN Enter("validate") /\ UNCHANGED <<batch, global_steps>>
         ELSE NextStep
    /\ source' = 0 /\ samples' = NoSamples
    /\ UNCHANGED future

\* The responses of a data source, without those of the padding, are scored and listed.
ValidateReturns ==
    /\ phase = "validate" /\ Returned
    /\ LET returned == Collect(RolloutMesh, outputs)
           unpadded == Unpad(returned, PadSize(SubBatch, world_size))
           sub_batch == Union(SubBatch, unpadded)
       IN  samples' = [inputs |-> samples.inputs \o [k \in DOMAIN SubBatch |-> SubBatch[k].prompt],
                       outputs |-> samples.outputs
                                     \o [k \in DOMAIN unpadded |-> unpadded[k].response],
                       scores |-> samples.scores
                                    \o [k \in DOMAIN sub_batch |->
                                          IF sub_batch[k].response[1] = sub_batch[k].prompt
                                          THEN sub_batch[k].response ELSE Mixed]]
    /\ source' = source + 1
    /\ IF source' < Len(Sources) THEN Enter("validate") /\ UNCHANGED <<batch, global_steps>>
                                 ELSE NextStep
    /\ UNCHANGED future

Driver == \/ GenerateReturns \/ CallReturns \/ UpdateReturns \/ BalanceBatch \/ AskReward
          \/ ComputeAdvantage \/ EndStep \/ ValidateReturns

Behind == RewardReady \/ \E rank \in DOMAIN outputs : RankReturns(rank)

Next == Driver \/ Behind

\* The driver runs, and what runs behind it ends.
Spec == Init /\ [][Next]_vars /\ WF_vars(Driver) /\ WF_vars(Behind)

-----------------------------------------------------------------------------
TypeOK ==
    /\ phase \in Calls \cup {"balance", "reward", "adv", "end", "returned"}
    /\ global_steps \in 1..TotalSteps
    /\ Len(batch) \in {Prompts, Rows}
    /\ \A k \in DOMAIN batch : DOMAIN batch[k] \subseteq Fields \cup {"prompt"}
    /\ future.done \in BOOLEAN /\ source \in 0..Len(ValSources)

\* Ranks that are replicas of each other train the same rows, and the parts together
\* are the batch: no response is trained by two, none by nobody.
PartsAreTheBatch ==
    phase \in {"update_critic", "update_actor"} /\ Returned =>
      LET mesh == MeshOf(phase)
      IN  /\ \A q, r \in Ranks(mesh) : mesh.dp_rank_mapping[q] = mesh.dp_rank_mapping[r]
                                          => outputs[q] = outputs[r]
          /\ Collect(mesh, outputs) = batch

\* The parallel lists of a validation agree: the output of a line answers its input,
\* the score is that output's, and the padding has left no line.
ValidationIsAligned ==
    /\ Len(samples.inputs) = Len(samples.outputs) /\ Len(samples.inputs) = Len(samples.scores)
    /\ \A k \in DOMAIN samples.inputs : /\ samples.outputs[k][1] = samples.inputs[k]
                                        /\ samples.scores[k] = samples.outputs[k]
    /\ source = Len(Sources) /\ TestFreq > 0 =>
         \A p \in DOMAIN ValSources :
           Cardinality({k \in DOMAIN samples.inputs : samples.inputs[k] = p}) = ValN[ValSources[p]]

\* The step is the abstract one: by the time a step ends every field was computed, from
\* rows that had what it is computed from, each value for its own row.
Dataflow == INSTANCE StepDataflow WITH
    computed <- IF phase = "generate" \/ phase \in {"validate", "returned"} THEN {}
                ELSE Complete(batch),
    steps <- IF phase \in {"validate", "returned"} THEN global_steps ELSE global_steps - 1

\* fit has returned.
Ended == phase = "returned"
=============================================================================
