--------------------------- MODULE DynamicSampling ---------------------------
(***************************************************************************)
(* The trainer of recipe/dapo: prompts whose responses all earn the same   *)
(* teach nothing and are filtered out, and generation goes on until enough *)
(* of the others have been collected for a training step.                  *)
(*                                                                         *)
(* A prompt is its place in the data, a row a pair <<prompt, response>>.   *)
(*                                                                         *)
(* Bounds: one pass over the data (total_epochs = 1) and MaxRestarts       *)
(* restarts from the latest checkpoint.                                    *)
(***************************************************************************)
EXTENDS Naturals, Sequences, FiniteSets, SequencesExt

CONSTANTS
    NumBatches,     \* len(train_dataloader)
    GenSize,        \* config.data.gen_batch_size: prompts of a generation batch
    TrainSize,      \* config.data.train_batch_size: prompts of a training step
    N,              \* config.actor_rollout_ref.rollout.n
    Filter,         \* config.algorithm.filter_groups.enable
    MaxGenBatches,  \* config.algorithm.filter_groups.max_num_gen_batches, 0: no limit
    TotalSteps,     \* total_training_steps
    SaveFreq,       \* config.trainer.save_freq
    MaxRestarts

DynamicSamplingAssumption ==
    /\ {NumBatches, GenSize, TrainSize, N, TotalSteps, SaveFreq} \subseteq Nat \ {0}
    /\ {MaxGenBatches, MaxRestarts} \subseteq Nat
    /\ Filter \in BOOLEAN
    /\ ~Filter => GenSize = TrainSize

VARIABLES
    phase,
    global_steps,
    position,               \* of the dataloader
    batch,                  \* rows collected for the step
    num_prompt_in_batch, num_gen_batches,
    informative,            \* prompts that passed the filter, in the history of the weights
    log,                    \* the rows each training step used, in that history
    checkpoint,
    restarts

collecting == <<batch, num_prompt_in_batch, num_gen_batches>>
vars == <<phase, global_steps, position, collecting, informative, log, checkpoint, restarts>>

Prompts == 1..NumBatches * GenSize

Init ==
    /\ phase = "collect" /\ global_steps = 1 /\ position = 0
    /\ batch = <<>> /\ num_prompt_in_batch = 0 /\ num_gen_batches = 0
    /\ informative = {} /\ log = <<>>
    /\ checkpoint = [step |-> 0, position |-> 0, informative |-> {}, log |-> <<>>]
    /\ restarts = 0

\* batch.repeat(n, interleave=True): the responses of a prompt are neighbours.
Generated(number) ==
    [k \in 1..GenSize * N |-> <<(number - 1) * GenSize + ((k - 1) \div N) + 1, ((k - 1) % N) + 1>>]

PromptsOf(rows) == {rows[k][1] : k \in DOMAIN rows}

\* One generation batch: which of its prompts have responses of different reward
\* is up to the policy.
Collect ==
    /\ phase = "collect" /\ position < NumBatches
    /\ position' = position + 1
    /\ num_gen_batches' = num_gen_batches + 1
    /\ \E kept \in SUBSET PromptsOf(Generated(position')) :
         /\ ~Filter => kept = PromptsOf(Generated(position'))
         /\ informative' = informative \cup kept
         /\ num_prompt_in_batch' = num_prompt_in_batch + Cardinality(kept)
         /\ LET all == batch \o SelectSeq(Generated(position'), LAMBDA row : row[1] \in kept)
            IN  IF num_prompt_in_batch' < TrainSize
                THEN /\ batch' = all
                     /\ phase' = IF MaxGenBatches = 0 \/ num_gen_batches' < MaxGenBatches
                                 THEN "collect" ELSE "raised"
                ELSE /\ batch' = SubSeq(all, 1, TrainSize * N)
                     /\ phase' = "train"
    /\ UNCHANGED <<global_steps, log, checkpoint, restarts>>

is_last_step == global_steps >= TotalSteps

Saved(history) ==
    [step |-> global_steps, position |-> position, informative |-> informative, log |-> history]

\* The updates, the checkpoint, and a fresh start for the next step.
TrainStep ==
    /\ phase = "train"
    /\ log' = Append(log, batch)
    /\ checkpoint' = IF is_last_step \/ global_steps % SaveFreq = 0 THEN Saved(log') ELSE checkpoint
    /\ batch' = <<>> /\ num_prompt_in_batch' = 0 /\ num_gen_batches' = 0
    /\ IF is_last_step THEN phase' = "returned" /\ UNCHANGED global_steps
                       ELSE phase' = "collect" /\ global_steps' = global_steps + 1
    /\ UNCHANGED <<position, informative, restarts>>

\* The data ends before the last step: fit saves under global_steps unless that
\* folder exists, and it never does, for global_steps is one past the last step.
EndOfData ==
    /\ phase = "collect" /\ position = NumBatches
    /\ checkpoint' = Saved(log)
    /\ phase' = "ended"
    /\ UNCHANGED <<global_steps, position, collecting, informative, log, restarts>>

\* The job is started again; a checkpoint of an exhausted dataloader is the
\* library's affair and left out.
Restart ==
    /\ phase # "returned" /\ restarts < MaxRestarts
    /\ checkpoint.position < NumBatches
    /\ restarts' = restarts + 1
    /\ phase' = "collect" /\ global_steps' = checkpoint.step + 1
    /\ position' = checkpoint.position
    /\ batch' = <<>> /\ num_prompt_in_batch' = 0 /\ num_gen_batches' = 0
    /\ informative' = checkpoint.informative /\ log' = checkpoint.log
    /\ UNCHANGED checkpoint

Driver == Collect \/ TrainStep \/ EndOfData

Next == Driver \/ Restart

\* The driver thread runs.
Fairness == WF_vars(Driver)

Spec == Init /\ [][Next]_vars /\ Fairness

-----------------------------------------------------------------------------
Row == Prompts \X (1..N)

TypeOK ==
    /\ phase \in {"collect", "train", "returned", "ended", "raised"}
    /\ global_steps \in 1..TotalSteps + 1
    /\ position \in 0..NumBatches
    /\ batch \in Seq(Row)
    /\ num_prompt_in_batch \in Nat /\ num_gen_batches \in 0..NumBatches
    /\ informative \subseteq Prompts
    /\ log \in Seq(Seq(Row))
    /\ checkpoint \in [step : 0..TotalSteps, position : 0..NumBatches,
                       informative : SUBSET Prompts, log : Seq(Seq(Row))]
    /\ restarts \in 0..MaxRestarts

\* A training step compares all responses of as many prompts as were asked for,
\* each of which passed the filter: the cut to size splits no group.
GroupsAreWhole ==
    \A k \in DOMAIN log :
      /\ PromptsOf(log[k]) \subseteq informative
      /\ Cardinality(PromptsOf(log[k])) = TrainSize
      /\ ToSet(log[k]) = PromptsOf(log[k]) \X (1..N)
      /\ Len(log[k]) = TrainSize * N

\* Restarts included, the prompts are trained in the order of the data and none
\* twice, and what passed the filter is trained, still collected, or among the
\* few that the last generation batch of a step had too many.
PromptsUsedOnce ==
    LET trained == UNION {PromptsOf(log[k]) : k \in DOMAIN log}
    IN  /\ \A j, k \in DOMAIN log : j < k =>
             \A p \in PromptsOf(log[j]), q \in PromptsOf(log[k]) : p < q
        /\ phase = "collect" =>
             Cardinality(informative \ (trained \cup PromptsOf(batch))) <= (GenSize - 1) * Len(log)

\* "check if last step checkpint exists ... save last step checkpoint": when the
\* data ends, what is saved is the last step, under its number.
LastStepIsSaved == phase = "ended" => checkpoint.step = Len(checkpoint.log)

\* The loop has left fit: at its last step, at the end of the data or by its limit.
Ended == phase \in {"returned", "ended", "raised"}
=============================================================================
