--------------------------- MODULE OneStepOffProofs ---------------------------
(***************************************************************************)
(* For any length of the data, number of epochs, frequencies, restarts and *)
(* errors: how far training and validation lag behind, that scores stay    *)
(* with their rows, and which batches are trained in which order.          *)
(***************************************************************************)
EXTENDS OneStepOff, SequenceTheorems, TLAPS

\* The batches this process has read, as the iterator counts them.
Read == (epoch - 1) * NumBatches + position

\* A batch is being trained, and the next one is generated meanwhile.
Training == phase \in {"balance", "reward", "update"}
Held == Training \/ phase = "finish"
Ahead == batch_data_future # None /\ batch_data_future # batch
Waiting == phase = "loop" /\ batch_data_future # None

Lag(k) == actor_version - futures[k].version

\* Which futures the driver holds: never more than the last two.
PlaceInv ==
    /\ batch_data_future \in {None, Len(futures)}
    /\ phase = "next" => batch = Len(futures) /\ batch_data_future = batch /\ batch # None
    /\ Held => /\ batch # None
               /\ batch = IF Ahead THEN Len(futures) - 1 ELSE Len(futures)
               /\ batch_data_future = batch => global_steps = total_training_steps

\* Where the counters stand relative to each other.
StepInv ==
    /\ phase # "returned" => global_steps <= total_training_steps
                             /\ checkpoint.step < total_training_steps
    /\ IF phase = "begin" THEN global_steps < total_training_steps ELSE global_steps > 0
    /\ phase = "begin" /\ restarts = 0 => global_steps = 0
    /\ actor_version <= IF phase \in {"begin", "finish"} THEN global_steps ELSE global_steps - 1
    /\ rollout_version <= actor_version
    /\ checkpoint.version <= checkpoint.step

\* How old the weights of a generation are when its batch is trained.
VersionInv ==
    /\ OneStepBehind
    /\ \A k \in DOMAIN checkpoint.log :
         checkpoint.log[k].trained_at - checkpoint.log[k].generated_by \in {0, 1}
    /\ Waiting => Lag(batch_data_future) \in {0, 1}
    /\ phase = "next" \/ Training => Lag(batch) \in {0, 1}
    /\ Training /\ Ahead => Lag(batch_data_future) = 0
    /\ phase = "finish" /\ Ahead => Lag(batch_data_future) \in {0, 1}

\* How far the rollout workers lag behind.
MeasureInv ==
    /\ MeasuresEarlier
    /\ Waiting \/ phase = "next" => actor_version - rollout_version <= 1
    /\ Training => actor_version - rollout_version <= IF Ahead THEN 0 ELSE 1
    /\ phase = "finish" => actor_version - rollout_version <= IF Ahead THEN 1 ELSE 2

\* Without balancing, rows never change places.
RowsInv ==
    /\ BalanceBatch \/ rows = InOrder
    /\ ~(BalanceBatch /\ RewardAsync) => RowsKeepScores

\* What is read and what is trained; each restart may lose a batch, and data only ends when all
\* of it was read or some could not be.
ReadInv ==
    /\ phase \in {"begin", "next"} \/ Waiting => Read <= global_steps + restarts
    /\ phase \in {"first", "ended"} \/ (phase = "loop" /\ ~Waiting) =>
         Read <= global_steps - 1 + restarts
    /\ Held => Read <= global_steps + restarts + IF Ahead THEN 1 ELSE 0
    /\ \/ phase = "ended" \/ (phase = "loop" /\ ~Waiting)
       \/ Held /\ ~Ahead /\ global_steps < total_training_steps
       => errors > 0 \/ ~HasNext
    /\ checkpoint.position <= checkpoint.step + 1 + restarts

Increasing(l) == \A j, k \in DOMAIN l : j < k => l[j].batch < l[k].batch
UpTo(l, b) == \A k \in DOMAIN l : l[k].batch <= b
Before(l, b) == \A k \in DOMAIN l : l[k].batch < b

\* One pass: futures hold consecutive batches, and what is trained is before them.
OrderInv ==
    Epochs = 1 =>
      /\ \A k \in DOMAIN futures : futures[k].batch = position - (Len(futures) - k)
      /\ Increasing(log) /\ UpTo(log, position)
      /\ Increasing(checkpoint.log) /\ UpTo(checkpoint.log, checkpoint.position)
      /\ Waiting \/ phase = "next" => Before(log, position)
      /\ Training => Before(log, futures[batch].batch)
      /\ phase = "finish" => UpTo(log, futures[batch].batch)

\* One pass without warm-up: all that is read is trained, in flight, or lost by a restart.
LossInv ==
    Epochs = 1 /\ Warmup = 0 =>
      /\ UpTo(log, Len(log) + restarts)
      /\ UpTo(checkpoint.log, Len(checkpoint.log) + restarts)
      /\ checkpoint.position <= Len(checkpoint.log) + 1 + restarts
      /\ phase \in {"begin", "first"} => position <= Len(log) + restarts
      /\ Waiting \/ phase = "next" => position <= Len(log) + restarts + 1
      /\ Training => futures[batch].batch <= Len(log) + restarts + 1
      /\ phase = "finish" => futures[batch].batch <= Len(log) + restarts

OffInv ==
    /\ TypeOK /\ PlaceInv /\ StepInv /\ VersionInv /\ MeasureInv /\ RowsInv /\ ReadInv
    /\ OrderInv /\ LossInv

-----------------------------------------------------------------------------
\* What the variables are, as numbers and lists.
LEMMA OffFacts ==
    ASSUME OneStepOffAssumption, TypeOK
    PROVE  /\ total_training_steps \in Nat \ {0} /\ NumBatches \in Nat \ {0}
           /\ global_steps \in Nat /\ position \in Nat /\ epoch \in Nat \ {0}
           /\ actor_version \in Nat /\ rollout_version \in Nat
           /\ restarts \in Nat /\ errors \in Nat /\ MaxRestarts \in Nat
           /\ futures \in Seq(Future) /\ Len(futures) \in Nat /\ DOMAIN futures = 1..Len(futures)
           /\ batch_data_future \in 0..Len(futures) /\ batch \in 0..Len(futures)
           /\ log \in Seq(StepRec) /\ Len(log) \in Nat /\ DOMAIN log = 1..Len(log)
           /\ checkpoint.step \in Nat /\ checkpoint.version \in Nat /\ checkpoint.position \in Nat
           /\ checkpoint.log \in Seq(StepRec) /\ Len(checkpoint.log) \in Nat
           /\ DOMAIN checkpoint.log = 1..Len(checkpoint.log)
<1>1. NumBatches \in Nat \ {0} /\ Epochs \in Nat \ {0} /\ MaxRestarts \in Nat /\ MaxErrors \in Nat
  BY DEF OneStepOffAssumption
<1>2. total_training_steps \in Nat \ {0}
  BY <1>1 DEF total_training_steps
<1>3. /\ global_steps \in Nat /\ position \in Nat /\ epoch \in Nat \ {0}
      /\ actor_version \in Nat /\ rollout_version \in Nat
      /\ restarts \in Nat /\ errors \in Nat
  BY <1>1, <1>2 DEF TypeOK
<1>4. futures \in Seq(Future) /\ log \in Seq(StepRec)
  BY DEF TypeOK
<1>5. batch_data_future \in 0..Len(futures) /\ batch \in 0..Len(futures)
  BY DEF TypeOK
<1>6. checkpoint.step \in Nat /\ checkpoint.version \in Nat /\ checkpoint.position \in Nat
      /\ checkpoint.log \in Seq(StepRec)
  BY <1>2 DEF TypeOK
<1>7. Len(futures) \in Nat /\ DOMAIN futures = 1..Len(futures)
      /\ Len(log) \in Nat /\ DOMAIN log = 1..Len(log)
  BY <1>4
<1>8. Len(checkpoint.log) \in Nat /\ DOMAIN checkpoint.log = 1..Len(checkpoint.log)
  BY <1>6
<1> QED BY <1>1, <1>2, <1>3, <1>4, <1>5, <1>6, <1>7, <1>8

\* Versions of generations and of steps are numbers.
LEMMA VersionsAreNumbers ==
    ASSUME TypeOK
    PROVE  /\ \A k \in DOMAIN futures : futures[k].version \in Nat /\ futures[k].batch \in 1..NumBatches
           /\ \A k \in DOMAIN log : log[k].batch \in 1..NumBatches
           /\ \A k \in DOMAIN checkpoint.log : checkpoint.log[k].batch \in 1..NumBatches
<1>1. futures \in Seq(Future) /\ log \in Seq(StepRec) /\ checkpoint.log \in Seq(StepRec)
  BY DEF TypeOK
<1>2. \A k \in DOMAIN futures : futures[k] \in Future
  BY <1>1
<1>3. \A k \in DOMAIN log : log[k] \in StepRec
  BY <1>1
<1>4. \A k \in DOMAIN checkpoint.log : checkpoint.log[k] \in StepRec
  BY <1>1
<1> QED BY <1>2, <1>3, <1>4 DEF Future, StepRec

\* The batches that were trained are numbers.
LEMMA BatchesAreNumbers ==
    ASSUME OneStepOffAssumption, TypeOK
    PROVE  \A k \in DOMAIN log : log[k].batch \in Nat
<1>1. NumBatches \in Nat
  BY DEF OneStepOffAssumption
<1>2. \A k \in DOMAIN log : log[k].batch \in 1..NumBatches
  BY VersionsAreNumbers
<1> QED BY ONLY <1>1, <1>2

\* The count of what is read: it is at least the position in the data, and all of it when there
\* is no next batch.
LEMMA ReadFacts ==
    ASSUME OneStepOffAssumption, TypeOK
    PROVE  /\ Read \in Nat /\ position <= Read
           /\ ~HasNext => Read = total_training_steps
           /\ Epochs = 1 /\ HasNext => position < NumBatches
<1>1. /\ NumBatches \in Nat \ {0} /\ Epochs \in Nat \ {0}
      /\ position \in 0..NumBatches /\ epoch \in 1..Epochs
  BY DEF TypeOK, OneStepOffAssumption
<1>2. (epoch - 1) * NumBatches \in Nat
  BY <1>1
<1>3. ~HasNext => epoch = Epochs /\ position = NumBatches
  BY <1>1 DEF HasNext
<1>4. (Epochs - 1) * NumBatches + NumBatches = NumBatches * Epochs
  BY <1>1
<1>5. ~HasNext => Read = total_training_steps
  BY <1>3, <1>4 DEF Read, total_training_steps
<1>6. Epochs = 1 /\ HasNext => position < NumBatches
  BY <1>1 DEF HasNext
<1>7. Read \in Nat /\ position <= Read
  BY <1>1, <1>2 DEF Read
<1> QED BY <1>5, <1>6, <1>7

\* Reading a batch counts it, also where one pass over the data follows another.
LEMMA ReadCounts ==
    ASSUME OneStepOffAssumption, TypeOK, HasNext, ReadNext
    PROVE  /\ Read' = Read + 1
           /\ position' \in 1..NumBatches /\ epoch' \in 1..Epochs
           /\ Epochs = 1 => position' = position + 1
<1>1. /\ NumBatches \in Nat \ {0} /\ Epochs \in Nat \ {0}
      /\ position \in 0..NumBatches /\ epoch \in 1..Epochs
  BY DEF TypeOK, OneStepOffAssumption
<1>2. CASE position < NumBatches
  <2>1. position' = position + 1 /\ epoch' = epoch
    BY <1>2 DEF ReadNext
  <2>2. (epoch - 1) * NumBatches \in Nat
    BY <1>1
  <2>3. Read' = Read + 1
    BY <1>1, <2>1, <2>2 DEF Read
  <2> QED BY <1>1, <1>2, <2>1, <2>3
<1>3. CASE position = NumBatches
  <2>1. position' = 1 /\ epoch' = epoch + 1 /\ epoch < Epochs
    BY <1>1, <1>3 DEF ReadNext, HasNext
  <2>2. (epoch' - 1) * NumBatches = (epoch - 1) * NumBatches + NumBatches
        /\ (epoch - 1) * NumBatches \in Nat
    BY <1>1, <2>1
  <2>3. Read' = (epoch' - 1) * NumBatches + position'
    BY DEF Read
  <2>4. Read = (epoch - 1) * NumBatches + NumBatches
    BY <1>3 DEF Read
  <2>5. Read' = Read + 1
    BY <1>1, <2>1, <2>2, <2>3, <2>4
  <2> QED BY <1>1, <2>1, <2>5
<1> QED BY <1>1, <1>2, <1>3

\* _async_gen_next_batch: a new future with the weights the actor has now, or none.
LEMMA AsyncAdds ==
    ASSUME OneStepOffAssumption, TypeOK, AsyncGenNextBatch
    PROVE  \/ /\ errors' = errors /\ Read' = Read + 1
              /\ position' \in 1..NumBatches /\ epoch' \in 1..Epochs
              /\ Epochs = 1 => position' = position + 1
              /\ rollout_version' = actor_version
              /\ futures' \in Seq(Future) /\ Len(futures') = Len(futures) + 1
              /\ batch_data_future' = Len(futures) + 1
              /\ \A k \in 1..Len(futures) : futures'[k] = futures[k]
              /\ futures'[Len(futures) + 1].version = actor_version
              /\ futures'[Len(futures) + 1].batch = position'
           \/ /\ batch_data_future' = None
              /\ UNCHANGED <<epoch, position, futures, rollout_version>>
              /\ errors' \in 0..MaxErrors /\ errors' >= errors
              /\ errors' > 0 \/ ~HasNext
<1>1. CASE HasNext /\ ReadNext /\ UNCHANGED errors /\ SyncAndGenerate
  <2> DEFINE f == [batch |-> position', version |-> rollout_version',
                   generated |-> FALSE, scored |-> FALSE]
  <2>1. /\ Read' = Read + 1 /\ position' \in 1..NumBatches /\ epoch' \in 1..Epochs
        /\ Epochs = 1 => position' = position + 1
    BY <1>1, ReadCounts
  <2>2. futures' = Append(futures, f) /\ rollout_version' = actor_version
        /\ batch_data_future' = Len(futures')
    BY <1>1 DEF SyncAndGenerate
  <2>3. f \in Future /\ f.version = actor_version /\ f.batch = position'
    <3>1. actor_version \in Nat
      BY OffFacts
    <3> QED BY <2>1, <2>2, <3>1 DEF Future
  <2>4. futures \in Seq(Future) /\ Len(futures) \in Nat
    BY OffFacts
  <2> HIDE DEF f
  <2>5. /\ Append(futures, f) \in Seq(Future) /\ Len(Append(futures, f)) = Len(futures) + 1
        /\ \A k \in 1..Len(futures) : Append(futures, f)[k] = futures[k]
        /\ Append(futures, f)[Len(futures) + 1] = f
    BY ONLY <2>3, <2>4
  <2>6. errors' = errors
    BY <1>1
  <2> QED BY <2>1, <2>2, <2>3, <2>5, <2>6
<1>2. CASE /\ \/ ~HasNext /\ UNCHANGED errors
              \/ errors < MaxErrors /\ errors' = errors + 1
           /\ batch_data_future' = None
           /\ UNCHANGED <<epoch, position, futures, rollout_version>>
  <2>1. errors \in 0..MaxErrors /\ MaxErrors \in Nat
    BY DEF TypeOK, OneStepOffAssumption
  <2> QED BY <1>2, <2>1
<1> QED BY <1>1, <1>2 DEF AsyncGenNextBatch

\* The order of the generation is an order.
LEMMA RowsAreOrdered == InOrder \in Orders
BY DEF InOrder, Orders

-----------------------------------------------------------------------------
\* Training starts: weights may be measured, and the first step begins.
LEMMA BeginKeeps ==
    ASSUME OneStepOffAssumption, OffInv, Begin
    PROVE  OffInv'
<1> USE DEF OffInv, Held, Training, Waiting, Ahead, Lag, None
<1>1. /\ phase = "begin" /\ phase' = "first" /\ global_steps' = global_steps + 1
      /\ measured' = measured \cup {[step |-> global_steps, trained |-> actor_version,
                                     used |-> rollout_version]}
      /\ epoch' = epoch /\ position' = position /\ errors' = errors /\ futures' = futures
      /\ batch_data_future' = batch_data_future /\ batch' = batch /\ rows' = rows
      /\ token_level_scores' = token_level_scores /\ actor_version' = actor_version
      /\ rollout_version' = rollout_version /\ log' = log /\ checkpoint' = checkpoint
      /\ restarts' = restarts
  BY DEF Begin, Validate, reading, rowVars, lasting
<1>2. /\ global_steps \in Nat /\ global_steps < total_training_steps /\ total_training_steps \in Nat
      /\ actor_version \in Nat /\ rollout_version \in Nat /\ rollout_version <= actor_version
      /\ restarts \in Nat /\ errors \in Nat /\ actor_version <= global_steps
      /\ (restarts = 0 => global_steps = 0)
  BY <1>1, OffFacts DEF StepInv
<1>3. TypeOK'
  <2>1. global_steps' \in 0..total_training_steps + 1
    BY <1>1, <1>2
  <2>2. measured' \subseteq [step : 0..total_training_steps, trained : Nat, used : Nat]
    BY <1>1, <1>2 DEF TypeOK
  <2> QED BY <1>1, <2>1, <2>2 DEF TypeOK
<1>4. PlaceInv'
  BY <1>1 DEF PlaceInv
<1>5. StepInv'
  BY <1>1, <1>2 DEF StepInv
<1>6. VersionInv'
  BY <1>1 DEF VersionInv, OneStepBehind
<1>7. MeasureInv'
  <2>1. MeasuresEarlier'
    BY <1>1, <1>2 DEF MeasureInv, MeasuresEarlier
  <2> QED BY <1>1, <2>1 DEF MeasureInv
<1>8. RowsInv'
  BY <1>1 DEF RowsInv, RowsKeepScores
<1>9. ReadInv'
  <2>1. Read' = Read
    BY <1>1 DEF Read
  <2> QED BY <1>1, <1>2, <2>1 DEF ReadInv
<1>10. OrderInv'
  BY <1>1 DEF OrderInv, Increasing, UpTo
<1>11. LossInv'
  BY <1>1 DEF LossInv, UpTo
<1> QED BY <1>3, <1>4, <1>5, <1>6, <1>7, <1>8, <1>9, <1>10, <1>11

\* The driver has waited for the newest generation: its batch is trained next.
LEMMA WaitKeeps ==
    ASSUME OneStepOffAssumption, OffInv, Wait
    PROVE  OffInv'
<1> USE DEF OffInv, Held, Training, Waiting, Ahead, Lag, None
<1>1. /\ phase = "loop" /\ phase' = "next" /\ batch_data_future # None /\ batch' = batch_data_future
      /\ global_steps' = global_steps /\ measured' = measured
      /\ epoch' = epoch /\ position' = position /\ errors' = errors /\ futures' = futures
      /\ batch_data_future' = batch_data_future /\ rows' = rows
      /\ token_level_scores' = token_level_scores /\ actor_version' = actor_version
      /\ rollout_version' = rollout_version /\ log' = log /\ checkpoint' = checkpoint
      /\ restarts' = restarts
  BY DEF Wait, reading, rowVars, lasting
<1>3. TypeOK'
  BY <1>1 DEF TypeOK
<1>4. PlaceInv'
  BY <1>1 DEF PlaceInv
<1>5. StepInv'
  BY <1>1 DEF StepInv
<1>6. VersionInv'
  BY <1>1 DEF VersionInv, OneStepBehind
<1>7. MeasureInv'
  BY <1>1 DEF MeasureInv, MeasuresEarlier
<1>8. RowsInv'
  BY <1>1 DEF RowsInv, RowsKeepScores
<1>9. ReadInv'
  <2>1. Read' = Read
    BY <1>1 DEF Read
  <2> QED BY <1>1, <2>1 DEF ReadInv
<1>10. OrderInv'
  BY <1>1 DEF OrderInv, Increasing, UpTo, Before
<1>11. LossInv'
  BY <1>1 DEF LossInv, UpTo
<1> QED BY <1>3, <1>4, <1>5, <1>6, <1>7, <1>8, <1>9, <1>10, <1>11

\* Rows change places only if they are balanced, and what is scored before that is not scored by row.
LEMMA BalanceKeeps ==
    ASSUME OneStepOffAssumption, OffInv, Balance
    PROVE  OffInv'
<1> USE DEF OffInv, Held, Training, Waiting, Ahead, Lag, None
<1>1. /\ phase = "balance" /\ phase' = "reward"
      /\ rows' \in IF BalanceBatch THEN Orders ELSE {InOrder}
      /\ global_steps' = global_steps /\ measured' = measured
      /\ epoch' = epoch /\ position' = position /\ errors' = errors /\ futures' = futures
      /\ batch_data_future' = batch_data_future /\ batch' = batch
      /\ token_level_scores' = token_level_scores /\ actor_version' = actor_version
      /\ rollout_version' = rollout_version /\ log' = log /\ checkpoint' = checkpoint
      /\ restarts' = restarts
  BY DEF Balance, reading, lasting
<1>2. rows' \in Orders /\ (BalanceBatch \/ rows' = InOrder)
  BY <1>1, RowsAreOrdered
<1>3. TypeOK'
  BY <1>1, <1>2 DEF TypeOK
<1>4. PlaceInv'
  BY <1>1 DEF PlaceInv
<1>5. StepInv'
  BY <1>1 DEF StepInv
<1>6. VersionInv'
  BY <1>1 DEF VersionInv, OneStepBehind
<1>7. MeasureInv'
  BY <1>1 DEF MeasureInv, MeasuresEarlier
<1>8. RowsInv'
  BY <1>1, <1>2 DEF RowsInv, RowsKeepScores
<1>9. ReadInv'
  <2>1. Read' = Read /\ HasNext' = HasNext
    BY <1>1 DEF Read, HasNext
  <2> QED BY <1>1, <2>1 DEF ReadInv
<1>10. OrderInv'
  BY <1>1 DEF OrderInv, Increasing, UpTo, Before
<1>11. LossInv'
  BY <1>1 DEF LossInv, UpTo
<1> QED BY <1>3, <1>4, <1>5, <1>6, <1>7, <1>8, <1>9, <1>10, <1>11

\* The rows get their scores.
LEMMA RewardKeeps ==
    ASSUME OneStepOffAssumption, OffInv, Reward
    PROVE  OffInv'
<1> USE DEF OffInv, Held, Training, Waiting, Ahead, Lag, None
<1>1. /\ phase = "reward" /\ phase' = "update" /\ rows' = rows
      /\ token_level_scores' = IF RewardAsync THEN InOrder ELSE rows
      /\ global_steps' = global_steps /\ measured' = measured
      /\ epoch' = epoch /\ position' = position /\ errors' = errors /\ futures' = futures
      /\ batch_data_future' = batch_data_future /\ batch' = batch
      /\ actor_version' = actor_version
      /\ rollout_version' = rollout_version /\ log' = log /\ checkpoint' = checkpoint
      /\ restarts' = restarts
  BY DEF Reward, reading, lasting
<1>2. token_level_scores' \in Orders
  BY <1>1, RowsAreOrdered DEF TypeOK
<1>3. TypeOK'
  BY <1>1, <1>2 DEF TypeOK
<1>4. PlaceInv'
  BY <1>1 DEF PlaceInv
<1>5. StepInv'
  BY <1>1 DEF StepInv
<1>6. VersionInv'
  BY <1>1 DEF VersionInv, OneStepBehind
<1>7. MeasureInv'
  BY <1>1 DEF MeasureInv, MeasuresEarlier
<1>8. RowsInv'
  BY <1>1 DEF RowsInv, RowsKeepScores, OneStepOffAssumption
<1>9. ReadInv'
  <2>1. Read' = Read /\ HasNext' = HasNext
    BY <1>1 DEF Read, HasNext
  <2> QED BY <1>1, <2>1 DEF ReadInv
<1>10. OrderInv'
  BY <1>1 DEF OrderInv, Increasing, UpTo, Before
<1>11. LossInv'
  BY <1>1 DEF LossInv, UpTo
<1> QED BY <1>3, <1>4, <1>5, <1>6, <1>7, <1>8, <1>9, <1>10, <1>11

\* The loop is left for want of a batch.
LEMMA RunOutKeeps ==
    ASSUME OneStepOffAssumption, OffInv, RunOut
    PROVE  OffInv'
<1> USE DEF OffInv, Held, Training, Waiting, Ahead, Lag, None
<1>1. /\ phase = "loop" /\ phase' = "ended" /\ batch_data_future = None
      /\ global_steps' = global_steps /\ measured' = measured
      /\ epoch' = epoch /\ position' = position /\ errors' = errors /\ futures' = futures
      /\ batch_data_future' = batch_data_future /\ batch' = batch /\ rows' = rows
      /\ token_level_scores' = token_level_scores /\ actor_version' = actor_version
      /\ rollout_version' = rollout_version /\ log' = log /\ checkpoint' = checkpoint
      /\ restarts' = restarts
  BY DEF RunOut, reading, rowVars, lasting
<1>3. TypeOK'
  BY <1>1 DEF TypeOK
<1>4. PlaceInv'
  BY <1>1 DEF PlaceInv
<1>5. StepInv'
  BY <1>1 DEF StepInv
<1>6. VersionInv'
  BY <1>1 DEF VersionInv, OneStepBehind
<1>7. MeasureInv'
  BY <1>1 DEF MeasureInv, MeasuresEarlier
<1>8. RowsInv'
  BY <1>1 DEF RowsInv, RowsKeepScores
<1>9. ReadInv'
  <2>1. Read' = Read /\ HasNext' = HasNext
    BY <1>1 DEF Read, HasNext
  <2> QED BY <1>1, <2>1 DEF ReadInv
<1>10. OrderInv'
  BY <1>1 DEF OrderInv, Increasing, UpTo, Before
<1>11. LossInv'
  BY <1>1 DEF LossInv, UpTo
<1> QED BY <1>3, <1>4, <1>5, <1>6, <1>7, <1>8, <1>9, <1>10, <1>11

\* A generation or its scores are done: nothing else about a future changes.
LEMMA BackgroundKeeps ==
    ASSUME OneStepOffAssumption, OffInv, Background
    PROVE  OffInv'
<1> USE DEF OffInv, Held, Training, Waiting, Ahead, Lag, None
<1>1. /\ phase' = phase /\ global_steps' = global_steps /\ measured' = measured
      /\ epoch' = epoch /\ position' = position /\ errors' = errors
      /\ batch_data_future' = batch_data_future /\ batch' = batch /\ rows' = rows
      /\ token_level_scores' = token_level_scores /\ actor_version' = actor_version
      /\ rollout_version' = rollout_version /\ log' = log /\ checkpoint' = checkpoint
      /\ restarts' = restarts
  BY DEF Background, Generated, Scored, reading, rowVars, lasting
<1>2. /\ futures' \in Seq(Future) /\ Len(futures') = Len(futures)
      /\ \A k \in 1..Len(futures) : /\ futures'[k].version = futures[k].version
                                    /\ futures'[k].batch = futures[k].batch
  <2>1. futures \in Seq(Future) /\ Len(futures) \in Nat /\ DOMAIN futures = 1..Len(futures)
    BY OffFacts
  <2>2. PICK k \in 1..Len(futures) : \/ futures' = [futures EXCEPT ![k].generated = TRUE]
                                     \/ futures' = [futures EXCEPT ![k].scored = TRUE]
    BY <2>1 DEF Background, Generated, Scored
  <2>3. futures[k] \in Future
    BY <2>1
  <2>4. CASE futures' = [futures EXCEPT ![k].generated = TRUE]
    <3>1. [futures[k] EXCEPT !.generated = TRUE] \in Future
      BY <2>3 DEF Future
    <3>2. futures' = [futures EXCEPT ![k] = [futures[k] EXCEPT !.generated = TRUE]]
      BY <2>4
    <3>3. futures' \in Seq(Future) /\ Len(futures') = Len(futures)
      BY <2>1, <2>2, <3>1, <3>2
    <3> QED BY <2>1, <2>3, <2>4, <3>3 DEF Future
  <2>5. CASE futures' = [futures EXCEPT ![k].scored = TRUE]
    <3>1. [futures[k] EXCEPT !.scored = TRUE] \in Future
      BY <2>3 DEF Future
    <3>2. futures' = [futures EXCEPT ![k] = [futures[k] EXCEPT !.scored = TRUE]]
      BY <2>5
    <3>3. futures' \in Seq(Future) /\ Len(futures') = Len(futures)
      BY <2>1, <2>2, <3>1, <3>2
    <3> QED BY <2>1, <2>3, <2>5, <3>3 DEF Future
  <2> QED BY <2>2, <2>4, <2>5
<1>3. batch_data_future \in 0..Len(futures) /\ batch \in 0..Len(futures) /\ Len(futures) \in Nat
      /\ DOMAIN futures = 1..Len(futures) /\ DOMAIN futures' = 1..Len(futures)
  BY <1>2, OffFacts
<1>4. phase = "next" \/ Held => batch \in 1..Len(futures)
  <2>1. phase = "next" \/ Held => batch # 0
    BY DEF PlaceInv
  <2> QED BY ONLY <1>3, <2>1
<1>5. TypeOK'
  BY <1>1, <1>2 DEF TypeOK
<1>6. PlaceInv'
  BY <1>1, <1>2 DEF PlaceInv
<1>7. StepInv'
  BY <1>1 DEF StepInv
<1>8. VersionInv'
  <2>1. Waiting => futures'[batch_data_future].version = futures[batch_data_future].version
    BY <1>2, <1>3
  <2>2. phase = "next" \/ Held => batch \in 1..Len(futures)
    BY <1>4
  <2>3. phase = "next" \/ Held => futures'[batch].version = futures[batch].version
    BY <1>2, <2>2
  <2>4. Ahead => futures'[batch_data_future].version = futures[batch_data_future].version
    BY <1>2, <1>3
  <2> QED BY <1>1, <2>1, <2>3, <2>4 DEF VersionInv, OneStepBehind
<1>9. MeasureInv'
  BY <1>1 DEF MeasureInv, MeasuresEarlier
<1>10. RowsInv'
  BY <1>1 DEF RowsInv, RowsKeepScores
<1>11. ReadInv'
  <2>1. Read' = Read /\ HasNext' = HasNext
    BY <1>1 DEF Read, HasNext
  <2> QED BY <1>1, <2>1 DEF ReadInv
<1>12. Held => futures'[batch].batch = futures[batch].batch
  <2>1. Held => batch \in 1..Len(futures)
    BY <1>4
  <2> QED BY <1>2, <2>1
<1>13. OrderInv'
  <2>1. Epochs = 1 => \A k \in DOMAIN futures' : futures'[k].batch = position' - (Len(futures') - k)
    BY <1>1, <1>2, <1>3 DEF OrderInv
  <2> QED BY <1>1, <1>12, <2>1 DEF OrderInv, Increasing, UpTo, Before
<1>14. LossInv'
  BY <1>1, <1>12 DEF LossInv, UpTo
<1> QED BY <1>5, <1>6, <1>7, <1>8, <1>9, <1>10, <1>11, <1>13, <1>14

\* A future is added for the batch that was read: the order of batches goes on.
LEMMA OneMoreFuture ==
    ASSUME OneStepOffAssumption, TypeOK, PlaceInv, OrderInv,
           Epochs = 1 => position' = position + 1,
           Len(futures') = Len(futures) + 1, DOMAIN futures' = 1..Len(futures'),
           \A k \in 1..Len(futures) : futures'[k] = futures[k],
           futures'[Len(futures) + 1].batch = position',
           log' = log, checkpoint' = checkpoint, batch' = batch,
           \/ phase = "first" /\ phase' = "loop"
           \/ phase = "next" /\ phase' = "balance"
    PROVE  OrderInv'
<1> SUFFICES ASSUME Epochs = 1 PROVE OrderInv'
  BY DEF OrderInv
<1> USE DEF Waiting, Held, Training, None
<1>1. Len(futures) \in Nat /\ position \in Nat /\ DOMAIN futures = 1..Len(futures)
      /\ position' = position + 1 /\ batch \in 0..Len(futures) /\ DOMAIN log = 1..Len(log)
  BY OffFacts
<1>2. \A k \in DOMAIN futures : futures[k].batch = position - (Len(futures) - k)
  BY DEF OrderInv
<1>3. \A k \in DOMAIN futures' : futures'[k].batch = position' - (Len(futures') - k)
  <2> SUFFICES ASSUME NEW k \in 1..Len(futures')
               PROVE  futures'[k].batch = position' - (Len(futures') - k)
    OBVIOUS
  <2>1. CASE k \in 1..Len(futures)
    BY <1>1, <1>2, <2>1
  <2>2. CASE k = Len(futures) + 1
    BY <1>1, <2>2
  <2> QED BY <1>1, <2>1, <2>2
<1>4. UpTo(log, position) /\ \A k \in DOMAIN log : log[k].batch \in Nat
  <2>1. UpTo(log, position)
    BY DEF OrderInv
  <2>2. \A k \in DOMAIN log : log[k].batch \in Nat
    BY BatchesAreNumbers
  <2> QED BY ONLY <2>1, <2>2
<1>5. UpTo(log, position)' /\ Before(log, position)'
  BY <1>1, <1>4 DEF UpTo, Before
<1>6. phase = "next" => Before(log, futures[batch].batch) /\ futures'[batch] = futures[batch]
  <2> SUFFICES ASSUME phase = "next"
               PROVE  Before(log, futures[batch].batch) /\ futures'[batch] = futures[batch]
    OBVIOUS
  <2>1. batch = Len(futures) /\ batch # 0
    BY DEF PlaceInv
  <2>2. batch \in 1..Len(futures)
    BY ONLY <1>1, <2>1
  <2>3. futures[batch].batch = position
    BY <1>1, <1>2, <2>1, <2>2
  <2> QED BY <2>2, <2>3 DEF OrderInv
<1> QED BY <1>3, <1>5, <1>6 DEF OrderInv, Increasing, UpTo, Before

\* The first generation of a process.
LEMMA FirstKeeps ==
    ASSUME OneStepOffAssumption, OffInv, First
    PROVE  OffInv'
<1> USE DEF OffInv, Held, Training, Waiting, Ahead, Lag, None
<1>1. /\ phase = "first" /\ phase' = "loop" /\ AsyncGenNextBatch
      /\ global_steps' = global_steps /\ measured' = measured /\ batch' = batch /\ rows' = rows
      /\ token_level_scores' = token_level_scores /\ actor_version' = actor_version
      /\ log' = log /\ checkpoint' = checkpoint /\ restarts' = restarts
  BY DEF First, rowVars, lasting
<1>2. /\ actor_version \in Nat /\ actor_version \in 0..total_training_steps
      /\ global_steps \in Nat /\ restarts \in Nat /\ errors \in 0..MaxErrors /\ errors \in Nat
      /\ position \in Nat /\ Len(futures) \in Nat /\ Len(log) \in Nat
      /\ DOMAIN futures = 1..Len(futures) /\ batch \in 0..Len(futures)
  BY OffFacts DEF TypeOK
<1>3. RowsInv'
  BY <1>1 DEF RowsInv, RowsKeepScores
<1>4. CASE /\ errors' = errors /\ Read' = Read + 1
           /\ position' \in 1..NumBatches /\ epoch' \in 1..Epochs
           /\ Epochs = 1 => position' = position + 1
           /\ rollout_version' = actor_version
           /\ futures' \in Seq(Future) /\ Len(futures') = Len(futures) + 1
           /\ batch_data_future' = Len(futures) + 1
           /\ \A k \in 1..Len(futures) : futures'[k] = futures[k]
           /\ futures'[Len(futures) + 1].version = actor_version
           /\ futures'[Len(futures) + 1].batch = position'
  <2>1. TypeOK'
    <3>1. {batch_data_future', batch'} \subseteq 0..Len(futures')
      BY <1>1, <1>2, <1>4
    <3>2. position' \in 0..NumBatches
      BY <1>4, OffFacts
    <3> QED BY <1>1, <1>2, <1>4, <3>1, <3>2 DEF TypeOK
  <2>2. batch_data_future' # None
    BY <1>2, <1>4
  <2>3. PlaceInv'
    BY <1>1, <1>4 DEF PlaceInv
  <2>4. StepInv'
    BY <1>1, <1>2, <1>4 DEF StepInv
  <2>5. VersionInv'
    BY <1>1, <1>2, <1>4 DEF VersionInv, OneStepBehind
  <2>6. MeasureInv'
    BY <1>1, <1>2, <1>4 DEF MeasureInv, MeasuresEarlier
  <2>7. ReadInv'
    <3>1. Read <= global_steps - 1 + restarts /\ Read \in Nat
      BY <1>1, ReadFacts DEF ReadInv
    <3>2. Read' <= global_steps' + restarts'
      BY <1>1, <1>2, <1>4, <3>1
    <3> QED BY <1>1, <2>2, <3>2 DEF ReadInv
  <2>8. OrderInv'
    BY <1>1, <1>2, <1>4, OneMoreFuture
  <2>9. LossInv'
    <3>1. Epochs = 1 /\ Warmup = 0 => position' <= Len(log) + restarts + 1
      BY <1>1, <1>2, <1>4 DEF LossInv
    <3> QED BY <1>1, <3>1 DEF LossInv, UpTo
  <2> QED BY <1>3, <2>1, <2>3, <2>4, <2>5, <2>6, <2>7, <2>8, <2>9
<1>5. CASE /\ batch_data_future' = None
           /\ UNCHANGED <<epoch, position, futures, rollout_version>>
           /\ errors' \in 0..MaxErrors /\ errors' >= errors
           /\ errors' > 0 \/ ~HasNext
  <2>1. TypeOK'
    <3>1. {batch_data_future', batch'} \subseteq 0..Len(futures')
      BY <1>1, <1>2, <1>5
    <3> QED BY <1>1, <1>2, <1>5, <3>1 DEF TypeOK
  <2>2. PlaceInv'
    BY <1>1, <1>5 DEF PlaceInv
  <2>3. StepInv'
    BY <1>1, <1>5 DEF StepInv
  <2>4. VersionInv'
    BY <1>1, <1>5 DEF VersionInv, OneStepBehind
  <2>5. MeasureInv'
    <3>1. restarts' + errors' = 0 => restarts + errors = 0
      <4> DEFINE e == errors'
      <4>1. e \in Nat /\ e >= errors
        BY <1>5
      <4>2. errors \in Nat /\ restarts \in Nat
        BY <1>2
      <4> HIDE DEF e
      <4>3. restarts + e = 0 => restarts + errors = 0
        BY ONLY <4>1, <4>2
      <4> QED BY <1>1, <4>3 DEF e
    <3> QED BY <1>1, <1>5, <3>1 DEF MeasureInv, MeasuresEarlier
  <2>6. ReadInv'
    <3>1. Read' = Read /\ HasNext' = HasNext
      BY <1>5 DEF Read, HasNext
    <3> QED BY <1>1, <1>5, <3>1 DEF ReadInv
  <2>7. OrderInv'
    BY <1>1, <1>5 DEF OrderInv, Increasing, UpTo
  <2>8. LossInv'
    BY <1>1, <1>5 DEF LossInv, UpTo
  <2> QED BY <1>3, <2>1, <2>2, <2>3, <2>4, <2>5, <2>6, <2>7, <2>8
<1> QED BY <1>1, <1>4, <1>5, AsyncAdds

\* The next generation starts while the batch is trained, unless it is the last step.
LEMMA GenNextKeeps ==
    ASSUME OneStepOffAssumption, OffInv, GenNext
    PROVE  OffInv'
<1> USE DEF OffInv, Held, Training, Waiting, Ahead, Lag, None
<1>1. /\ phase = "next" /\ phase' = "balance"
      /\ global_steps' = global_steps /\ measured' = measured /\ batch' = batch /\ rows' = rows
      /\ token_level_scores' = token_level_scores /\ actor_version' = actor_version
      /\ log' = log /\ checkpoint' = checkpoint /\ restarts' = restarts
  BY DEF GenNext, rowVars, lasting
<1>2. /\ actor_version \in Nat /\ actor_version \in 0..total_training_steps
      /\ rollout_version \in Nat /\ rollout_version <= actor_version
      /\ global_steps \in Nat /\ restarts \in Nat /\ errors \in 0..MaxErrors /\ errors \in Nat
      /\ position \in Nat /\ Len(futures) \in Nat /\ Len(log) \in Nat
      /\ DOMAIN futures = 1..Len(futures) /\ total_training_steps \in Nat
  BY OffFacts DEF TypeOK, StepInv
<1>3. /\ batch = Len(futures) /\ batch \in 1..Len(futures) /\ batch_data_future = batch
      /\ global_steps <= total_training_steps
      /\ Lag(batch) \in {0, 1} /\ actor_version - rollout_version <= 1
      /\ Read <= global_steps + restarts /\ Read \in Nat
  <2>1. batch = Len(futures) /\ batch # 0 /\ batch_data_future = batch
    BY <1>1 DEF PlaceInv
  <2>2. batch \in 1..Len(futures)
    BY ONLY <1>2, <2>1
  <2>3. global_steps <= total_training_steps
    BY <1>1 DEF StepInv
  <2>4. Lag(batch) \in {0, 1}
    BY <1>1 DEF VersionInv
  <2>5. actor_version - rollout_version <= 1
    BY <1>1 DEF MeasureInv
  <2>6. Read <= global_steps + restarts /\ Read \in Nat
    BY <1>1, ReadFacts DEF ReadInv
  <2> QED BY <2>1, <2>2, <2>3, <2>4, <2>5, <2>6
<1>4. RowsInv'
  BY <1>1 DEF RowsInv, RowsKeepScores
<1>5. CASE /\ errors' = errors /\ Read' = Read + 1
           /\ position' \in 1..NumBatches /\ epoch' \in 1..Epochs
           /\ Epochs = 1 => position' = position + 1
           /\ rollout_version' = actor_version
           /\ futures' \in Seq(Future) /\ Len(futures') = Len(futures) + 1
           /\ batch_data_future' = Len(futures) + 1
           /\ \A k \in 1..Len(futures) : futures'[k] = futures[k]
           /\ futures'[Len(futures) + 1].version = actor_version
           /\ futures'[Len(futures) + 1].batch = position'
  <2>1. TypeOK'
    <3>1. {batch_data_future', batch'} \subseteq 0..Len(futures')
      BY <1>1, <1>2, <1>3, <1>5
    <3>2. position' \in 0..NumBatches
      BY <1>5, OffFacts
    <3> QED BY <1>1, <1>2, <1>5, <3>1, <3>2 DEF TypeOK
  <2>2. Ahead' /\ batch' = Len(futures') - 1
    BY <1>1, <1>2, <1>3, <1>5
  <2>3. PlaceInv'
    BY <1>1, <1>2, <1>3, <1>5, <2>2 DEF PlaceInv
  <2>4. StepInv'
    BY <1>1, <1>2, <1>5 DEF StepInv
  <2>5. VersionInv'
    <3>1. Lag(batch)' \in {0, 1}
      BY <1>1, <1>3, <1>5
    <3>2. Lag(batch_data_future)' = 0
      BY <1>1, <1>2, <1>5
    <3> QED BY <1>1, <3>1, <3>2 DEF VersionInv, OneStepBehind
  <2>6. MeasureInv'
    BY <1>1, <1>2, <1>5 DEF MeasureInv, MeasuresEarlier
  <2>7. ReadInv'
    <3>1. Read' <= global_steps' + restarts' + 1
      <4>1. Read + 1 <= global_steps + restarts + 1
        BY ONLY <1>2, <1>3
      <4> QED BY <1>1, <1>5, <4>1
    <3> QED BY <1>1, <2>2, <3>1 DEF ReadInv
  <2>8. OrderInv'
    BY <1>1, <1>2, <1>3, <1>5, OneMoreFuture
  <2>9. LossInv'
    <3>1. Epochs = 1 => futures'[batch].batch = position
      BY <1>2, <1>3, <1>5 DEF OrderInv
    <3> QED BY <1>1, <3>1 DEF LossInv, UpTo
  <2> QED BY <1>4, <2>1, <2>3, <2>4, <2>5, <2>6, <2>7, <2>8, <2>9
<1>6. CASE /\ UNCHANGED <<epoch, position, futures, rollout_version>>
           /\ errors' \in 0..MaxErrors /\ errors' >= errors
           /\ \/ batch_data_future' = None /\ (errors' > 0 \/ ~HasNext)
              \/ batch_data_future' = batch_data_future /\ global_steps = total_training_steps
  <2>1. TypeOK'
    <3>1. {batch_data_future', batch'} \subseteq 0..Len(futures')
      BY <1>1, <1>2, <1>3, <1>6
    <3> QED BY <1>1, <1>2, <1>6, <3>1 DEF TypeOK
  <2>2. ~Ahead'
    BY <1>1, <1>3, <1>6
  <2>3. PlaceInv'
    BY <1>1, <1>3, <1>6, <2>2 DEF PlaceInv
  <2>4. StepInv'
    BY <1>1, <1>6 DEF StepInv
  <2>5. VersionInv'
    BY <1>1, <1>6, <2>2 DEF VersionInv, OneStepBehind
  <2>6. MeasureInv'
    <3>1. restarts' + errors' = 0 => restarts + errors = 0
      <4> DEFINE e == errors'
      <4>1. e \in Nat /\ e >= errors
        BY <1>6
      <4>2. errors \in Nat /\ restarts \in Nat
        BY <1>2
      <4> HIDE DEF e
      <4>3. restarts + e = 0 => restarts + errors = 0
        BY ONLY <4>1, <4>2
      <4> QED BY <1>1, <4>3 DEF e
    <3> QED BY <1>1, <1>3, <1>6, <2>2, <3>1 DEF MeasureInv, MeasuresEarlier
  <2>7. ReadInv'
    <3>1. Read' = Read /\ HasNext' = HasNext
      BY <1>6 DEF Read, HasNext
    <3>2. Read' <= global_steps' + restarts' + 0
      BY <1>1, <1>2, <1>3, <3>1
    <3>3. global_steps' < total_training_steps => errors' > 0 \/ ~HasNext'
      BY <1>1, <1>2, <1>6, <3>1
    <3> QED BY <1>1, <2>2, <3>2, <3>3 DEF ReadInv
  <2>8. OrderInv'
    <3>1. Epochs = 1 => futures[batch].batch = position
      BY <1>2, <1>3 DEF OrderInv
    <3> QED BY <1>1, <1>6, <3>1 DEF OrderInv, Increasing, UpTo, Before
  <2>9. LossInv'
    <3>1. Epochs = 1 => futures[batch].batch = position
      BY <1>2, <1>3 DEF OrderInv
    <3> QED BY <1>1, <1>6, <3>1 DEF LossInv, UpTo
  <2> QED BY <1>4, <2>1, <2>3, <2>4, <2>5, <2>6, <2>7, <2>8, <2>9
<1>7. CASE is_last_step
  <2>1. UNCHANGED <<reading, futures, batch_data_future, rollout_version>>
    BY <1>7 DEF GenNext
  <2>2. global_steps = total_training_steps
    BY <1>2, <1>3, <1>7 DEF is_last_step
  <2> QED BY <1>2, <1>6, <2>1, <2>2 DEF reading
<1>8. CASE ~is_last_step
  <2>1. AsyncGenNextBatch
    BY <1>8 DEF GenNext
  <2> QED BY <1>5, <1>6, <2>1, AsyncAdds
<1> QED BY <1>7, <1>8

\* A batch is trained: the step is as late as its generation, and is the last of the history.
LEMMA UpdateKeeps ==
    ASSUME OneStepOffAssumption, OffInv, Update
    PROVE  OffInv'
<1> USE DEF OffInv, Held, Training, Waiting, Ahead, Lag, None
<1>1. /\ phase = "update" /\ phase' = "finish"
      /\ global_steps' = global_steps /\ measured' = measured
      /\ epoch' = epoch /\ position' = position /\ errors' = errors /\ futures' = futures
      /\ batch_data_future' = batch_data_future /\ batch' = batch /\ rows' = rows
      /\ token_level_scores' = token_level_scores
      /\ rollout_version' = rollout_version /\ checkpoint' = checkpoint /\ restarts' = restarts
  BY DEF Update, reading, rowVars
<1>2. /\ actor_version \in Nat /\ rollout_version \in Nat /\ rollout_version <= actor_version
      /\ global_steps \in Nat /\ restarts \in Nat /\ global_steps > 0
      /\ actor_version <= global_steps - 1 /\ global_steps <= total_training_steps
      /\ position \in Nat /\ Len(futures) \in Nat
      /\ DOMAIN futures = 1..Len(futures) /\ total_training_steps \in Nat
  BY <1>1, OffFacts DEF StepInv
<1>3. batch \in 1..Len(futures)
  <2>1. batch # 0 /\ batch \in 0..Len(futures)
    BY <1>1, OffFacts DEF PlaceInv
  <2> QED BY ONLY <1>2, <2>1
<1>4. /\ log \in Seq(StepRec) /\ Len(log) \in Nat /\ DOMAIN log = 1..Len(log)
  BY OffFacts
<1>5. /\ futures[batch].version \in Nat /\ futures[batch].batch \in 1..NumBatches
      /\ NumBatches \in Nat
  BY <1>2, <1>3, VersionsAreNumbers, OffFacts
<1>6. \/ actor_version' = actor_version /\ log' = log /\ Warmup # 0
      \/ actor_version' = actor_version + 1 /\ log' = Append(log, Step)
  BY <1>2 DEF Update, OneStepOffAssumption
<1>7. actor_version' \in Nat /\ actor_version' >= actor_version /\ actor_version' <= actor_version + 1
  BY <1>2, <1>6
<1>8. /\ Step \in StepRec /\ Step.batch = futures[batch].batch
      /\ Step.trained_at - Step.generated_by \in {0, 1}
  <2>1. Lag(batch) \in {0, 1}
    BY <1>1 DEF VersionInv
  <2> QED BY <1>2, <1>5, <2>1 DEF Step, StepRec
<1>9. PlaceInv'
  BY <1>1 DEF PlaceInv
<1>10. StepInv'
  BY <1>1, <1>2, <1>7 DEF StepInv
<1>11. OneStepBehind' => VersionInv'
  <2>1. Ahead => Lag(batch_data_future) = 0 /\ futures[batch_data_future].version \in Nat
    <3>1. Ahead => batch_data_future \in 1..Len(futures)
      BY <1>2, OffFacts
    <3> QED BY <1>1, <1>2, <3>1, VersionsAreNumbers DEF VersionInv
  <2>2. Ahead => Lag(batch_data_future)' \in {0, 1}
    BY <1>1, <1>2, <1>6, <2>1
  <2> QED BY <1>1, <2>2 DEF VersionInv
<1>12. MeasureInv'
  <2>1. actor_version - rollout_version <= IF Ahead THEN 0 ELSE 1
    BY <1>1 DEF MeasureInv
  <2> DEFINE a == actor_version'
  <2>2. a \in Nat /\ a <= actor_version + 1
    BY <1>7
  <2> HIDE DEF a
  <2>3. a - rollout_version <= IF Ahead THEN 1 ELSE 2
    BY <1>2, <2>1, <2>2
  <2>4. actor_version' - rollout_version' <= IF Ahead' THEN 1 ELSE 2
    BY <1>1, <2>3 DEF a
  <2> QED BY <1>1, <2>4 DEF MeasureInv, MeasuresEarlier
<1>13. RowsInv'
  BY <1>1 DEF RowsInv, RowsKeepScores
<1>14. ReadInv'
  <2>1. Read' = Read /\ HasNext' = HasNext
    BY <1>1 DEF Read, HasNext
  <2> QED BY <1>1, <2>1 DEF ReadInv
<1>15. CASE actor_version' = actor_version + 1 /\ log' = Append(log, Step)
  <2> DEFINE l == Append(log, Step)
  <2>1. /\ l \in Seq(StepRec) /\ Len(l) = Len(log) + 1 /\ DOMAIN l = 1..Len(log) + 1
        /\ \A k \in 1..Len(log) : l[k] = log[k]
        /\ l[Len(log) + 1] = Step
    BY <1>4, <1>8
  <2> HIDE DEF l
  <2>2. log' = l
    BY <1>15 DEF l
  <2>3. \A k \in DOMAIN log' : (k \in DOMAIN log /\ log'[k] = log[k]) \/ (k = Len(log) + 1 /\ log'[k] = Step)
    <3> SUFFICES ASSUME NEW k \in DOMAIN log'
                 PROVE  (k \in DOMAIN log /\ log'[k] = log[k]) \/ (k = Len(log) + 1 /\ log'[k] = Step)
      OBVIOUS
    <3>1. k \in 1..Len(log) + 1
      BY <2>1, <2>2
    <3>2. k \in 1..Len(log) \/ k = Len(log) + 1
      BY <1>4, <3>1
    <3>3. log'[k] = l[k]
      BY <2>2
    <3>4. CASE k \in 1..Len(log)
      <4>1. l[k] = log[k]
        BY <2>1, <3>4
      <4>2. k \in DOMAIN log
        BY <1>4, <3>4
      <4>3. log'[k] = log[k]
        BY ONLY <3>3, <4>1
      <4> QED BY ONLY <4>2, <4>3
    <3>5. CASE k = Len(log) + 1
      <4>1. l[k] = Step
        BY <2>1, <3>5
      <4> QED BY ONLY <3>3, <3>5, <4>1
    <3> QED BY ONLY <3>2, <3>4, <3>5
  <2>4. TypeOK'
    <3>1. actor_version' \in 0..total_training_steps
      BY <1>2, <1>7
    <3>2. log' \in Seq(StepRec)
      BY <2>1, <2>2
    <3> QED BY <1>1, <3>1, <3>2 DEF TypeOK
  <2>5. OneStepBehind'
    BY <1>8, <2>3 DEF VersionInv, OneStepBehind
  <2>6. OrderInv'
    <3> SUFFICES ASSUME Epochs = 1 PROVE OrderInv'
      BY DEF OrderInv
    <3>1. \A k \in DOMAIN log : log[k].batch < futures[batch].batch /\ log[k].batch \in Nat
      <4>1. \A k \in DOMAIN log : log[k].batch < futures[batch].batch
        BY <1>1 DEF OrderInv, Before
      <4>2. \A k \in DOMAIN log : log[k].batch \in Nat
        BY BatchesAreNumbers
      <4> QED BY ONLY <4>1, <4>2
    <3>2. futures[batch].batch <= position
      <4>1. futures[batch].batch = position - (Len(futures) - batch)
        BY <1>2, <1>3 DEF OrderInv
      <4>2. Len(futures) - batch >= 0 /\ Len(futures) - batch \in Nat
        BY <1>2, <1>3
      <4> QED BY ONLY <1>2, <4>1, <4>2
    <3>3. UpTo(log', futures[batch].batch)
      BY <1>5, <1>8, <2>3, <3>1 DEF UpTo
    <3>4. UpTo(log', position)
      BY <1>2, <1>5, <1>8, <2>3, <3>1, <3>2 DEF UpTo
    <3>5. Increasing(log')
      <4> SUFFICES ASSUME NEW j \in DOMAIN log', NEW k \in DOMAIN log', j < k
                   PROVE  log'[j].batch < log'[k].batch
        BY DEF Increasing
      <4>1. j \in 1..Len(log) /\ log'[j] = log[j]
        BY <1>4, <2>1, <2>2
      <4>2. CASE k \in DOMAIN log /\ log'[k] = log[k]
        BY <1>4, <4>1, <4>2 DEF OrderInv, Increasing
      <4>3. CASE log'[k] = Step
        BY <1>4, <1>8, <3>1, <4>1, <4>3
      <4> QED BY <2>3, <4>2, <4>3
    <3> QED BY <1>1, <3>3, <3>4, <3>5 DEF OrderInv
  <2>7. LossInv'
    <3> SUFFICES ASSUME Epochs = 1, Warmup = 0 PROVE LossInv'
      BY DEF LossInv
    <3>1. futures[batch].batch <= Len(log) + 1 + restarts
      BY <1>1, <1>2, <1>4, <1>5 DEF LossInv
    <3>2. \A k \in DOMAIN log : log[k].batch < futures[batch].batch /\ log[k].batch \in Nat
      <4>1. \A k \in DOMAIN log : log[k].batch < futures[batch].batch
        BY <1>1 DEF OrderInv, Before
      <4>2. \A k \in DOMAIN log : log[k].batch \in Nat
        BY BatchesAreNumbers
      <4> QED BY ONLY <4>1, <4>2
    <3>3. Len(log') = Len(log) + 1
      BY <2>1, <2>2
    <3>4. UpTo(log', Len(log') + restarts)
      BY <1>2, <1>4, <1>5, <1>8, <2>3, <3>1, <3>2, <3>3 DEF UpTo
    <3> QED BY <1>1, <3>1, <3>3, <3>4 DEF LossInv
  <2> QED BY <1>9, <1>10, <1>11, <1>12, <1>13, <1>14, <2>4, <2>5, <2>6, <2>7
<1>16. CASE actor_version' = actor_version /\ log' = log /\ Warmup # 0
  <2>1. TypeOK'
    BY <1>1, <1>16 DEF TypeOK
  <2>2. OneStepBehind'
    BY <1>16 DEF VersionInv, OneStepBehind
  <2>3. LossInv'
    BY <1>1, <1>16 DEF LossInv
  <2>4. OrderInv'
    <3> SUFFICES ASSUME Epochs = 1 PROVE OrderInv'
      BY DEF OrderInv
    <3>1. UpTo(log, futures[batch].batch)
      BY <1>1, <1>5, VersionsAreNumbers DEF OrderInv, UpTo, Before
    <3> QED BY <1>1, <1>16, <3>1 DEF OrderInv
  <2> QED BY <1>9, <1>10, <1>11, <1>12, <1>13, <1>14, <2>1, <2>2, <2>3, <2>4
<1> QED BY <1>6, <1>15, <1>16

\* A step ends: weights may be measured, they may be saved, and the next step begins or fit returns.
LEMMA FinishKeeps ==
    ASSUME OneStepOffAssumption, OffInv, Finish
    PROVE  OffInv'
<1> USE DEF OffInv, Held, Training, Waiting, Ahead, Lag, None
<1>1. /\ phase = "finish" /\ global_steps' = global_steps + 1
      /\ epoch' = epoch /\ position' = position /\ errors' = errors /\ futures' = futures
      /\ batch_data_future' = batch_data_future /\ batch' = batch /\ rows' = rows
      /\ token_level_scores' = token_level_scores /\ actor_version' = actor_version
      /\ rollout_version' = rollout_version /\ log' = log /\ restarts' = restarts
      /\ phase' = IF is_last_step THEN "returned" ELSE "loop"
  BY DEF Finish, reading, rowVars
<1>2. /\ actor_version \in Nat /\ rollout_version \in Nat /\ rollout_version <= actor_version
      /\ global_steps \in Nat /\ restarts \in Nat /\ errors \in Nat /\ global_steps > 0
      /\ actor_version <= global_steps /\ global_steps <= total_training_steps
      /\ position \in Nat /\ Len(futures) \in Nat /\ Len(log) \in Nat
      /\ DOMAIN futures = 1..Len(futures) /\ total_training_steps \in Nat
  BY <1>1, OffFacts DEF StepInv
<1>3. /\ batch # None /\ batch \in 1..Len(futures)
      /\ batch = IF Ahead THEN Len(futures) - 1 ELSE Len(futures)
      /\ batch_data_future = batch => global_steps = total_training_steps
  <2>1. batch # 0 /\ batch \in 0..Len(futures)
    BY <1>1, OffFacts DEF PlaceInv
  <2>2. batch \in 1..Len(futures)
    BY ONLY <1>2, <2>1
  <2> QED BY <1>1, <2>1, <2>2 DEF PlaceInv
<1>4. /\ measured' \in {measured, measured \cup {[step |-> global_steps, trained |-> actor_version,
                                                  used |-> rollout_version]}}
  BY DEF Finish, Validate
<1>5. \/ checkpoint' = checkpoint
      \/ checkpoint' = [step |-> global_steps, version |-> actor_version, position |-> position,
                        log |-> log]
  BY DEF Finish
<1>6. /\ Read \in Nat /\ position <= Read
      /\ Read <= global_steps + restarts + IF Ahead THEN 1 ELSE 0
      /\ ~Ahead /\ global_steps < total_training_steps => errors > 0 \/ ~HasNext
      /\ ~HasNext => Read = total_training_steps
  BY <1>1, ReadFacts DEF ReadInv
<1>7. phase' = (IF global_steps < total_training_steps THEN "loop" ELSE "returned")
  BY <1>1, <1>2 DEF is_last_step
<1>8. global_steps < total_training_steps => batch_data_future = None \/ Ahead
  <2>1. global_steps < total_training_steps => global_steps # total_training_steps
    BY <1>2
  <2>2. batch_data_future = batch => global_steps = total_training_steps
    BY <1>3
  <2> QED BY ONLY <2>1, <2>2 DEF Ahead, None
<1>9. TypeOK'
  <2>1. global_steps' \in 0..total_training_steps + 1 /\ global_steps \in 0..total_training_steps
    BY <1>1, <1>2
  <2>2. measured' \subseteq [step : 0..total_training_steps, trained : Nat, used : Nat]
    <3>1. measured \subseteq [step : 0..total_training_steps, trained : Nat, used : Nat]
      BY DEF TypeOK
    <3>2. [step |-> global_steps, trained |-> actor_version, used |-> rollout_version]
            \in [step : 0..total_training_steps, trained : Nat, used : Nat]
      BY ONLY <1>2, <2>1
    <3> QED BY ONLY <1>4, <3>1, <3>2
  <2>3. checkpoint' \in [step : 0..total_training_steps, version : Nat,
                         position : 0..NumBatches, log : Seq(StepRec)]
    <3>1. checkpoint \in [step : 0..total_training_steps, version : Nat,
                          position : 0..NumBatches, log : Seq(StepRec)]
      BY DEF TypeOK
    <3>2. position \in 0..NumBatches /\ log \in Seq(StepRec)
      BY DEF TypeOK
    <3>3. [step |-> global_steps, version |-> actor_version, position |-> position, log |-> log]
            \in [step : 0..total_training_steps, version : Nat,
                 position : 0..NumBatches, log : Seq(StepRec)]
      BY ONLY <1>2, <2>1, <3>2
    <3> QED BY ONLY <1>5, <3>1, <3>3
  <2>4. phase' \in {"loop", "returned"}
    BY <1>7
  <2> QED BY <1>1, <2>1, <2>2, <2>3, <2>4 DEF TypeOK
<1>10. PlaceInv'
  BY <1>1, <1>7 DEF PlaceInv
<1>11. StepInv'
  <2>1. global_steps' \in Nat /\ global_steps' > 0
    BY <1>1, <1>2
  <2>2. actor_version <= global_steps + 1 - 1
    BY <1>2
  <2>3. phase' # "returned" => /\ global_steps + 1 <= total_training_steps
                               /\ checkpoint'.step < total_training_steps
    BY <1>1, <1>2, <1>5, <1>7 DEF StepInv
  <2>4. checkpoint'.version <= checkpoint'.step
    BY <1>2, <1>5 DEF StepInv
  <2> QED BY <1>1, <1>2, <1>7, <2>1, <2>2, <2>3, <2>4 DEF StepInv
<1>12. VersionInv'
  <2>1. \A k \in DOMAIN checkpoint'.log :
          checkpoint'.log[k].trained_at - checkpoint'.log[k].generated_by \in {0, 1}
    BY <1>5 DEF VersionInv, OneStepBehind
  <2>2. OneStepBehind'
    BY <1>1 DEF VersionInv, OneStepBehind
  <2>3. Ahead => Lag(batch_data_future) \in {0, 1}
    BY <1>1 DEF VersionInv
  <2> QED BY <1>1, <1>7, <1>8, <2>1, <2>2, <2>3 DEF VersionInv
<1>13. MeasureInv'
  <2>1. actor_version - rollout_version <= IF Ahead THEN 1 ELSE 2
    BY <1>1 DEF MeasureInv
  <2>2. restarts + errors = 0 =>
          actor_version - rollout_version <= IF global_steps = total_training_steps THEN 2 ELSE 1
    <3> SUFFICES ASSUME restarts = 0, errors = 0
                 PROVE  actor_version - rollout_version
                          <= IF global_steps = total_training_steps THEN 2 ELSE 1
      BY <1>2
    <3>1. CASE Ahead
      BY <1>2, <2>1, <3>1
    <3>2. CASE ~Ahead
      BY <1>2, <1>6, <2>1, <3>2
    <3> QED BY <3>1, <3>2
  <2>3. MeasuresEarlier'
    BY <1>1, <1>2, <1>4, <2>2 DEF MeasureInv, MeasuresEarlier
  <2> QED BY <1>1, <1>7, <1>8, <2>1, <2>3 DEF MeasureInv
<1>14. RowsInv'
  BY <1>1, <1>7 DEF RowsInv, RowsKeepScores
<1>15. ReadInv'
  <2>1. Read' = Read /\ HasNext' = HasNext
    BY <1>1 DEF Read, HasNext
  <2>2. checkpoint'.position <= checkpoint'.step + 1 + restarts
    <3>1. position <= global_steps + 1 + restarts
      BY <1>2, <1>6
    <3> QED BY <1>5, <3>1 DEF ReadInv
  <2>3. Ahead => Read <= global_steps + 1 + restarts
    BY <1>2, <1>6
  <2>4. ~Ahead => Read <= global_steps + 1 - 1 + restarts
    BY <1>2, <1>6
  <2>5. Waiting' => Ahead /\ phase' = "loop"
    BY <1>1, <1>7, <1>8
  <2>6. phase' = "loop" /\ ~Waiting' => ~Ahead /\ global_steps < total_training_steps
    BY <1>1, <1>7
  <2>7. phase' \in {"loop", "returned"}
    BY <1>7
  <2>8. Waiting' => Read' <= global_steps' + restarts'
    BY <1>1, <2>1, <2>3, <2>5
  <2>9. phase' = "loop" /\ ~Waiting' =>
            Read' <= global_steps' - 1 + restarts' /\ (errors' > 0 \/ ~HasNext')
    <3> SUFFICES ASSUME phase' = "loop", ~Waiting'
                 PROVE  Read' <= global_steps' - 1 + restarts' /\ (errors' > 0 \/ ~HasNext')
      OBVIOUS
    <3>1. ~Ahead /\ global_steps < total_training_steps
      BY <2>6
    <3>2. errors > 0 \/ ~HasNext
      BY <1>6, <3>1
    <3>3. Read <= global_steps + 1 - 1 + restarts
      BY <2>4, <3>1
    <3> DEFINE g == global_steps'
    <3> DEFINE r == restarts'
    <3> DEFINE d == Read'
    <3>4. g = global_steps + 1 /\ r = restarts /\ d = Read
      BY <1>1, <2>1
    <3> HIDE DEF g, r, d
    <3>5. d <= g - 1 + r
      <4>1. global_steps \in Nat /\ restarts \in Nat /\ Read \in Nat
        BY <1>2, <1>6
      <4> HIDE DEF Read
      <4> QED BY ONLY <3>3, <3>4, <4>1
    <3>6. Read' <= global_steps' - 1 + restarts'
      BY ONLY <3>5, Zenon DEF g, r, d
    <3>7. errors' > 0 \/ ~HasNext'
      BY <1>1, <2>1, <3>2
    <3> QED BY ONLY <3>6, <3>7
  <2>10. checkpoint'.position <= checkpoint'.step + 1 + restarts'
    BY <1>1, <2>2
  <2>11. ~Held'
    BY <2>7
  <2>12. phase' # "begin" /\ phase' # "next" /\ phase' # "first" /\ phase' # "ended"
    BY <2>7
  <2>13. phase' \in {"begin", "next"} \/ Waiting' => Read' <= global_steps' + restarts'
    BY ONLY <2>8, <2>12
  <2>14. phase' \in {"first", "ended"} \/ (phase' = "loop" /\ ~Waiting') =>
            Read' <= global_steps' - 1 + restarts'
    <3> SUFFICES ASSUME phase' \in {"first", "ended"} \/ (phase' = "loop" /\ ~Waiting')
                 PROVE  Read' <= global_steps' - 1 + restarts'
      OBVIOUS
    <3>1. phase' = "loop" /\ ~Waiting'
      BY ONLY <2>12, phase' \in {"first", "ended"} \/ (phase' = "loop" /\ ~Waiting')
    <3> QED BY ONLY <2>9, <3>1, Zenon
  <2>15. Held' => Read' <= global_steps' + restarts' + IF Ahead' THEN 1 ELSE 0
    BY ONLY <2>11
  <2>16. \/ phase' = "ended" \/ (phase' = "loop" /\ ~Waiting')
         \/ Held' /\ ~Ahead' /\ global_steps' < total_training_steps
         => errors' > 0 \/ ~HasNext'
    BY ONLY <2>9, <2>11, <2>12
  <2> QED BY ONLY <2>10, <2>13, <2>14, <2>15, <2>16, Zenon DEF ReadInv
<1>16. OrderInv'
  <2> SUFFICES ASSUME Epochs = 1 PROVE OrderInv'
    BY DEF OrderInv
  <2>1. \A k \in DOMAIN futures : futures[k].batch = position - (Len(futures) - k)
    BY DEF OrderInv
  <2>2. futures[batch].batch = position - IF Ahead THEN 1 ELSE 0
    <3>1. futures[batch].batch = position - (Len(futures) - batch)
      BY <1>2, <1>3, <2>1
    <3>2. CASE Ahead
      <4>1. Len(futures) - batch = 1
        <5>1. batch = Len(futures) - 1
          BY ONLY <1>3, <3>2
        <5> QED BY <1>2, <5>1
      <4> QED BY <3>1, <3>2, <4>1
    <3>3. CASE ~Ahead
      <4>1. Len(futures) - batch = 0
        <5>1. batch = Len(futures)
          BY ONLY <1>3, <3>3
        <5> QED BY <1>2, <5>1
      <4> QED BY <3>1, <3>3, <4>1
    <3> QED BY <3>2, <3>3
  <2>3. \A k \in DOMAIN log : log[k].batch <= futures[batch].batch /\ log[k].batch \in Nat
    BY <1>1, VersionsAreNumbers DEF OrderInv, UpTo
  <2>4. Ahead => Before(log, position)
    BY <1>2, <2>2, <2>3 DEF Before
  <2>5. UpTo(log, position) /\ Increasing(log)
    BY DEF OrderInv
  <2>6. Increasing(checkpoint'.log) /\ UpTo(checkpoint'.log, checkpoint'.position)
    BY <1>5, <2>5 DEF OrderInv
  <2>7. Waiting' => Ahead
    BY <1>1, <1>7, <1>8
  <2>8. phase' \in {"loop", "returned"}
    BY <1>7
  <2> QED BY <1>1, <2>1, <2>4, <2>5, <2>6, <2>7, <2>8 DEF OrderInv
<1>17. LossInv'
  <2> SUFFICES ASSUME Epochs = 1, Warmup = 0 PROVE LossInv'
    BY DEF LossInv
  <2>1. \A k \in DOMAIN futures : futures[k].batch = position - (Len(futures) - k)
    BY DEF OrderInv
  <2>2. futures[batch].batch = position - IF Ahead THEN 1 ELSE 0
    <3>1. futures[batch].batch = position - (Len(futures) - batch)
      BY <1>2, <1>3, <2>1
    <3>2. CASE Ahead
      <4>1. Len(futures) - batch = 1
        <5>1. batch = Len(futures) - 1
          BY ONLY <1>3, <3>2
        <5> QED BY <1>2, <5>1
      <4> QED BY <3>1, <3>2, <4>1
    <3>3. CASE ~Ahead
      <4>1. Len(futures) - batch = 0
        <5>1. batch = Len(futures)
          BY ONLY <1>3, <3>3
        <5> QED BY <1>2, <5>1
      <4> QED BY <3>1, <3>3, <4>1
    <3> QED BY <3>2, <3>3
  <2>3. futures[batch].batch <= Len(log) + restarts
    BY <1>1 DEF LossInv
  <2>4. position <= Len(log) + restarts + 1 /\ position <= Len(log) + 1 + restarts
    BY <1>2, <2>2, <2>3
  <2>5. UpTo(log, Len(log) + restarts)
    BY DEF LossInv
  <2>6. /\ UpTo(checkpoint'.log, Len(checkpoint'.log) + restarts)
        /\ checkpoint'.position <= Len(checkpoint'.log) + 1 + restarts
    BY <1>5, <2>4, <2>5 DEF LossInv
  <2>7. phase' \in {"loop", "returned"}
    BY <1>7
  <2> QED BY <1>1, <2>4, <2>5, <2>6, <2>7 DEF LossInv
<1> QED BY <1>9, <1>10, <1>11, <1>12, <1>13, <1>14, <1>15, <1>16, <1>17

\* The job starts again from its checkpoint.
LEMMA RestartKeeps ==
    ASSUME OneStepOffAssumption, OffInv, Restart
    PROVE  OffInv'
<1> USE DEF OffInv, Held, Training, Waiting, Ahead, Lag, None
<1>1. /\ phase # "returned" /\ restarts < MaxRestarts
      /\ restarts' = restarts + 1 /\ phase' = "begin" /\ global_steps' = checkpoint.step
      /\ epoch' = 1 /\ position' = checkpoint.position
      /\ futures' = <<>> /\ batch_data_future' = 0 /\ batch' = 0
      /\ rows' = InOrder /\ token_level_scores' = InOrder
      /\ actor_version' = checkpoint.version /\ rollout_version' = 0 /\ log' = checkpoint.log
      /\ errors' = errors /\ measured' = measured /\ checkpoint' = checkpoint
  BY DEF Restart
<1>2. /\ checkpoint.step \in Nat /\ checkpoint.version \in Nat /\ checkpoint.position \in Nat
      /\ checkpoint.version <= checkpoint.step /\ checkpoint.step < total_training_steps
      /\ total_training_steps \in Nat /\ restarts \in Nat /\ errors \in Nat
      /\ Len(checkpoint.log) \in Nat
  BY <1>1, OffFacts DEF StepInv
<1>3. futures' \in Seq(Future) /\ Len(futures') = 0 /\ DOMAIN futures' = {}
  BY <1>1
<1>4. TypeOK'
  <2>1. checkpoint \in [step : 0..total_training_steps, version : Nat,
                        position : 0..NumBatches, log : Seq(StepRec)]
    BY DEF TypeOK
  <2>2. epoch' \in 1..Epochs /\ restarts' \in 0..MaxRestarts
    <3>1. Epochs \in Nat \ {0} /\ MaxRestarts \in Nat
      BY DEF OneStepOffAssumption
    <3> QED BY <1>1, <1>2, <3>1
  <2>3. /\ global_steps' \in 0..total_training_steps + 1 /\ position' \in 0..NumBatches
        /\ actor_version' \in 0..total_training_steps /\ rollout_version' \in 0..total_training_steps
        /\ log' \in Seq(StepRec)
    BY <1>1, <1>2, <2>1
  <2>4. {batch_data_future', batch'} \subseteq 0..Len(futures')
    BY <1>1, <1>3
  <2>5. {rows', token_level_scores'} \subseteq Orders
    BY <1>1, RowsAreOrdered
  <2> QED BY <1>1, <1>3, <2>1, <2>2, <2>3, <2>4, <2>5 DEF TypeOK
<1>5. PlaceInv'
  BY <1>1 DEF PlaceInv
<1>6. StepInv'
  BY <1>1, <1>2 DEF StepInv
<1>7. VersionInv'
  BY <1>1 DEF VersionInv, OneStepBehind
<1>8. MeasureInv'
  <2>1. restarts + 1 + errors # 0
    BY <1>2
  <2>2. restarts' + errors' # 0
    BY <1>1, <2>1
  <2> QED BY <1>1, <2>2 DEF MeasureInv, MeasuresEarlier
<1>9. RowsInv'
  BY <1>1 DEF RowsInv, RowsKeepScores
<1>10. ReadInv'
  <2>1. NumBatches \in Nat
    BY DEF OneStepOffAssumption
  <2>2. Read' = checkpoint.position
    BY <1>1, <1>2, <2>1 DEF Read
  <2>3. checkpoint.position <= checkpoint.step + (restarts + 1)
        /\ checkpoint.position <= checkpoint.step + 1 + (restarts + 1)
    BY <1>2 DEF ReadInv
  <2> QED BY <1>1, <2>2, <2>3 DEF ReadInv
<1>11. OrderInv'
  BY <1>1, <1>3 DEF OrderInv
<1>12. LossInv'
  <2> SUFFICES ASSUME Epochs = 1, Warmup = 0 PROVE LossInv'
    BY DEF LossInv
  <2>1. \A k \in DOMAIN checkpoint.log :
          checkpoint.log[k].batch \in Nat /\ checkpoint.log[k].batch <= Len(checkpoint.log) + restarts
    <3>1. NumBatches \in Nat /\ \A k \in DOMAIN checkpoint.log : checkpoint.log[k].batch \in 1..NumBatches
      BY VersionsAreNumbers, OffFacts
    <3>2. \A k \in DOMAIN checkpoint.log : checkpoint.log[k].batch <= Len(checkpoint.log) + restarts
      BY DEF LossInv, UpTo
    <3> QED BY <3>1, <3>2
  <2>2. UpTo(checkpoint.log, Len(checkpoint.log) + (restarts + 1))
    <3> SUFFICES ASSUME NEW k \in DOMAIN checkpoint.log
                 PROVE  checkpoint.log[k].batch <= Len(checkpoint.log) + (restarts + 1)
      BY DEF UpTo
    <3>1. checkpoint.log[k].batch \in Nat /\ checkpoint.log[k].batch <= Len(checkpoint.log) + restarts
      BY <2>1
    <3> DEFINE b == checkpoint.log[k].batch
               l == Len(checkpoint.log)
    <3>2. b \in Nat /\ l \in Nat /\ b <= l + restarts
      BY <1>2, <3>1
    <3>3. restarts \in Nat
      BY <1>2
    <3> HIDE DEF b, l
    <3>4. b <= l + (restarts + 1)
      BY ONLY <3>2, <3>3
    <3> QED BY <3>4 DEF b, l
  <2>3. /\ checkpoint.position <= Len(checkpoint.log) + (restarts + 1)
        /\ checkpoint.position <= Len(checkpoint.log) + 1 + (restarts + 1)
    <3> DEFINE p == checkpoint.position
               l == Len(checkpoint.log)
    <3>1. p <= l + 1 + restarts
      BY DEF LossInv
    <3>2. p \in Nat /\ l \in Nat /\ restarts \in Nat
      BY <1>2
    <3> HIDE DEF p, l
    <3>3. p <= l + (restarts + 1) /\ p <= l + 1 + (restarts + 1)
      BY ONLY <3>1, <3>2
    <3> QED BY ONLY <3>3 DEF p, l
  <2> QED BY <1>1, <2>2, <2>3 DEF LossInv
<1> QED BY <1>4, <1>5, <1>6, <1>7, <1>8, <1>9, <1>10, <1>11, <1>12

\* A job that has not begun.
LEMMA OffInitInv ==
    ASSUME OneStepOffAssumption
    PROVE  Init => OffInv
<1> SUFFICES ASSUME Init PROVE OffInv
  OBVIOUS
<1> USE DEF Init, Held, Training, Waiting, Ahead, Lag, None
<1>1. /\ NumBatches \in Nat \ {0} /\ Epochs \in Nat \ {0} /\ MaxRestarts \in Nat /\ MaxErrors \in Nat
      /\ total_training_steps \in Nat /\ total_training_steps > 0
  BY DEF OneStepOffAssumption, total_training_steps
<1>2. /\ Len(futures) = 0 /\ DOMAIN futures = {} /\ futures \in Seq(Future)
      /\ Len(log) = 0 /\ DOMAIN log = {} /\ log \in Seq(StepRec)
  OBVIOUS
<1>3. checkpoint.step = 0 /\ checkpoint.version = 0 /\ checkpoint.position = 0 /\ checkpoint.log = log
  OBVIOUS
<1>4. TypeOK
  <2>1. checkpoint \in [step : 0..total_training_steps, version : Nat,
                        position : 0..NumBatches, log : Seq(StepRec)]
    BY <1>1, <1>2
  <2>2. /\ global_steps \in 0..total_training_steps + 1 /\ epoch \in 1..Epochs
        /\ position \in 0..NumBatches /\ restarts \in 0..MaxRestarts /\ errors \in 0..MaxErrors
        /\ {actor_version, rollout_version} \subseteq 0..total_training_steps
    BY <1>1
  <2>3. {batch_data_future, batch} \subseteq 0..Len(futures)
    BY <1>2
  <2>4. {rows, token_level_scores} \subseteq Orders
    BY RowsAreOrdered
  <2> QED BY <1>2, <2>1, <2>2, <2>3, <2>4 DEF TypeOK
<1>5. PlaceInv /\ StepInv
  BY <1>1, <1>2, <1>3 DEF PlaceInv, StepInv
<1>6. VersionInv /\ MeasureInv /\ RowsInv
  BY <1>2, <1>3 DEF VersionInv, MeasureInv, RowsInv, OneStepBehind, MeasuresEarlier, RowsKeepScores
<1>7. ReadInv
  <2>1. Read = 0
    BY <1>1 DEF Read
  <2> QED BY <1>3, <2>1 DEF ReadInv
<1>8. OrderInv /\ LossInv
  BY <1>2, <1>3 DEF OrderInv, LossInv, Increasing, UpTo
<1> QED BY <1>4, <1>5, <1>6, <1>7, <1>8 DEF OffInv

\* Nothing happens.
LEMMA OffStutter ==
    ASSUME OffInv, UNCHANGED vars
    PROVE  OffInv'
<1>1. /\ UNCHANGED <<phase, global_steps, epoch, position, errors, futures, batch_data_future, batch>>
      /\ UNCHANGED <<rows, token_level_scores, actor_version, rollout_version, measured, log>>
      /\ UNCHANGED <<checkpoint, restarts>>
  BY DEF vars, reading, rowVars, lasting
<1> USE <1>1 DEF OffInv, Held, Training, Waiting, Ahead, Lag
<1>2. TypeOK' /\ PlaceInv' /\ StepInv'
  BY DEF TypeOK, PlaceInv, StepInv
<1>3. VersionInv' /\ MeasureInv' /\ RowsInv'
  BY DEF VersionInv, OneStepBehind, MeasureInv, MeasuresEarlier, RowsInv, RowsKeepScores
<1>4. ReadInv'
  BY DEF ReadInv, Read, HasNext
<1>5. OrderInv' /\ LossInv'
  BY DEF OrderInv, LossInv, Increasing, UpTo, Before
<1> QED BY <1>2, <1>3, <1>4, <1>5

\* Every step of the driver, of what runs behind it, and every restart keeps the invariant.
LEMMA OffStep ==
    ASSUME OneStepOffAssumption
    PROVE  OffInv /\ [Next]_vars => OffInv'
BY BeginKeeps, FirstKeeps, WaitKeeps, GenNextKeeps, BalanceKeeps, RewardKeeps, UpdateKeeps,
   FinishKeeps, RunOutKeeps, BackgroundKeeps, RestartKeeps, OffStutter DEF Next, Driver

\* What the invariant says of steps, of the order of the data and of the end of it.
LEMMA OffInvIsEnough ==
    ASSUME OneStepOffAssumption
    PROVE  OffInv => /\ OneStepBehind /\ MeasuresEarlier /\ InDataOrder /\ EndsShort
                     /\ ~(BalanceBatch /\ RewardAsync) => RowsKeepScores
<1> SUFFICES ASSUME OffInv
             PROVE  /\ OneStepBehind /\ MeasuresEarlier /\ InDataOrder /\ EndsShort
                    /\ ~(BalanceBatch /\ RewardAsync) => RowsKeepScores
  OBVIOUS
<1> USE DEF OffInv
<1>1. OneStepBehind /\ MeasuresEarlier /\ (~(BalanceBatch /\ RewardAsync) => RowsKeepScores)
  BY DEF VersionInv, MeasureInv, RowsInv
<1>2. InDataOrder
  <2>1. DOMAIN log = 1..Len(log) /\ Len(log) \in Nat /\ log \in Seq(StepRec)
    BY OffFacts
  <2>2. log # <<>> => Len(log) \in DOMAIN log
    BY <2>1
  <2> QED BY <2>2 DEF InDataOrder, OrderInv, LossInv, Increasing, UpTo
<1>3. EndsShort
  <2> SUFFICES ASSUME phase = "ended", errors = 0
               PROVE  total_training_steps - (global_steps - 1) \in 1..restarts
    BY OffFacts DEF EndsShort
  <2>1. /\ global_steps \in Nat /\ total_training_steps \in Nat /\ restarts \in Nat
    BY OffFacts
  <2>2. global_steps <= total_training_steps
    BY DEF StepInv
  <2>3. Read <= global_steps - 1 + restarts /\ ~HasNext
    BY DEF ReadInv, Held, Training, Waiting
  <2>4. total_training_steps <= global_steps - 1 + restarts
    BY <2>3, ReadFacts
  <2> QED BY ONLY <2>1, <2>2, <2>4
<1> QED BY <1>1, <1>2, <1>3

\* OneStepOffRayTrainer.fit: whatever takes how long, cannot be read or is started again when, for
\* any length of the data, number of epochs, restarts and frequencies: a batch is trained by the
\* weights that generated it or one update later, validation measures weights at most that old, in
\* one pass batches are trained in order and at most one is lost by a restart, and the loop ends
\* early only for want of data that a restart or an error lost.
THEOREM StaysOneStepBehind ==
    ASSUME OneStepOffAssumption
    PROVE  Spec => [](OneStepBehind /\ MeasuresEarlier /\ InDataOrder /\ EndsShort)
BY OffInitInv, OffStep, OffInvIsEnough, PTL DEF Spec

\* _balance_batch and the scores: unless rewards are launched with the generation and the batch is
\* balanced as well, each row is trained with the score of its own response.
THEOREM ScoresStayWithRows ==
    ASSUME OneStepOffAssumption, ~(BalanceBatch /\ RewardAsync)
    PROVE  Spec => []RowsKeepScores
<1>1. OffInv => RowsKeepScores
  BY OffInvIsEnough
<1> QED BY <1>1, OffInitInv, OffStep, PTL DEF Spec
=============================================================================
