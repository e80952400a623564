--------------------------- MODULE GkdPipelineProofs ---------------------------
(***************************************************************************)
(* For any number of batches, any save frequency and any number of         *)
(* restarts, under both schedulers: what is trained was scored for itself, *)
(* is as stale as the pipeline is deep and no more, and is trained in      *)
(* order and only once by the two-step scheduler.                          *)
(***************************************************************************)
EXTENDS GkdPipeline, FiniteSetTheorems, TLAPS

-----------------------------------------------------------------------------
(* The inductive invariant.                                                *)

\* The driver holds a result it has not trained on: from get to the end of the step.
HeldScripts ==
    {<<"teach", "sync", "gen", "yield">>, <<"teach", "gen", "yield">>,
     <<"sync", "gen", "yield">>, <<"gen", "yield">>, <<"yield">>,
     <<"teach", "yield", "get", "yield">>, <<"yield", "get", "yield">>, <<"yield", "teach">>}

Held == phase = "step" \/ script \in HeldScripts

\* The result to be trained next.
due == IF Held THEN result ELSE result + 1

\* With the script still to do, how many generations were issued and which are
\* at the teacher and with the driver.
Left(rest, issued, asked, got) ==
    script = rest /\ Len(futures) = issued /\ teacher_fut = asked /\ result = got

TwoStepBegins ==
    \/ iteration = 0 /\ Left(<<>>, 0, 0, 0)
    \/ /\ iteration = 1
       /\ \/ Left(<<"sync", "gen">>, 0, 0, 0) \/ Left(<<"gen">>, 0, 0, 0) \/ Left(<<>>, 1, 0, 0)
    \/ /\ iteration = 2
       /\ \/ Left(<<"teach", "gen">>, 1, 0, 0) \/ Left(<<"gen">>, 1, 1, 0) \/ Left(<<>>, 2, 1, 0)

TwoStepRuns ==
    LET n == iteration IN
    /\ n > 2
    /\ \/ n = 3 /\ Left(<<"get", "teach", "gen", "yield">>, 2, 1, 0)
       \/ n = 3 /\ Left(<<"teach", "gen", "yield">>, 2, 1, 1)
       \/ n > 3 /\ Left(<<"get", "teach", "sync", "gen", "yield">>, n - 1, n - 2, n - 3)
       \/ n > 3 /\ Left(<<"teach", "sync", "gen", "yield">>, n - 1, n - 2, n - 2)
       \/ n > 3 /\ Left(<<"sync", "gen", "yield">>, n - 1, n - 1, n - 2)
       \/ Left(<<"gen", "yield">>, n - 1, n - 1, n - 2)
       \/ Left(<<"yield">>, n, n - 1, n - 2)
       \/ Left(<<>>, n, n - 1, n - 2)

TwoStepDrains ==
    LET n == iteration IN
    \/ n = 1 /\ Left(<<"get", "teach", "yield", "get", "yield">>, 1, 0, 0)
    \/ /\ n > 1
       /\ \/ Left(<<"get", "teach", "yield", "get", "yield">>, n, n - 1, n - 2)
          \/ Left(<<"teach", "yield", "get", "yield">>, n, n - 1, n - 1)
          \/ Left(<<"yield", "get", "yield">>, n, n, n - 1)
          \/ Left(<<"get", "yield">>, n, n, n - 1)
          \/ Left(<<"yield">>, n, n, n)
          \/ Left(<<>>, n, n, n)

OneStepRuns ==
    LET n == iteration IN
    \/ n = 0 /\ Left(<<>>, 0, 0, 0)
    \/ /\ n = 1
       /\ \/ Left(OneStepIteration(0), 0, 0, 0)
          \/ Left(<<"gen", "teach", "sync", "gen", "get", "yield", "teach">>, 0, 0, 0)
          \/ Left(<<"teach", "sync", "gen", "get", "yield", "teach">>, 1, 0, 0)
    \/ n \in Nat \ {0, 2} /\ Left(<<"sync", "gen", "get", "yield", "teach">>, n, n, n - 1)
    \/ /\ n > 0
       /\ \/ Left(<<"gen", "get", "yield", "teach">>, n, n, n - 1)
          \/ Left(<<"get", "yield", "teach">>, n + 1, n, n - 1)
          \/ Left(<<"yield", "teach">>, n + 1, n, n)
          \/ Left(<<"teach">>, n + 1, n, n)
          \/ Left(<<>>, n + 1, n + 1, n)

OneStepDrains ==
    LET n == iteration IN
    /\ n > 0
    /\ \/ Left(<<"get", "yield">>, n + 1, n + 1, n)
       \/ Left(<<"yield">>, n + 1, n + 1, n + 1)
       \/ Left(<<>>, n + 1, n + 1, n + 1)

\* The position in the scheduler's code determines the pipeline's contents.
Position ==
    /\ fut = Len(futures)
    /\ scheduler = "two_step_off" /\ ~tail => TwoStepBegins \/ TwoStepRuns
    /\ scheduler = "two_step_off" /\ tail => TwoStepDrains
    /\ scheduler = "one_step_off" /\ ~tail => OneStepRuns
    /\ scheduler = "one_step_off" /\ tail => OneStepDrains
    /\ phase = "step" => script \in {<<>>, <<"teach">>, <<"get", "yield">>} /\ result # 0
    /\ tail => consumed = NumBatches
    /\ iteration <= consumed
    /\ iteration = 0 => consumed < NumBatches

\* A held result has its answer, and the buffer holds its scores.
HeldIsScored ==
    Held =>
        /\ result # Unbound
        /\ futures[result].teacher \in {"ok", "failed"}
        /\ futures[result].teacher = "ok" => buffer = result

\* The n-th generation of a process that resumed at consumed - iteration: the
\* one-step scheduler generates twice for its first batch.
BatchOf(k) ==
    consumed - iteration + (IF scheduler = "two_step_off" \/ k = 1 THEN k ELSE k - 1)

BatchesInOrder == \A k \in DOMAIN futures : futures[k].batch = BatchOf(k)

\* The weights of a generation have seen what was trained when it was issued.
Lead(k) == IF k > 3 THEN k - 2 ELSE 1

GeneratedFresh ==
    /\ rollout_version <= actor_version
    /\ \A k \in DOMAIN futures :
         /\ futures[k].version <= actor_version
         /\ actor_version + Lead(k) <= futures[k].version + due

\* No synchronisation comes before the next generation.
Synced ==
    \/ iteration = 1 /\ script \notin {<<"sync", "gen">>, OneStepIteration(0)}
    \/ iteration = 2 /\ scheduler = "two_step_off"
    \/ script \in {<<"gen", "get", "yield", "teach">>, <<"gen", "yield">>,
                   <<"teach", "gen", "yield">>, <<"get", "teach", "gen", "yield">>}

NextIsFresh ==
    Synced => actor_version + Lead(Len(futures) + 1) <= rollout_version + due

\* Steps follow the data, and updates the steps.
StepsFollowData ==
    /\ phase # "returned" => global_steps <= NumBatches
    /\ phase # "returned" => global_steps <= consumed - iteration + due
    /\ restarts = 0 => global_steps = due /\ consumed = iteration
    /\ phase = "raised" => restarts > 0
    /\ phase = "returned" => global_steps = NumBatches + 1
    /\ actor_version < global_steps
    /\ checkpoint.version <= checkpoint.step /\ checkpoint.step <= checkpoint.consumed

\* A checkpoint holds no staler steps.
SavedIsFresh ==
    \A k \in DOMAIN checkpoint.log :
        checkpoint.log[k].trained_at - checkpoint.log[k].generated_by \in 0..2

InOrder(history, bound) ==
    /\ \A k \in DOMAIN history : history[k].batch <= bound
    /\ \A j, k \in DOMAIN history : j < k => history[j].batch < history[k].batch

\* What the two-step scheduler trained lies before what it holds, also in a checkpoint.
LogInOrder ==
    scheduler = "two_step_off" =>
        /\ InOrder(log, consumed - iteration + due - 1)
        /\ InOrder(checkpoint.log, checkpoint.consumed)

LogIsCovered ==
    scheduler = "two_step_off" /\ restarts = 0 => Trained \cup skipped = 1..due - 1

\* What a process never comes back to was in flight when an earlier one ended.
depth == IF scheduler = "two_step_off" THEN 2 ELSE 1

Over(history, dropped) == {history[k].batch : k \in DOMAIN history} \cup dropped

Missed(position, over) == {b \in 1..position : b \notin over}

LossBounded ==
    LET over == Over(log, skipped)
        begun == consumed - iteration
        saved == Over(checkpoint.log, checkpoint.skipped)
    IN  /\ over \subseteq 1..BatchOf(due)
        /\ begun + 1..BatchOf(due) - 1 \subseteq over
        /\ Cardinality(Missed(begun, over)) <= depth * restarts
        /\ saved \subseteq 1..checkpoint.consumed
        /\ Cardinality(Missed(checkpoint.consumed, saved)) <= depth * (restarts + 1)

LearnerSound ==
    /\ StalenessBounded /\ SavedIsFresh /\ StepsFollowData
    /\ LogInOrder /\ LogIsCovered /\ LossBounded

IInv ==
    /\ TypeOK /\ Position /\ HeldIsScored /\ BatchesInOrder
    /\ GeneratedFresh /\ NextIsFresh /\ StalenessBounded /\ SavedIsFresh
    /\ StepsFollowData /\ LogInOrder /\ LogIsCovered /\ LossBounded

-----------------------------------------------------------------------------
\* The fit loop starts with nothing in flight.
LEMMA InitIInv == Init => IInv
<1> SUFFICES ASSUME Init PROVE IInv
  OBVIOUS
<1> USE NumBatchesAssumption, MaxRestartsAssumption, SchedulersAssumption
<1>1. TypeOK
  <2>1. script \in Seq(Operation) /\ futures \in Seq(FutureRec) /\ log \in Seq(StepRec)
    BY DEF Init
  <2>2. checkpoint \in [step : 0..NumBatches, version : 0..NumBatches, consumed : 0..NumBatches,
                       log : Seq(StepRec), skipped : SUBSET Batches]
    <3>1. <<>> \in Seq(StepRec) /\ {} \in SUBSET Batches /\ 0 \in 0..NumBatches
      OBVIOUS
    <3> QED BY <3>1, Zenon DEF Init
  <2>6. scheduler \in Schedulers /\ tail \in BOOLEAN
    BY DEF Init
  <2>3. /\ phase \in {"scheduler", "step", "returned", "raised"} /\ iteration \in Nat
        /\ consumed \in 0..NumBatches /\ global_steps \in 1..NumBatches + 1
        /\ actor_version \in 0..NumBatches /\ rollout_version \in 0..NumBatches
        /\ restarts \in 0..MaxRestarts
    BY DEF Init
  <2>5. skipped \subseteq Batches
    BY DEF Init
  <2>4. {fut, teacher_fut, result, buffer} \subseteq Unbound..Len(futures)
    BY DEF Init, Unbound
  <2> QED BY <2>1, <2>2, <2>3, <2>4, <2>5, <2>6 DEF TypeOK
<1>2. Position
  BY DEF Init, Position, TwoStepBegins, OneStepRuns, Left, Unbound
<1>3. ~Held /\ due = 1
  BY DEF Init, Held, due, HeldScripts, Unbound
<1>4. /\ HeldIsScored /\ BatchesInOrder /\ StalenessBounded /\ SavedIsFresh
  BY <1>3 DEF Init, HeldIsScored, BatchesInOrder, StalenessBounded, SavedIsFresh
<1>5. /\ GeneratedFresh /\ NextIsFresh
  BY <1>3 DEF Init, GeneratedFresh, NextIsFresh, Synced
<1>6. /\ StepsFollowData /\ LogInOrder /\ LogIsCovered
  <2>1. StepsFollowData
    BY <1>3, NumBatchesAssumption DEF Init, StepsFollowData
  <2>2. LogInOrder
    BY <1>3 DEF Init, LogInOrder, InOrder
  <2>3. LogIsCovered
    BY <1>3 DEF Init, LogIsCovered, Trained
  <2> QED BY <2>1, <2>2, <2>3
<1>7. LossBounded
  <2>1. \A k \in Nat : k = 0 => {b \in 1..k : b \notin {}} = {}
    OBVIOUS
  <2> QED BY <1>3, <2>1, FS_EmptySet DEF Init, LossBounded, Over, Missed, BatchOf, depth
<1> QED BY <1>1, <1>2, <1>4, <1>5, <1>6, <1>7 DEF IInv

\* The eight operations of the one-step scheduler's first iteration.
(* What the driver's operations do to the position.                        *)

\* The types the arguments below start from.
LEMMA Basics ==
  ASSUME IInv
  PROVE  /\ iteration \in Nat /\ Len(futures) \in Nat /\ consumed \in Nat
         /\ fut = Len(futures)
         /\ result \in Nat /\ teacher_fut \in Nat /\ tail \in BOOLEAN
         /\ scheduler \in {"one_step_off", "two_step_off"}
  BY SchedulersAssumption DEF IInv, TypeOK, Position, Unbound

\* The ranges of the counters.
LEMMA Numbers ==
  ASSUME IInv
  PROVE  /\ actor_version \in Nat /\ rollout_version \in Nat /\ due \in Nat
         /\ global_steps \in Nat /\ consumed \in Nat /\ consumed <= NumBatches
         /\ NumBatches \in Nat /\ restarts \in Nat
         /\ futures \in Seq(FutureRec)
         /\ result \in 0..Len(futures) /\ DOMAIN futures = 1..Len(futures)
         /\ \A k \in DOMAIN futures : futures[k].version \in Nat /\ futures[k].batch \in Nat
<1>1. futures \in Seq(FutureRec) /\ DOMAIN futures = 1..Len(futures)
  BY DEF IInv, TypeOK
<1>2. \A k \in DOMAIN futures : futures[k] \in FutureRec
  BY <1>1
<1>3. /\ actor_version \in Nat /\ rollout_version \in Nat /\ NumBatches \in Nat
      /\ global_steps \in Nat /\ consumed \in Nat /\ consumed <= NumBatches /\ restarts \in Nat
      /\ result \in 0..Len(futures)
  BY NumBatchesAssumption, MaxRestartsAssumption DEF IInv, TypeOK, Unbound
<1>4. due \in Nat
  BY Basics DEF due
<1> QED BY <1>1, <1>2, <1>3, <1>4 DEF FutureRec, Batches

\* A synchronization brings the weights that the next generation is due.
LEMMA SyncMoves ==
  ASSUME IInv, Sync
  PROVE  /\ Position' /\ Held' = Held /\ due' = due
         /\ Lead(Len(futures) + 1) <= due
<1> DEFINE n == iteration
<1>1. UNCHANGED <<scheduler, phase, iteration, tail, futures, fut, teacher_fut, result, consumed>>
  BY DEF Sync
<1>2. /\ phase = "scheduler" /\ script # <<>> /\ Head(script) = "sync"
      /\ script' = Tail(script) /\ Position
  BY DEF Sync, Does, IInv
<1>3. \/ scheduler = "two_step_off" /\ ~tail /\ n = 1 /\ Left(<<"sync", "gen">>, 0, 0, 0)
      \/ /\ scheduler = "two_step_off" /\ ~tail /\ n > 3
         /\ Left(<<"sync", "gen", "yield">>, n - 1, n - 1, n - 2)
      \/ scheduler = "one_step_off" /\ ~tail /\ n = 1 /\ Left(OneStepIteration(0), 0, 0, 0)
      \/ /\ scheduler = "one_step_off" /\ ~tail /\ n \in Nat \ {0, 2}
         /\ Left(<<"sync", "gen", "get", "yield", "teach">>, n, n, n - 1)
  BY <1>2, Basics
  DEF Position, TwoStepBegins, TwoStepRuns, TwoStepDrains, OneStepRuns, OneStepDrains, Left
<1> USE <1>1, <1>2, Basics DEF Position, Left, Held, HeldScripts, due, Lead
<1>4. CASE scheduler = "two_step_off" /\ ~tail /\ n = 1 /\ Left(<<"sync", "gen">>, 0, 0, 0)
  <2>1. script' = <<"gen">>
    BY <1>4
  <2> QED BY <1>4, <2>1 DEF TwoStepBegins
<1>5. CASE /\ scheduler = "two_step_off" /\ ~tail /\ n > 3
           /\ Left(<<"sync", "gen", "yield">>, n - 1, n - 1, n - 2)
  <2>1. script' = <<"gen", "yield">>
    BY <1>5
  <2> QED BY <1>5, <2>1 DEF TwoStepRuns
<1>6. CASE scheduler = "one_step_off" /\ ~tail /\ n = 1 /\ Left(OneStepIteration(0), 0, 0, 0)
  <2>1. script' = <<"gen", "teach", "sync", "gen", "get", "yield", "teach">>
    BY <1>6 DEF OneStepIteration
  <2> QED BY <1>6, <2>1 DEF OneStepRuns, OneStepIteration
<1>7. CASE /\ scheduler = "one_step_off" /\ ~tail /\ n \in Nat \ {0, 2}
           /\ Left(<<"sync", "gen", "get", "yield", "teach">>, n, n, n - 1)
  <2>1. script' = <<"gen", "get", "yield", "teach">>
    BY <1>7
  <2> QED BY <1>7, <2>1 DEF OneStepRuns
<1> QED BY <1>3, <1>4, <1>5, <1>6, <1>7

\* A generation is started right after a synchronization, for the batch just taken.
LEMMA GenMoves ==
  ASSUME IInv, Gen
  PROVE  /\ Position' /\ Held' = Held /\ due' = due
         /\ Synced /\ iteration > 0
         /\ consumed = BatchOf(Len(futures) + 1)
         /\ Synced' => Len(futures) < 2
<1> DEFINE n == iteration
<1>1. /\ UNCHANGED <<scheduler, phase, iteration, tail, teacher_fut, result, consumed>>
      /\ Len(futures') = Len(futures) + 1 /\ fut' = Len(futures) + 1
  BY DEF Gen, IInv, TypeOK
<1>2. /\ phase = "scheduler" /\ script # <<>> /\ Head(script) = "gen"
      /\ script' = Tail(script) /\ Position
  BY DEF Gen, Does, IInv
<1>3. \/ scheduler = "two_step_off" /\ ~tail /\ n = 1 /\ Left(<<"gen">>, 0, 0, 0)
      \/ scheduler = "two_step_off" /\ ~tail /\ n = 2 /\ Left(<<"gen">>, 1, 1, 0)
      \/ /\ scheduler = "two_step_off" /\ ~tail /\ n > 2
         /\ Left(<<"gen", "yield">>, n - 1, n - 1, n - 2)
      \/ /\ scheduler = "one_step_off" /\ ~tail /\ n = 1
         /\ Left(<<"gen", "teach", "sync", "gen", "get", "yield", "teach">>, 0, 0, 0)
      \/ /\ scheduler = "one_step_off" /\ ~tail /\ n > 0
         /\ Left(<<"gen", "get", "yield", "teach">>, n, n, n - 1)
  BY <1>2, Basics
  DEF Position, TwoStepBegins, TwoStepRuns, TwoStepDrains, OneStepRuns, OneStepDrains, Left,
      OneStepIteration
<1> USE <1>1, <1>2, Basics DEF Position, Left, Held, HeldScripts, due, Synced, BatchOf
<1>4. CASE scheduler = "two_step_off" /\ ~tail /\ n = 1 /\ Left(<<"gen">>, 0, 0, 0)
  <2>1. script' = <<>>
    BY <1>4
  <2> QED BY <1>4, <2>1 DEF TwoStepBegins, OneStepIteration
<1>5. CASE scheduler = "two_step_off" /\ ~tail /\ n = 2 /\ Left(<<"gen">>, 1, 1, 0)
  <2>1. script' = <<>>
    BY <1>5
  <2> QED BY <1>5, <2>1 DEF TwoStepBegins
<1>6. CASE /\ scheduler = "two_step_off" /\ ~tail /\ n > 2
           /\ Left(<<"gen", "yield">>, n - 1, n - 1, n - 2)
  <2>1. script' = <<"yield">>
    BY <1>6
  <2> QED BY <1>6, <2>1 DEF TwoStepRuns
<1>7. CASE /\ scheduler = "one_step_off" /\ ~tail /\ n = 1
           /\ Left(<<"gen", "teach", "sync", "gen", "get", "yield", "teach">>, 0, 0, 0)
  <2>1. script' = <<"teach", "sync", "gen", "get", "yield", "teach">>
    BY <1>7
  <2> QED BY <1>7, <2>1 DEF OneStepRuns, OneStepIteration
<1>8. CASE /\ scheduler = "one_step_off" /\ ~tail /\ n > 0
           /\ Left(<<"gen", "get", "yield", "teach">>, n, n, n - 1)
  <2>1. script' = <<"get", "yield", "teach">>
    BY <1>8
  <2> QED BY <1>8, <2>1 DEF OneStepRuns
<1> QED BY <1>3, <1>4, <1>5, <1>6, <1>7, <1>8

\* The teacher is asked for the future the scheduler holds.
LEMMA TeachMoves ==
  ASSUME IInv, Teach
  PROVE  /\ Position' /\ Held' = Held /\ due' = due
         /\ Held => fut # result
         /\ fut # Unbound
         /\ Synced' => Synced
<1> DEFINE n == iteration
<1>1. /\ UNCHANGED <<scheduler, phase, iteration, tail, result, consumed, fut>>
      /\ Len(futures') = Len(futures) /\ teacher_fut' = fut
  BY DEF Teach, IInv, TypeOK
<1>2. /\ phase = "scheduler" /\ script # <<>> /\ Head(script) = "teach"
      /\ script' = Tail(script) /\ Position
  BY DEF Teach, Does, IInv
<1>3. \/ scheduler = "two_step_off" /\ ~tail /\ n = 2 /\ Left(<<"teach", "gen">>, 1, 0, 0)
      \/ /\ scheduler = "two_step_off" /\ ~tail /\ n = 3
         /\ Left(<<"teach", "gen", "yield">>, 2, 1, 1)
      \/ /\ scheduler = "two_step_off" /\ ~tail /\ n > 3
         /\ Left(<<"teach", "sync", "gen", "yield">>, n - 1, n - 2, n - 2)
      \/ /\ scheduler = "two_step_off" /\ tail /\ n > 1
         /\ Left(<<"teach", "yield", "get", "yield">>, n, n - 1, n - 1)
      \/ /\ scheduler = "one_step_off" /\ ~tail /\ n = 1
         /\ Left(<<"teach", "sync", "gen", "get", "yield", "teach">>, 1, 0, 0)
      \/ scheduler = "one_step_off" /\ ~tail /\ n > 0 /\ Left(<<"teach">>, n + 1, n, n)
  BY <1>1, <1>2, Basics
  DEF Position, TwoStepBegins, TwoStepRuns, TwoStepDrains, OneStepRuns, OneStepDrains, Left,
      OneStepIteration
<1> USE <1>1, <1>2, Basics DEF Position, Left, Held, HeldScripts, due, Synced, OneStepIteration, Unbound
<1>4. CASE scheduler = "two_step_off" /\ ~tail /\ n = 2 /\ Left(<<"teach", "gen">>, 1, 0, 0)
  <2>1. script' = <<"gen">>
    BY <1>4
  <2> QED BY <1>4, <2>1 DEF TwoStepBegins
<1>5. CASE /\ scheduler = "two_step_off" /\ ~tail /\ n = 3
           /\ Left(<<"teach", "gen", "yield">>, 2, 1, 1)
  <2>1. script' = <<"gen", "yield">>
    BY <1>5
  <2> QED BY <1>5, <2>1 DEF TwoStepRuns
<1>6. CASE /\ scheduler = "two_step_off" /\ ~tail /\ n > 3
           /\ Left(<<"teach", "sync", "gen", "yield">>, n - 1, n - 2, n - 2)
  <2>1. script' = <<"sync", "gen", "yield">>
    BY <1>6
  <2> QED BY <1>6, <2>1 DEF TwoStepRuns
<1>7. CASE /\ scheduler = "two_step_off" /\ tail /\ n > 1
           /\ Left(<<"teach", "yield", "get", "yield">>, n, n - 1, n - 1)
  <2>1. script' = <<"yield", "get", "yield">>
    BY <1>7
  <2> QED BY <1>7, <2>1 DEF TwoStepDrains
<1>8. CASE /\ scheduler = "one_step_off" /\ ~tail /\ n = 1
           /\ Left(<<"teach", "sync", "gen", "get", "yield", "teach">>, 1, 0, 0)
  <2>1. script' = <<"sync", "gen", "get", "yield", "teach">>
    BY <1>8
  <2> QED BY <1>8, <2>1 DEF OneStepRuns
<1>9. CASE scheduler = "one_step_off" /\ ~tail /\ n > 0 /\ Left(<<"teach">>, n + 1, n, n)
  <2>1. script' = <<>>
    BY <1>9
  <2> QED BY <1>9, <2>1 DEF OneStepRuns
<1> QED BY <1>3, <1>4, <1>5, <1>6, <1>7, <1>8, <1>9

\* The result the scheduler waits for becomes the one it holds.
LEMMA GetMoves ==
  ASSUME IInv, Get
  PROVE  /\ Position' /\ ~Held /\ Held' /\ due' = due
         /\ Synced' => Synced
<1> DEFINE n == iteration
<1>1. UNCHANGED <<scheduler, phase, iteration, tail, futures, fut, teacher_fut, consumed>>
      /\ result' = teacher_fut /\ teacher_fut # 0
  BY DEF Get, Unbound
<1>2. /\ phase = "scheduler" /\ script # <<>> /\ Head(script) = "get"
      /\ script' = Tail(script) /\ Position
  BY DEF Get, Does, IInv
<1>3. \/ /\ scheduler = "two_step_off" /\ ~tail /\ n = 3
         /\ Left(<<"get", "teach", "gen", "yield">>, 2, 1, 0)
      \/ /\ scheduler = "two_step_off" /\ ~tail /\ n > 3
         /\ Left(<<"get", "teach", "sync", "gen", "yield">>, n - 1, n - 2, n - 3)
      \/ /\ scheduler = "two_step_off" /\ tail /\ n > 1
         /\ Left(<<"get", "teach", "yield", "get", "yield">>, n, n - 1, n - 2)
      \/ /\ scheduler = "two_step_off" /\ tail /\ n > 1
         /\ Left(<<"get", "yield">>, n, n, n - 1)
      \/ /\ scheduler = "one_step_off" /\ ~tail /\ n > 0
         /\ Left(<<"get", "yield", "teach">>, n + 1, n, n - 1)
      \/ /\ scheduler = "one_step_off" /\ tail /\ n > 0
         /\ Left(<<"get", "yield">>, n + 1, n + 1, n)
  BY <1>1, <1>2, Basics
  DEF Position, TwoStepBegins, TwoStepRuns, TwoStepDrains, OneStepRuns, OneStepDrains, Left,
      OneStepIteration
<1> USE <1>1, <1>2, Basics DEF Position, Left, Held, HeldScripts, due, Synced, OneStepIteration
<1>4. CASE /\ scheduler = "two_step_off" /\ ~tail /\ n = 3
           /\ Left(<<"get", "teach", "gen", "yield">>, 2, 1, 0)
  <2>1. script' = <<"teach", "gen", "yield">>
    BY <1>4
  <2> QED BY <1>4, <2>1 DEF TwoStepRuns
<1>5. CASE /\ scheduler = "two_step_off" /\ ~tail /\ n > 3
           /\ Left(<<"get", "teach", "sync", "gen", "yield">>, n - 1, n - 2, n - 3)
  <2>1. script' = <<"teach", "sync", "gen", "yield">>
    BY <1>5
  <2> QED BY <1>5, <2>1 DEF TwoStepRuns
<1>6. CASE /\ scheduler = "two_step_off" /\ tail /\ n > 1
           /\ Left(<<"get", "teach", "yield", "get", "yield">>, n, n - 1, n - 2)
  <2>1. script' = <<"teach", "yield", "get", "yield">>
    BY <1>6
  <2> QED BY <1>6, <2>1 DEF TwoStepDrains
<1>7. CASE /\ scheduler = "two_step_off" /\ tail /\ n > 1
           /\ Left(<<"get", "yield">>, n, n, n - 1)
  <2>1. script' = <<"yield">>
    BY <1>7
  <2> QED BY <1>7, <2>1 DEF TwoStepDrains
<1>8. CASE /\ scheduler = "one_step_off" /\ ~tail /\ n > 0
           /\ Left(<<"get", "yield", "teach">>, n + 1, n, n - 1)
  <2>1. script' = <<"yield", "teach">>
    BY <1>8
  <2> QED BY <1>8, <2>1 DEF OneStepRuns
<1>9. CASE /\ scheduler = "one_step_off" /\ tail /\ n > 0
           /\ Left(<<"get", "yield">>, n + 1, n + 1, n)
  <2>1. script' = <<"yield">>
    BY <1>9
  <2> QED BY <1>9, <2>1 DEF OneStepDrains
<1> QED BY <1>3, <1>4, <1>5, <1>6, <1>7, <1>8, <1>9

\* A yield hands that result to the loop.
LEMMA YieldMoves ==
  ASSUME IInv, Yield
  PROVE  /\ Position' /\ Held /\ Held' /\ due' = due
         /\ Synced' => Synced
<1> DEFINE n == iteration
<1>1. UNCHANGED <<scheduler, iteration, tail, futures, fut, teacher_fut, result, consumed>>
      /\ phase' = "step"
  BY DEF Yield
<1>2. /\ phase = "scheduler" /\ script # <<>> /\ Head(script) = "yield"
      /\ script' = Tail(script) /\ Position
  BY DEF Yield, Does, IInv
<1>3. \/ scheduler = "two_step_off" /\ ~tail /\ n > 2 /\ Left(<<"yield">>, n, n - 1, n - 2)
      \/ /\ scheduler = "two_step_off" /\ tail /\ n > 1
         /\ Left(<<"yield", "get", "yield">>, n, n, n - 1)
      \/ scheduler = "two_step_off" /\ tail /\ n > 1 /\ Left(<<"yield">>, n, n, n)
      \/ /\ scheduler = "one_step_off" /\ ~tail /\ n > 0
         /\ Left(<<"yield", "teach">>, n + 1, n, n)
      \/ /\ scheduler = "one_step_off" /\ tail /\ n > 0
         /\ Left(<<"yield">>, n + 1, n + 1, n + 1)
  BY <1>1, <1>2, Basics
  DEF Position, TwoStepBegins, TwoStepRuns, TwoStepDrains, OneStepRuns, OneStepDrains, Left,
      OneStepIteration
<1> USE <1>1, <1>2, Basics DEF Position, Left, Held, HeldScripts, due, Synced, OneStepIteration
<1>4. CASE /\ scheduler = "two_step_off" /\ ~tail /\ n > 2
           /\ Left(<<"yield">>, n, n - 1, n - 2)
  <2>1. script' = <<>>
    BY <1>4
  <2> QED BY <1>4, <2>1 DEF TwoStepRuns
<1>5. CASE /\ scheduler = "two_step_off" /\ tail /\ n > 1
           /\ Left(<<"yield", "get", "yield">>, n, n, n - 1)
  <2>1. script' = <<"get", "yield">>
    BY <1>5
  <2> QED BY <1>5, <2>1 DEF TwoStepDrains
<1>6. CASE scheduler = "two_step_off" /\ tail /\ n > 1 /\ Left(<<"yield">>, n, n, n)
  <2>1. script' = <<>>
    BY <1>6
  <2> QED BY <1>6, <2>1 DEF TwoStepDrains
<1>7. CASE /\ scheduler = "one_step_off" /\ ~tail /\ n > 0
           /\ Left(<<"yield", "teach">>, n + 1, n, n)
  <2>1. script' = <<"teach">>
    BY <1>7
  <2> QED BY <1>7, <2>1 DEF OneStepRuns
<1>8. CASE /\ scheduler = "one_step_off" /\ tail /\ n > 0
           /\ Left(<<"yield">>, n + 1, n + 1, n + 1)
  <2>1. script' = <<>>
    BY <1>8
  <2> QED BY <1>8, <2>1 DEF OneStepDrains
<1> QED BY <1>3, <1>4, <1>5, <1>6, <1>7, <1>8

\* Between two iterations.
Between ==
    LET n == iteration IN
    \/ scheduler = "two_step_off" /\ n = 0 /\ Left(<<>>, 0, 0, 0)
    \/ scheduler = "two_step_off" /\ n = 1 /\ Left(<<>>, 1, 0, 0)
    \/ scheduler = "two_step_off" /\ n = 2 /\ Left(<<>>, 2, 1, 0)
    \/ scheduler = "two_step_off" /\ n > 2 /\ Left(<<>>, n, n - 1, n - 2)
    \/ scheduler = "one_step_off" /\ n = 0 /\ Left(<<>>, 0, 0, 0)
    \/ scheduler = "one_step_off" /\ n = 1 /\ Left(<<>>, 2, 2, 1)
    \/ scheduler = "one_step_off" /\ n > 1 /\ Left(<<>>, n + 1, n + 1, n)

\* At an empty script the scheduler stands between two iterations.
LEMMA BetweenIterations ==
  ASSUME IInv, script = <<>>, ~tail
  PROVE  Between
BY Basics DEF IInv, Between, Position, TwoStepBegins, TwoStepRuns, OneStepRuns, Left, OneStepIteration

\* Every iteration is a script of operations.
LEMMA IterationType ==
  /\ Final \in Seq(Operation)
  /\ \A i \in Nat : Iteration(i) \in Seq(Operation)
<1>1. OneStepFinal \in Seq(Operation) /\ TwoStepFinal \in Seq(Operation)
  BY DEF OneStepFinal, TwoStepFinal, Operation
<1>2. /\ OneStepIteration(0) \in Seq(Operation) /\ OneStepIteration(1) \in Seq(Operation)
      /\ \A i \in Nat \ {0, 1} : OneStepIteration(i) \in Seq(Operation)
  <2>1. OneStepIteration(0) \in Seq(Operation)
    BY DEF OneStepIteration, Operation
  <2>2. OneStepIteration(1) \in Seq(Operation)
    BY DEF OneStepIteration, Operation
  <2>3. \A i \in Nat \ {0, 1} : OneStepIteration(i) \in Seq(Operation)
    <3>1. <<"sync", "gen", "get", "yield", "teach">> \in Seq(Operation)
      BY DEF Operation
    <3>2. \A i \in Nat \ {0, 1} :
            OneStepIteration(i) = <<"sync", "gen", "get", "yield", "teach">>
      BY DEF OneStepIteration
    <3> QED BY <3>1, <3>2
  <2> QED BY <2>1, <2>2, <2>3
<1>3. /\ TwoStepIteration(0) \in Seq(Operation) /\ TwoStepIteration(1) \in Seq(Operation)
      /\ TwoStepIteration(2) \in Seq(Operation)
      /\ \A i \in Nat \ {0, 1, 2} : TwoStepIteration(i) \in Seq(Operation)
  <2>1. TwoStepIteration(0) \in Seq(Operation)
    BY DEF TwoStepIteration, Operation
  <2>2. TwoStepIteration(1) \in Seq(Operation)
    BY DEF TwoStepIteration, Operation
  <2>3. TwoStepIteration(2) \in Seq(Operation)
    BY DEF TwoStepIteration, Operation
  <2>4. \A i \in Nat \ {0, 1, 2} : TwoStepIteration(i) \in Seq(Operation)
    <3>1. <<"get", "teach", "sync", "gen", "yield">> \in Seq(Operation)
      BY DEF Operation
    <3>2. \A i \in Nat \ {0, 1, 2} :
            TwoStepIteration(i) = <<"get", "teach", "sync", "gen", "yield">>
      BY DEF TwoStepIteration
    <3> QED BY <3>1, <3>2
  <2> QED BY <2>1, <2>2, <2>3, <2>4
<1>4. /\ \A i \in Nat : OneStepIteration(i) \in Seq(Operation)
      /\ \A i \in Nat : TwoStepIteration(i) \in Seq(Operation)
  BY <1>2, <1>3
<1> QED BY <1>1, <1>4 DEF Iteration, Final

\* An iteration with a batch starts the script of its scheduler.
LEMMA BatchMoves ==
  ASSUME IInv, NextIteration, consumed < NumBatches
  PROVE  /\ Position' /\ ~Held /\ ~Held' /\ due' = due
         /\ Synced' => Synced
<1> DEFINE n == iteration
<1>1. UNCHANGED <<scheduler, phase, futures, fut, teacher_fut, result, tail>>
  BY DEF NextIteration
<1>2. /\ phase = "scheduler" /\ script = <<>> /\ ~tail /\ Position
      /\ consumed' = consumed + 1 /\ iteration' = n + 1 /\ script' = Iteration(n)
  BY DEF NextIteration, IInv
<1>3. Between
  BY <1>2, BetweenIterations
<1> USE <1>1, <1>2, Basics DEF Position, Left, Held, HeldScripts, due, Synced
<1>4. CASE scheduler = "two_step_off" /\ n = 0 /\ Left(<<>>, 0, 0, 0)
  <2>1. script' = <<"sync", "gen">>
    BY <1>4 DEF Iteration, OneStepIteration, TwoStepIteration
  <2>2. Position'
    BY <1>4, <2>1 DEF TwoStepBegins
  <2>3. /\ ~Held /\ ~Held' /\ due' = due
    <3>1. script' \notin HeldScripts
      BY ONLY <2>1 DEF HeldScripts
    <3> QED BY <1>4, <3>1
  <2>4. Synced' => Synced
    BY <1>4, <2>1 DEF OneStepIteration
  <2> QED BY <2>2, <2>3, <2>4
<1>5. CASE scheduler = "two_step_off" /\ n = 1 /\ Left(<<>>, 1, 0, 0)
  <2>1. script' = <<"teach", "gen">>
    BY <1>5 DEF Iteration, OneStepIteration, TwoStepIteration
  <2>2. Position'
    BY <1>5, <2>1 DEF TwoStepBegins
  <2>3. /\ ~Held /\ ~Held' /\ due' = due
    <3>1. script' \notin HeldScripts
      BY ONLY <2>1 DEF HeldScripts
    <3> QED BY <1>5, <3>1
  <2>4. Synced' => Synced
    BY <1>5, <2>1 DEF OneStepIteration
  <2> QED BY <2>2, <2>3, <2>4
<1>6. CASE scheduler = "two_step_off" /\ n = 2 /\ Left(<<>>, 2, 1, 0)
  <2>1. script' = <<"get", "teach", "gen", "yield">>
    BY <1>6 DEF Iteration, OneStepIteration, TwoStepIteration
  <2> QED BY <1>6, <2>1 DEF TwoStepRuns, OneStepIteration
<1>7. CASE scheduler = "two_step_off" /\ n > 2 /\ Left(<<>>, n, n - 1, n - 2)
  <2>1. script' = <<"get", "teach", "sync", "gen", "yield">>
    BY <1>7 DEF Iteration, OneStepIteration, TwoStepIteration
  <2> QED BY <1>7, <2>1 DEF TwoStepRuns, OneStepIteration
<1>8. CASE scheduler = "one_step_off" /\ n = 0 /\ Left(<<>>, 0, 0, 0)
  <2>1. script' = OneStepIteration(0)
    BY <1>8 DEF Iteration, OneStepIteration, TwoStepIteration
  <2> QED BY <1>8, <2>1 DEF OneStepRuns, OneStepIteration
<1>9. CASE scheduler = "one_step_off" /\ n = 1 /\ Left(<<>>, 2, 2, 1)
  <2>1. script' = <<"gen", "get", "yield", "teach">>
    BY <1>9 DEF Iteration, OneStepIteration, TwoStepIteration
  <2> QED BY <1>9, <2>1 DEF OneStepRuns, OneStepIteration
<1>10. CASE scheduler = "one_step_off" /\ n > 1 /\ Left(<<>>, n + 1, n + 1, n)
  <2>1. script' = <<"sync", "gen", "get", "yield", "teach">>
    BY <1>10 DEF Iteration, OneStepIteration, TwoStepIteration
  <2> QED BY <1>10, <2>1 DEF OneStepRuns, OneStepIteration
<1> QED BY <1>3, <1>4, <1>5, <1>6, <1>7, <1>8, <1>9, <1>10 DEF Between

\* Without one the last script drains what is in flight.
LEMMA LastMoves ==
  ASSUME IInv, NextIteration, ~(consumed < NumBatches)
  PROVE  /\ Position' /\ ~Held /\ ~Held' /\ due' = due
         /\ Synced' => Synced
<1> DEFINE n == iteration
<1>1. UNCHANGED <<scheduler, phase, futures, fut, teacher_fut, result, consumed, iteration>>
  BY DEF NextIteration
<1>2. /\ phase = "scheduler" /\ script = <<>> /\ ~tail /\ Position
      /\ consumed = NumBatches /\ tail' /\ script' = Final
  BY NumBatchesAssumption DEF NextIteration, IInv, TypeOK
<1>3. Between /\ n # 0
  BY <1>2, BetweenIterations DEF Position
<1> USE <1>1, <1>2, Basics DEF Position, Left, Held, HeldScripts, due, Synced
<1>4. CASE scheduler = "two_step_off"
  <2>1. script' = <<"get", "teach", "yield", "get", "yield">>
    BY <1>4 DEF Final, TwoStepFinal
  <2> QED BY <1>3, <1>4, <2>1 DEF Between, TwoStepDrains, OneStepIteration
<1>5. CASE scheduler = "one_step_off"
  <2>1. script' = <<"get", "yield">>
    BY <1>5 DEF Final, OneStepFinal
  <2> QED BY <1>3, <1>5, <2>1 DEF Between, OneStepDrains, OneStepIteration
<1> QED BY <1>4, <1>5

\* A step trains on the result that is due; the position does not change.
LEMMA StepMoves ==
  ASSUME IInv, phase = "step", EndStep, result' = result
  PROVE  /\ Position' /\ Held /\ ~Held' /\ due' = due + 1 /\ due = result
         /\ result \in DOMAIN futures
         /\ Synced' <=> Synced
         /\ scheduler = "two_step_off" => result <= iteration
         /\ result <= iteration \/ consumed = NumBatches
         /\ consumed - BatchOf(result) \in 0..depth
<1>1. /\ UNCHANGED <<scheduler, script, iteration, tail, futures, fut, teacher_fut, result, consumed>>
      /\ phase' # "step"
  BY DEF EndStep, pipelineVars
<1>2. /\ Position /\ script \in {<<>>, <<"teach">>, <<"get", "yield">>} /\ result # 0
      /\ result <= Len(futures)
  BY DEF IInv, Position, TypeOK, Unbound
<1>3. script \notin HeldScripts
  BY <1>2 DEF HeldScripts
<1>4. /\ scheduler = "two_step_off" => result <= iteration
      /\ result <= iteration \/ tail
      /\ consumed - BatchOf(result) \in 0..depth
  <2>1. CASE scheduler = "two_step_off" /\ ~tail
    <3>1. result = iteration - 2
      <4>1. TwoStepBegins \/ TwoStepRuns
        BY <1>2, <2>1 DEF Position
      <4>2. CASE script = <<>>
        BY <1>2, <4>1, <4>2, Basics DEF TwoStepBegins, TwoStepRuns, Left
      <4>3. CASE script = <<"teach">>
        BY <1>2, <4>1, <4>3, Basics DEF TwoStepBegins, TwoStepRuns, Left
      <4>4. CASE script = <<"get", "yield">>
        BY <1>2, <4>1, <4>4, Basics DEF TwoStepBegins, TwoStepRuns, Left
      <4> QED BY <1>2, <4>2, <4>3, <4>4
    <3> QED BY <2>1, <3>1, Basics DEF BatchOf, depth
  <2>2. CASE scheduler = "two_step_off" /\ tail
    <3>1. result = iteration - 1 \/ result = iteration
      <4>1. TwoStepDrains
        BY <1>2, <2>2 DEF Position
      <4>2. CASE script = <<>>
        BY <1>2, <4>1, <4>2, Basics DEF TwoStepDrains, Left
      <4>3. CASE script = <<"teach">>
        BY <1>2, <4>1, <4>3, Basics DEF TwoStepDrains, Left
      <4>4. CASE script = <<"get", "yield">>
        BY <1>2, <4>1, <4>4, Basics DEF TwoStepDrains, Left
      <4> QED BY <1>2, <4>2, <4>3, <4>4
    <3> QED BY <2>2, <3>1, Basics DEF BatchOf, depth
  <2>3. CASE scheduler = "one_step_off" /\ ~tail
    <3>1. result = iteration
      <4>1. OneStepRuns
        BY <1>2, <2>3 DEF Position
      <4>2. CASE script = <<>>
        BY <1>2, <4>1, <4>2, Basics DEF OneStepRuns, OneStepIteration, Left
      <4>3. CASE script = <<"teach">>
        BY <1>2, <4>1, <4>3, Basics DEF OneStepRuns, OneStepIteration, Left
      <4>4. CASE script = <<"get", "yield">>
        BY <1>2, <4>1, <4>4, Basics DEF OneStepRuns, OneStepIteration, Left
      <4> QED BY <1>2, <4>2, <4>3, <4>4
    <3> QED BY <2>3, <3>1, Basics DEF BatchOf, depth
  <2>4. CASE scheduler = "one_step_off" /\ tail
    <3>1. result \in iteration..iteration + 1 /\ iteration > 0
      BY <1>2, <2>4, Basics DEF Position, OneStepDrains, Left
    <3> QED BY <2>4, <3>1, Basics DEF BatchOf, depth
  <2> QED BY <2>1, <2>2, <2>3, <2>4, Basics
<1>5. Position'
  BY <1>1, <1>2
  DEF Position, TwoStepBegins, TwoStepRuns, TwoStepDrains, OneStepRuns, OneStepDrains, Left,
      OneStepIteration
<1>6. Held /\ ~Held' /\ due' = due + 1 /\ due = result
  BY <1>1, <1>3 DEF Held, due
<1>7. Synced' <=> Synced
  BY <1>1 DEF Synced, OneStepIteration
<1>8. result \in DOMAIN futures /\ (tail => consumed = NumBatches)
  BY <1>2, Basics DEF IInv, Position, TypeOK
<1> QED BY <1>4, <1>5, <1>6, <1>7, <1>8

\* What happens behind the driver leaves the position alone.
LEMMA BehindMoves ==
  ASSUME IInv, UNCHANGED <<scheduler, phase, script, iteration, tail, fut, teacher_fut, result,
                          consumed>>,
         Len(futures') = Len(futures)
  PROVE  Position' /\ Held' = Held /\ due' = due /\ Synced' = Synced
<1>1. Position'
  BY DEF IInv, Position, TwoStepBegins, TwoStepRuns, TwoStepDrains, OneStepRuns, OneStepDrains, Left,
      OneStepIteration
<1>2. Held' = Held /\ due' = due /\ Synced' = Synced
  BY DEF Held, due, Synced, OneStepIteration
<1> QED BY <1>1, <1>2

\* A process that ends with StopIteration or an unbound local had resumed from a
\* checkpoint: one that began with the data returns from fit first.
LEMMA RaisedAfterRestart ==
  ASSUME IInv, StopIteration \/ UnboundLocal
  PROVE  restarts > 0
<1>1. CASE StopIteration
  <2>1. /\ phase = "scheduler" /\ script = <<>> /\ tail
    BY <1>1 DEF StopIteration
  <2>2. due = iteration + 1 \/ due = iteration + 2
    <3>1. script \notin HeldScripts
      BY <2>1 DEF HeldScripts
    <3>2. due = result + 1
      BY <2>1, <3>1 DEF due, Held
    <3> QED BY <2>1, <3>2, Basics DEF IInv, Position, TwoStepDrains, OneStepDrains, Left
  <2> QED BY <2>1, <2>2, Basics, NumBatchesAssumption, MaxRestartsAssumption
          DEF IInv, StepsFollowData, Position, TypeOK
<1>2. CASE UnboundLocal
  <2>1. /\ phase = "scheduler" /\ script # <<>>
        /\ \/ Head(script) = "teach" /\ fut = 0
           \/ Head(script) = "get" /\ teacher_fut = 0
    BY <1>2 DEF UnboundLocal, Does, Unbound
  <2>2. tail /\ iteration = 1
    BY <2>1, Basics DEF IInv, Position, TwoStepBegins, TwoStepRuns, TwoStepDrains, OneStepRuns,
                        OneStepDrains, Left, OneStepIteration
  <2> QED BY <2>2, Basics, NumBatchesAssumption, MaxRestartsAssumption
          DEF IInv, StepsFollowData, Position, TypeOK
<1> QED BY <1>1, <1>2

-----------------------------------------------------------------------------
(* Every action keeps the invariant.                                       *)

\* What the learner has done stands while the scheduler runs.
LEMMA LearnerStands ==
  ASSUME IInv, UNCHANGED <<scheduler, learnerVars, restarts>>, due' = due,
         consumed' \in Nat, iteration' \in Nat,
         consumed' - iteration' = consumed - iteration,
         phase' = "returned" => phase = "returned", phase' = "raised" => restarts > 0,
         phase = "returned" => phase' = "returned"
  PROVE  LearnerSound'
<1> USE DEF learnerVars
<1>1. StalenessBounded' /\ SavedIsFresh'
  BY DEF IInv, StalenessBounded, SavedIsFresh
<1>2. StepsFollowData'
  BY Basics DEF IInv, StepsFollowData
<1>3. LogInOrder' /\ LogIsCovered'
  BY Basics DEF IInv, LogInOrder, InOrder, LogIsCovered, Trained
<1>4. LossBounded'
  <2>1. BatchOf(due)' = BatchOf(due) /\ depth' = depth
    BY DEF BatchOf, depth
  <2> QED BY <2>1, Basics DEF IInv, LossBounded, Over, Missed
<1> QED BY <1>1, <1>2, <1>3, <1>4 DEF LearnerSound

\* The learner's variables and the futures that TypeOK speaks of.
LEMMA LearnerType ==
  ASSUME IInv, UNCHANGED <<scheduler, learnerVars, restarts>>,
         phase' \in {"scheduler", "step", "returned", "raised"},
         script' \in Seq(Operation), iteration' \in Nat, tail' \in BOOLEAN,
         futures' \in Seq(FutureRec), consumed' \in 0..NumBatches,
         {fut', teacher_fut', result', buffer'} \subseteq Unbound..Len(futures'),
         rollout_version' \in 0..NumBatches
  PROVE  TypeOK'
BY DEF IInv, TypeOK, learnerVars

\* Either keeps the invariant.
LEMMA IterationKeeps == ASSUME IInv, NextIteration PROVE IInv'
<1>1. /\ Position' /\ ~Held /\ ~Held' /\ due' = due
      /\ Synced' => Synced
  BY BatchMoves, LastMoves
<1>2. UNCHANGED <<scheduler, phase, futures, fut, teacher_fut, result, buffer, rollout_version,
                  learnerVars, restarts>>
  BY DEF NextIteration
<1>3. /\ consumed' - iteration' = consumed - iteration
      /\ consumed' \in 0..NumBatches /\ iteration' \in Nat /\ tail' \in BOOLEAN
  <2>1. CASE consumed < NumBatches
    <3>1. consumed' = consumed + 1 /\ iteration' = iteration + 1 /\ tail' = tail
      BY <2>1 DEF NextIteration
    <3>2. /\ consumed \in Nat /\ iteration \in Nat /\ NumBatches \in Nat /\ tail \in BOOLEAN
      BY Basics, Numbers
    <3> QED BY ONLY <2>1, <3>1, <3>2
  <2>2. CASE ~(consumed < NumBatches)
    BY <2>2, Basics, Numbers DEF NextIteration
  <2> QED BY <2>1, <2>2
<1>4. script' \in Seq(Operation)
  BY IterationType, Basics DEF NextIteration
<1>5. TypeOK'
  BY <1>2, <1>3, <1>4, LearnerType DEF IInv, TypeOK
<1>6. HeldIsScored'
  BY <1>1 DEF HeldIsScored
<1>7. BatchesInOrder'
  BY <1>2, <1>3 DEF IInv, BatchesInOrder, BatchOf
<1>8. GeneratedFresh' /\ NextIsFresh'
  BY <1>1, <1>2 DEF IInv, GeneratedFresh, NextIsFresh, Lead, learnerVars
<1>9. LearnerSound'
  <2>1. phase = "scheduler" /\ consumed' \in Nat
    BY <1>3, NumBatchesAssumption DEF NextIteration
  <2> QED BY <1>1, <1>2, <1>3, <2>1, LearnerStands
<1> QED BY <1>1, <1>5, <1>6, <1>7, <1>8, <1>9 DEF IInv, LearnerSound

\* So does a synchronization,
LEMMA SyncKeeps == ASSUME IInv, Sync PROVE IInv'
<1>1. Position' /\ Held' = Held /\ due' = due /\ Lead(Len(futures) + 1) <= due
  BY SyncMoves
<1>2. /\ UNCHANGED <<scheduler, phase, iteration, tail, futures, fut, teacher_fut, result, buffer,
                     consumed, learnerVars, restarts>>
      /\ rollout_version' = actor_version /\ phase = "scheduler"
      /\ script # <<>> /\ script' = Tail(script)
  BY DEF Sync, Does
<1>3. TypeOK'
  <2>1. script' \in Seq(Operation)
    BY <1>2 DEF IInv, TypeOK
  <2> QED BY <1>2, <2>1, LearnerType DEF IInv, TypeOK
<1>4. HeldIsScored' /\ BatchesInOrder'
  BY <1>1, <1>2 DEF IInv, HeldIsScored, BatchesInOrder, BatchOf
<1>5. GeneratedFresh' /\ NextIsFresh'
  BY <1>1, <1>2, Basics, Numbers, SMTT(30) DEF IInv, GeneratedFresh, NextIsFresh, Lead, learnerVars
<1>6. LearnerSound'
  BY <1>1, <1>2, Basics, LearnerStands
<1> QED BY <1>1, <1>3, <1>4, <1>5, <1>6 DEF IInv, LearnerSound

\* starting a generation,
LEMMA GenKeeps == ASSUME IInv, Gen PROVE IInv'
<1>1. /\ Position' /\ Held' = Held /\ due' = due
      /\ Synced /\ iteration > 0
      /\ consumed = BatchOf(Len(futures) + 1)
      /\ Synced' => Len(futures) < 2
  BY GenMoves
<1> DEFINE new == [batch |-> consumed, version |-> rollout_version,
                   done |-> FALSE, teacher |-> "none"]
<1>2. /\ UNCHANGED <<scheduler, phase, iteration, tail, teacher_fut, result, buffer, consumed,
                     rollout_version, learnerVars, restarts>>
      /\ futures' = Append(futures, new) /\ fut' = Len(futures) + 1 /\ phase = "scheduler"
      /\ script # <<>> /\ script' = Tail(script)
  BY DEF Gen, Does
<1>3. futures \in Seq(FutureRec) /\ new \in FutureRec
  <2>1. consumed \in Batches
    BY <1>1, Basics DEF IInv, TypeOK, Position, Batches
  <2> QED BY <2>1, NumBatchesAssumption DEF IInv, TypeOK, FutureRec
<1> HIDE DEF new
<1>4. /\ futures' \in Seq(FutureRec) /\ Len(futures') = Len(futures) + 1
      /\ \A k \in DOMAIN futures : futures'[k] = futures[k]
      /\ futures'[Len(futures) + 1] = new
      /\ DOMAIN futures' = DOMAIN futures \cup {Len(futures) + 1}
  BY <1>2, <1>3
<1>5. TypeOK'
  <2>1. script' \in Seq(Operation)
    BY <1>2 DEF IInv, TypeOK
  <2>2. {fut', teacher_fut', result', buffer'} \subseteq Unbound..Len(futures')
    <3>1. {fut, teacher_fut, result, buffer} \subseteq 0..Len(futures) /\ Len(futures) \in Nat
      BY Basics DEF IInv, TypeOK, Unbound
    <3>2. /\ fut' = Len(futures) + 1 /\ Len(futures') = Len(futures) + 1
          /\ teacher_fut' = teacher_fut /\ result' = result /\ buffer' = buffer
      BY <1>2, <1>4
    <3>3. {fut', teacher_fut', result', buffer'} \subseteq 0..Len(futures) + 1
      BY ONLY <3>1, <3>2
    <3> QED BY <3>2, <3>3 DEF Unbound
  <2> QED BY <1>2, <1>4, <2>1, <2>2, LearnerType DEF IInv, TypeOK
<1>6. HeldIsScored'
  <2>1. Held => result \in DOMAIN futures
    BY Numbers DEF IInv, HeldIsScored, Unbound
  <2> QED BY <1>1, <1>2, <1>4, <2>1 DEF IInv, HeldIsScored
<1>7. BatchesInOrder'
  BY <1>1, <1>2, <1>4 DEF IInv, BatchesInOrder, BatchOf, new
<1>8. GeneratedFresh' /\ NextIsFresh'
  <2>1. GeneratedFresh'
    <3>1. ASSUME NEW k \in DOMAIN futures'
          PROVE  futures'[k].version <= actor_version /\ actor_version + Lead(k) <= futures'[k].version + due
      <4>1. CASE k \in DOMAIN futures
        BY <4>1, <1>4 DEF IInv, GeneratedFresh
      <4>2. CASE k = Len(futures) + 1
        BY <4>2, <1>1, <1>4 DEF IInv, GeneratedFresh, NextIsFresh, new
      <4> QED BY <4>1, <4>2, <1>4
    <3> QED BY <1>1, <1>2, <3>1 DEF IInv, GeneratedFresh, Lead, learnerVars
  <2>2. NextIsFresh'
    BY <1>1, <1>2, <1>4, Basics, Numbers DEF IInv, NextIsFresh, Lead, learnerVars
  <2> QED BY <2>1, <2>2
<1>9. LearnerSound'
  BY <1>1, <1>2, Basics, LearnerStands
<1> QED BY <1>1, <1>5, <1>6, <1>7, <1>8, <1>9 DEF IInv, LearnerSound

\* Futures change, but neither which batch nor which weights they are of.
LEMMA FuturesStand ==
  ASSUME IInv, Len(futures') = Len(futures), DOMAIN futures' = DOMAIN futures,
         \A k \in DOMAIN futures :
           futures'[k].batch = futures[k].batch /\ futures'[k].version = futures[k].version,
         UNCHANGED <<scheduler, iteration, consumed, actor_version, rollout_version>>,
         due' = due, Synced' => Synced
  PROVE  BatchesInOrder' /\ GeneratedFresh' /\ NextIsFresh'
<1>1. BatchesInOrder'
  BY DEF IInv, BatchesInOrder, BatchOf
<1>2. GeneratedFresh'
  BY DEF IInv, GeneratedFresh
<1>3. NextIsFresh'
  BY DEF IInv, NextIsFresh, Lead
<1> QED BY <1>1, <1>2, <1>3

\* One future changes, but not what it generates.
LEMMA FutureChanges ==
  ASSUME IInv, NEW k \in DOMAIN futures, NEW new \in FutureRec,
         new.batch = futures[k].batch, new.version = futures[k].version,
         futures' = [futures EXCEPT ![k] = new]
  PROVE  /\ futures' \in Seq(FutureRec) /\ Len(futures') = Len(futures)
         /\ DOMAIN futures' = DOMAIN futures
         /\ futures'[k] = new /\ \A j \in DOMAIN futures : j # k => futures'[j] = futures[j]
         /\ \A j \in DOMAIN futures :
              futures'[j].batch = futures[j].batch /\ futures'[j].version = futures[j].version
BY Numbers

\* asking the teacher,
LEMMA TeachKeeps == ASSUME IInv, Teach PROVE IInv'
<1>1. /\ Position' /\ Held' = Held /\ due' = due /\ (Synced' => Synced)
      /\ Held => fut # result
      /\ fut # Unbound
  BY TeachMoves
<1>2. /\ UNCHANGED <<scheduler, phase, iteration, tail, fut, result, buffer, consumed,
                     rollout_version, learnerVars, restarts>>
      /\ futures' = [futures EXCEPT ![fut].teacher = "asked"] /\ teacher_fut' = fut
      /\ phase = "scheduler" /\ script # <<>> /\ script' = Tail(script)
  BY DEF Teach, Does
<1>3. /\ fut \in DOMAIN futures /\ futures' \in Seq(FutureRec) /\ Len(futures') = Len(futures)
      /\ DOMAIN futures' = DOMAIN futures
      /\ \A k \in DOMAIN futures :
           /\ futures'[k].batch = futures[k].batch /\ futures'[k].version = futures[k].version
           /\ k # fut => futures'[k] = futures[k]
  <2> DEFINE new == [futures[fut] EXCEPT !.teacher = "asked"]
  <2>1. fut \in DOMAIN futures /\ futures[fut] \in FutureRec
    BY <1>1, Basics, Numbers DEF Unbound
  <2>2. /\ new \in FutureRec
        /\ new.batch = futures[fut].batch /\ new.version = futures[fut].version
    BY <2>1 DEF FutureRec
  <2>3. futures' = [futures EXCEPT ![fut] = new]
    BY <1>2
  <2> HIDE DEF new
  <2> QED BY <2>1, <2>2, <2>3, FutureChanges
<1>4. TypeOK'
  <2>1. script' \in Seq(Operation)
    BY <1>2 DEF IInv, TypeOK
  <2>2. {fut', teacher_fut', result', buffer'} \subseteq Unbound..Len(futures')
    BY <1>2, <1>3 DEF IInv, TypeOK
  <2> QED BY <1>2, <1>3, <2>1, <2>2, LearnerType DEF IInv, TypeOK
<1>5. HeldIsScored'
  <2>1. Held => result \in DOMAIN futures
    BY Numbers DEF IInv, HeldIsScored, Unbound
  <2> QED BY <1>1, <1>2, <1>3, <2>1 DEF IInv, HeldIsScored
<1>6. BatchesInOrder' /\ GeneratedFresh' /\ NextIsFresh'
  BY <1>1, <1>2, <1>3, FuturesStand DEF learnerVars
<1>7. LearnerSound'
  BY <1>1, <1>2, Basics, LearnerStands
<1> QED BY <1>1, <1>4, <1>5, <1>6, <1>7 DEF IInv, LearnerSound

\* waiting for its answer,
LEMMA GetKeeps == ASSUME IInv, Get PROVE IInv'
<1>1. Position' /\ ~Held /\ Held' /\ due' = due /\ (Synced' => Synced)
  BY GetMoves
<1>2. /\ UNCHANGED <<scheduler, phase, iteration, tail, futures, fut, teacher_fut, consumed,
                     rollout_version, learnerVars, restarts>>
      /\ teacher_fut # Unbound /\ futures[teacher_fut].teacher \in {"ok", "failed"}
      /\ result' = teacher_fut
      /\ buffer' = IF futures[teacher_fut].teacher = "ok" THEN teacher_fut ELSE buffer
      /\ phase = "scheduler" /\ script # <<>> /\ script' = Tail(script)
  BY DEF Get, Does
<1>3. TypeOK'
  <2>1. script' \in Seq(Operation)
    BY <1>2 DEF IInv, TypeOK
  <2>2. {fut', teacher_fut', result', buffer'} \subseteq Unbound..Len(futures')
    BY <1>2 DEF IInv, TypeOK
  <2> QED BY <1>2, <2>1, <2>2, LearnerType DEF IInv, TypeOK
<1>4. HeldIsScored'
  BY <1>2 DEF HeldIsScored
<1>5. BatchesInOrder' /\ GeneratedFresh' /\ NextIsFresh'
  BY <1>1, <1>2, FuturesStand DEF learnerVars
<1>6. LearnerSound'
  BY <1>1, <1>2, Basics, LearnerStands
<1> QED BY <1>1, <1>3, <1>4, <1>5, <1>6 DEF IInv, LearnerSound

\* handing the result to the loop,
LEMMA YieldKeeps == ASSUME IInv, Yield PROVE IInv'
<1>1. Position' /\ Held /\ Held' /\ due' = due /\ (Synced' => Synced)
  BY YieldMoves
<1>2. /\ UNCHANGED <<scheduler, iteration, tail, futures, fut, teacher_fut, result, buffer,
                     consumed, rollout_version, learnerVars, restarts>>
      /\ phase = "scheduler" /\ phase' = "step" /\ script # <<>> /\ script' = Tail(script)
  BY DEF Yield, Does
<1>3. TypeOK'
  <2>1. script' \in Seq(Operation)
    BY <1>2 DEF IInv, TypeOK
  <2> QED BY <1>2, <2>1, LearnerType DEF IInv, TypeOK
<1>4. HeldIsScored'
  BY <1>1, <1>2 DEF IInv, HeldIsScored
<1>5. BatchesInOrder' /\ GeneratedFresh' /\ NextIsFresh'
  BY <1>1, <1>2, FuturesStand DEF learnerVars
<1>6. LearnerSound'
  BY <1>1, <1>2, Basics, LearnerStands
<1> QED BY <1>1, <1>3, <1>4, <1>5, <1>6 DEF IInv, LearnerSound

\* the end of the iterator or the unbound name,
LEMMA RaiseKeeps == ASSUME IInv, StopIteration \/ UnboundLocal PROVE IInv'
<1>1. /\ UNCHANGED <<scheduler, pipelineVars, consumed, rollout_version, learnerVars, restarts>>
      /\ phase = "scheduler" /\ phase' = "raised"
  BY DEF StopIteration, UnboundLocal, Does
<1>2. UNCHANGED <<script, iteration, tail, futures, fut, teacher_fut, result, buffer>>
  BY <1>1 DEF pipelineVars
<1>3. Held' = Held /\ due' = due /\ Synced' = Synced
  BY <1>1, <1>2 DEF Held, due, Synced, OneStepIteration
<1>4. Position'
  BY <1>1, <1>2
  DEF IInv, Position, TwoStepBegins, TwoStepRuns, TwoStepDrains, OneStepRuns, OneStepDrains, Left,
      OneStepIteration
<1>5. TypeOK'
  BY <1>1, <1>2, LearnerType DEF IInv, TypeOK
<1>6. HeldIsScored'
  BY <1>2, <1>3 DEF IInv, HeldIsScored
<1>7. BatchesInOrder' /\ GeneratedFresh' /\ NextIsFresh'
  BY <1>1, <1>2, <1>3, FuturesStand DEF learnerVars
<1>8. LearnerSound'
  BY <1>1, <1>2, <1>3, Basics, RaisedAfterRestart, LearnerStands
<1> QED BY <1>4, <1>5, <1>6, <1>7, <1>8 DEF IInv, LearnerSound

\* and what generation and teacher do meanwhile.
LEMMA BackgroundKeeps ==
  ASSUME IInv, NEW k \in DOMAIN futures,
         \/ GenerationDone(k)
         \/ \E outcome \in {"ok", "failed"} : TeacherDone(k, outcome)
  PROVE  IInv'
<1>1. UNCHANGED <<scheduler, phase, script, iteration, tail, fut, teacher_fut, result, buffer,
                  consumed, rollout_version, learnerVars, restarts>>
  BY DEF GenerationDone, TeacherDone
<1> DEFINE Same ==
      /\ futures' \in Seq(FutureRec) /\ Len(futures') = Len(futures)
      /\ DOMAIN futures' = DOMAIN futures
      /\ \A j \in DOMAIN futures :
           /\ futures'[j].batch = futures[j].batch /\ futures'[j].version = futures[j].version
           /\ futures[j].teacher # "asked" => futures'[j].teacher = futures[j].teacher
<1>2. Same
  <2>0. futures[k] \in FutureRec
    BY Numbers
  <2>1. CASE GenerationDone(k)
    <3> DEFINE new == [futures[k] EXCEPT !.done = TRUE]
    <3>1. new \in FutureRec /\ new.batch = futures[k].batch /\ new.version = futures[k].version
          /\ new.teacher = futures[k].teacher
      BY <2>0 DEF FutureRec
    <3>2. futures' = [futures EXCEPT ![k] = new]
      BY <2>1 DEF GenerationDone
    <3> HIDE DEF new
    <3> QED BY <3>1, <3>2, FutureChanges
  <2>2. ASSUME NEW outcome \in {"ok", "failed"}, TeacherDone(k, outcome) PROVE Same
    <3> DEFINE new == [futures[k] EXCEPT !.teacher = outcome]
    <3>1. new \in FutureRec /\ new.batch = futures[k].batch /\ new.version = futures[k].version
      BY <2>0 DEF FutureRec
    <3>2. futures' = [futures EXCEPT ![k] = new] /\ futures[k].teacher = "asked"
      BY <2>2 DEF TeacherDone
    <3> HIDE DEF new
    <3> QED BY <3>1, <3>2, FutureChanges
  <2> QED BY <2>1, <2>2
<1>3. Position' /\ Held' = Held /\ due' = due /\ Synced' = Synced
  BY <1>1, <1>2, BehindMoves
<1>4. TypeOK'
  BY <1>1, <1>2, LearnerType DEF IInv, TypeOK
<1>5. HeldIsScored'
  <2>1. Held => result \in DOMAIN futures
    BY Numbers DEF IInv, HeldIsScored, Unbound
  <2> QED BY <1>1, <1>2, <1>3, <2>1 DEF IInv, HeldIsScored
<1>6. BatchesInOrder' /\ GeneratedFresh' /\ NextIsFresh'
  BY <1>1, <1>2, <1>3, FuturesStand DEF learnerVars
<1>7. LearnerSound'
  <2>1. phase = "raised" => restarts > 0
    BY DEF IInv, StepsFollowData
  <2> QED BY <1>1, <1>3, <2>1, Basics, LearnerStands
<1> QED BY <1>3, <1>4, <1>5, <1>6, <1>7 DEF IInv, LearnerSound

\* What a step adds, of whichever kind: the batch that was due.
StepAdds ==
    /\ phase = "step" /\ EndStep
    /\ log' \in Seq(StepRec) /\ skipped' \subseteq Batches
    /\ actor_version' \in actor_version..actor_version + 1
    /\ Over(log', skipped') = Over(log, skipped) \cup {BatchOf(due)}
    /\ StalenessBounded'
    /\ scheduler = "two_step_off" => InOrder(log', BatchOf(due))
    /\ \/ checkpoint' = checkpoint
       \/ checkpoint' = [step |-> global_steps, version |-> actor_version', consumed |-> consumed,
                         log |-> log', skipped |-> skipped']

\* Every step of the log is of a batch.
LEMMA LogBatches == ASSUME IInv PROVE \A k \in DOMAIN log : log[k].batch \in Nat
<1>1. log \in Seq(StepRec)
  BY DEF IInv, TypeOK
<1>2. \A k \in DOMAIN log : log[k] \in StepRec
  BY <1>1
<1> QED BY <1>2, Numbers DEF StepRec, Batches

\* A step that trains adds the batch that was due;
LEMMA TrainAdds == ASSUME IInv, TrainStep PROVE StepAdds
<1>1. phase = "step" /\ EndStep /\ log' = Append(log, Step) /\ skipped' = skipped
      /\ actor_version' = actor_version + 1 /\ Save(actor_version', log', skipped)
  BY DEF TrainStep
<1>2. result' = result
  BY <1>1 DEF EndStep, pipelineVars
<1>3. due = result /\ result \in DOMAIN futures
  BY <1>1, <1>2, StepMoves
<1>4. /\ Step.batch = BatchOf(due) /\ Step.trained_at = actor_version
      /\ Step.generated_by = futures[result].version
  BY <1>3 DEF IInv, BatchesInOrder, Step
<1>5. Step \in StepRec /\ log \in Seq(StepRec)
  <2>1. futures[result] \in FutureRec /\ buffer \in Nat
    BY <1>3, Numbers DEF IInv, TypeOK, Unbound
  <2> QED BY <2>1, Numbers DEF Step, StepRec, FutureRec, IInv, TypeOK
<1>6. /\ log' \in Seq(StepRec) /\ DOMAIN log' = DOMAIN log \cup {Len(log) + 1}
      /\ DOMAIN log = 1..Len(log)
      /\ \A k \in DOMAIN log : log'[k] = log[k]
      /\ log'[Len(log) + 1] = Step
  BY <1>1, <1>5
<1>7. Over(log', skipped') = Over(log, skipped) \cup {BatchOf(due)}
  BY <1>1, <1>4, <1>6 DEF Over
<1>8. StalenessBounded'
  <2>1. Step.trained_at - Step.generated_by \in 0..2
    <3>1. /\ futures[result].version <= actor_version
          /\ actor_version + Lead(result) <= futures[result].version + result
      BY <1>3 DEF IInv, GeneratedFresh
    <3>2. /\ actor_version \in Nat /\ result \in Nat /\ futures[result].version \in Nat
      BY <1>3, Numbers, Basics
    <3>3. Lead(result) = IF result > 3 THEN result - 2 ELSE 1
      BY DEF Lead
    <3> HIDE DEF Lead
    <3>4. actor_version - futures[result].version \in 0..2
      BY ONLY <3>1, <3>2, <3>3
    <3> QED BY ONLY <1>4, <3>4
  <2> QED BY <1>6, <2>1 DEF IInv, StalenessBounded
<1>9. scheduler = "two_step_off" => InOrder(log', BatchOf(due))
  <2> SUFFICES ASSUME scheduler = "two_step_off" PROVE InOrder(log', BatchOf(due))
    OBVIOUS
  <2>1. \A k \in DOMAIN log : log[k].batch < BatchOf(due) /\ log[k].batch \in Nat
    <3>1. \A k \in DOMAIN log : log[k].batch \in Nat
      BY LogBatches
    <3>2. \A k \in DOMAIN log : log[k].batch <= consumed - iteration + due - 1
      BY DEF IInv, LogInOrder, InOrder
    <3> QED BY <3>1, <3>2, Basics, Numbers DEF BatchOf
  <2>2. BatchOf(due) \in Int
    BY Basics, Numbers DEF BatchOf
  <2> HIDE DEF StepAdds
  <2> QED BY <1>4, <1>6, <2>1, <2>2 DEF IInv, LogInOrder, InOrder
<1>10. \/ checkpoint' = checkpoint
       \/ checkpoint' = [step |-> global_steps, version |-> actor_version', consumed |-> consumed,
                         log |-> log', skipped |-> skipped']
  BY <1>1 DEF Save
<1>11. skipped' \subseteq Batches
  BY <1>1 DEF IInv, TypeOK
<1>12. actor_version' \in actor_version..actor_version + 1
  BY <1>1, Numbers
<1> QED BY <1>1, <1>6, <1>7, <1>8, <1>9, <1>10, <1>11, <1>12 DEF StepAdds

\* so does one whose teacher failed, to the batches skipped.
LEMMA SkipAdds == ASSUME IInv, SkipStep PROVE StepAdds
<1>1. /\ phase = "step" /\ EndStep /\ skipped' = skipped \cup {futures[result].batch}
      /\ UNCHANGED <<actor_version, log>> /\ Save(actor_version, log, skipped')
  BY DEF SkipStep
<1>2. result' = result
  BY <1>1 DEF EndStep, pipelineVars
<1>3. due = result /\ result \in DOMAIN futures
  BY <1>1, <1>2, StepMoves
<1>4. futures[result].batch = BatchOf(due) /\ futures[result].batch \in Batches
  <2>1. futures[result] \in FutureRec
    BY <1>3, Numbers
  <2> QED BY <1>3, <2>1 DEF IInv, BatchesInOrder, FutureRec
<1>5. Over(log', skipped') = Over(log, skipped) \cup {BatchOf(due)}
  BY <1>1, <1>4 DEF Over
<1>6. StalenessBounded'
  BY <1>1 DEF IInv, StalenessBounded
<1>7. scheduler = "two_step_off" => InOrder(log', BatchOf(due))
  <2> SUFFICES ASSUME scheduler = "two_step_off" PROVE InOrder(log, BatchOf(due))
    BY <1>1
  <2>2. \A k \in DOMAIN log : log[k].batch \in Nat
    BY LogBatches
  <2>3. InOrder(log, consumed - iteration + due - 1)
    BY DEF IInv, LogInOrder
  <2> QED BY <2>2, <2>3, Basics, Numbers DEF InOrder, BatchOf
<1>8. \/ checkpoint' = checkpoint
      \/ checkpoint' = [step |-> global_steps, version |-> actor_version', consumed |-> consumed,
                        log |-> log', skipped |-> skipped']
  BY <1>1 DEF Save
<1>9. /\ log' \in Seq(StepRec) /\ skipped' \subseteq Batches
      /\ actor_version' \in actor_version..actor_version + 1
  <2>1. log \in Seq(StepRec) /\ skipped \subseteq Batches
    BY DEF IInv, TypeOK
  <2>2. actor_version' \in actor_version..actor_version + 1
    BY <1>1, Numbers
  <2>3. log' = log /\ skipped' = skipped \cup {futures[result].batch}
    BY <1>1
  <2> QED BY <1>4, <2>1, <2>2, <2>3
<1> QED BY <1>1, <1>5, <1>6, <1>7, <1>8, <1>9 DEF StepAdds

\* The interval between what was trained and the position that is saved.
LEMMA SavedLoss ==
  ASSUME NEW position \in Nat, NEW begun \in Nat, NEW b \in Nat, NEW d \in Nat, NEW c \in Nat,
         NEW over, begun + 1..b \subseteq over, position - b <= d,
         Cardinality(Missed(begun, over)) <= c
  PROVE  Cardinality(Missed(position, over)) <= c + d
<1> DEFINE rest == b + 1..position
<1>1. IsFiniteSet(1..begun) /\ IsFiniteSet(rest)
  BY FS_Interval
<1>2. IsFiniteSet(Missed(begun, over))
  BY <1>1, FS_Subset DEF Missed
<1>3. Cardinality(rest) <= d /\ Cardinality(rest) \in Nat
  <2>1. b + 1 \in Int /\ position \in Int
    OBVIOUS
  <2>2. Cardinality(rest) = IF b + 1 > position THEN 0 ELSE position - (b + 1) + 1
    BY <2>1, FS_Interval
  <2> HIDE DEF rest
  <2> QED BY <2>2
<1>4. IsFiniteSet(Missed(begun, over) \cup rest)
  BY <1>1, <1>2, FS_Union
<1>5. Missed(position, over) \subseteq Missed(begun, over) \cup rest
  BY DEF Missed
<1>6. Cardinality(Missed(position, over)) <= Cardinality(Missed(begun, over) \cup rest)
  BY <1>4, <1>5, FS_Subset
<1>7. /\ Cardinality(Missed(begun, over) \cup rest)
           = Cardinality(Missed(begun, over)) + Cardinality(rest)
             - Cardinality(Missed(begun, over) \cap rest)
      /\ Cardinality(Missed(begun, over)) \in Nat
      /\ Cardinality(Missed(begun, over) \cap rest) \in Nat
      /\ Cardinality(Missed(position, over)) \in Nat
  BY <1>1, <1>2, <1>4, <1>5, FS_Union, FS_Subset, FS_Intersection, FS_CardinalityType
<1>8. Cardinality(Missed(begun, over) \cup rest) \in Nat
  BY <1>4, FS_CardinalityType
<1> HIDE DEF rest
<1> QED BY <1>3, <1>6, <1>7, <1>8

\* More of what was trained, less of what is missed.
LEMMA LessMissed ==
  ASSUME NEW position \in Nat, NEW over, NEW more
  PROVE  /\ Cardinality(Missed(position, over \cup more)) <= Cardinality(Missed(position, over))
         /\ Cardinality(Missed(position, over \cup more)) \in Nat
         /\ Cardinality(Missed(position, over)) \in Nat
<1>1. IsFiniteSet(1..position)
  BY FS_Interval
<1>2. IsFiniteSet(Missed(position, over)) /\ IsFiniteSet(Missed(position, over \cup more))
  BY <1>1, FS_Subset DEF Missed
<1>3. Missed(position, over \cup more) \subseteq Missed(position, over)
  BY DEF Missed
<1> QED BY <1>2, <1>3, FS_Subset, FS_CardinalityType

\* Both keep the invariant.
LEMMA StepKeeps == ASSUME IInv, TrainStep \/ SkipStep PROVE IInv'
<1>1. StepAdds
  BY TrainAdds, SkipAdds
<1>2. /\ UNCHANGED <<scheduler, script, iteration, tail, futures, fut, teacher_fut, result, buffer,
                     consumed, rollout_version, restarts>>
      /\ global_steps' = global_steps + 1
      /\ phase' = IF IsLastStep THEN "returned" ELSE "scheduler"
      /\ phase = "step"
  BY <1>1 DEF StepAdds, EndStep, pipelineVars
<1>3. /\ Position' /\ Held /\ ~Held' /\ due' = due + 1 /\ due = result
      /\ result \in DOMAIN futures
      /\ Synced' <=> Synced
      /\ scheduler = "two_step_off" => result <= iteration
      /\ result <= iteration \/ consumed = NumBatches
      /\ consumed - BatchOf(result) \in 0..depth
  BY <1>1, <1>2, StepMoves DEF StepAdds
<1>4. /\ global_steps <= NumBatches /\ global_steps <= consumed - iteration + due
      /\ actor_version < global_steps
      /\ restarts = 0 => global_steps = due /\ consumed = iteration
  BY <1>2 DEF IInv, StepsFollowData
<1>5. global_steps <= consumed
  BY <1>3, <1>4, Basics, Numbers
<1>6. /\ checkpoint'.step <= checkpoint'.consumed /\ checkpoint'.version <= checkpoint'.step
      /\ checkpoint' \in [step : 0..NumBatches, version : 0..NumBatches, consumed : 0..NumBatches,
                          log : Seq(StepRec), skipped : SUBSET Batches]
  <2>1. CASE checkpoint' = checkpoint
    BY <2>1 DEF IInv, StepsFollowData, TypeOK
  <2>2. CASE checkpoint' = [step |-> global_steps, version |-> actor_version',
                            consumed |-> consumed, log |-> log', skipped |-> skipped']
    <3>1. /\ actor_version' \in 0..NumBatches /\ actor_version' <= global_steps
          /\ global_steps \in 0..NumBatches /\ consumed \in 0..NumBatches
      BY <1>1, <1>4, Numbers DEF StepAdds
    <3>2. log' \in Seq(StepRec) /\ skipped' \subseteq Batches
      BY <1>1 DEF StepAdds
    <3> QED BY <1>5, <2>2, <3>1, <3>2
  <2> QED BY <1>1, <2>1, <2>2 DEF StepAdds
<1>7. TypeOK'
  <2>1. /\ actor_version' \in 0..NumBatches /\ global_steps' \in 1..NumBatches + 1
        /\ phase' \in {"scheduler", "step", "returned", "raised"}
    BY <1>1, <1>2, <1>4, Numbers DEF StepAdds
  <2>2. log' \in Seq(StepRec) /\ skipped' \subseteq Batches
    BY <1>1 DEF StepAdds
  <2> QED BY <1>2, <1>6, <2>1, <2>2 DEF IInv, TypeOK
<1>8. HeldIsScored'
  BY <1>3 DEF HeldIsScored
<1>9. BatchesInOrder'
  BY <1>2 DEF IInv, BatchesInOrder, BatchOf
<1>10. GeneratedFresh' /\ NextIsFresh'
  <2>1. actor_version' \in actor_version..actor_version + 1
    BY <1>1 DEF StepAdds
  <2>2. actor_version \in Nat /\ rollout_version \in Nat /\ due \in Nat
    BY Numbers
  <2>3. rollout_version' <= actor_version'
    BY <1>2, <2>1, <2>2 DEF IInv, GeneratedFresh
  <2>4. ASSUME NEW k \in DOMAIN futures
        PROVE  /\ futures[k].version <= actor_version'
               /\ actor_version' + Lead(k) <= futures[k].version + due'
    <3>1. futures[k].version \in Nat /\ Lead(k) \in Nat
      BY Numbers, Basics DEF Lead
    <3>2. futures[k].version <= actor_version /\ actor_version + Lead(k) <= futures[k].version + due
      BY DEF IInv, GeneratedFresh
    <3> QED BY <1>3, <2>1, <2>2, <3>1, <3>2
  <2>5. NextIsFresh'
    <3>1. Lead(Len(futures) + 1) \in Nat
      BY Basics DEF Lead
    <3>2. Synced => actor_version' + Lead(Len(futures) + 1) <= rollout_version + due'
      BY <1>3, <2>1, <2>2, <3>1 DEF IInv, NextIsFresh
    <3> QED BY <1>2, <1>3, <3>2 DEF NextIsFresh, Lead
  <2> QED BY <1>2, <2>3, <2>4, <2>5 DEF GeneratedFresh, Lead
<1>11. StalenessBounded' /\ SavedIsFresh'
  BY <1>1 DEF StepAdds, StalenessBounded, SavedIsFresh, IInv
<1>12. StepsFollowData'
  <2>1. actor_version' < global_steps'
    BY <1>1, <1>2, <1>4, Numbers DEF StepAdds
  <2>2. phase' # "returned" => global_steps' <= NumBatches
    BY <1>2, <1>4, Numbers DEF IsLastStep
  <2>3. global_steps' <= consumed' - iteration' + due'
    BY <1>2, <1>3, <1>4, Basics, Numbers, SMTT(30)
  <2>4. restarts' = 0 => global_steps' = due' /\ consumed' = iteration'
    BY <1>2, <1>3, <1>4
  <2>5. phase' # "raised"
    BY <1>2
  <2>6. phase' = "returned" => global_steps' = NumBatches + 1
    BY <1>2, <1>4, Numbers DEF IsLastStep
  <2> QED BY <1>6, <2>1, <2>2, <2>3, <2>4, <2>5, <2>6 DEF StepsFollowData
<1>13. LogInOrder'
  <2> SUFFICES ASSUME scheduler = "two_step_off" PROVE LogInOrder'
    BY <1>2 DEF LogInOrder
  <2>1. BatchOf(due) = consumed - iteration + due /\ BatchOf(due) <= consumed
    BY <1>3, Basics, Numbers DEF BatchOf
  <2>2. InOrder(log', consumed' - iteration' + due' - 1)
    <3>1. InOrder(log', BatchOf(due))
      BY <1>1 DEF StepAdds
    <3>2. due' = due + 1 /\ consumed' = consumed /\ iteration' = iteration
      BY <1>2, <1>3
    <3>3. consumed \in Nat /\ iteration \in Nat /\ due \in Nat
      BY Basics, Numbers
    <3>4. consumed' - iteration' + due' - 1 = BatchOf(due)
      BY ONLY <2>1, <3>2, <3>3
    <3> QED BY <3>1, <3>4
  <2>3. InOrder(log', consumed)
    <3>1. log' \in Seq(StepRec)
      BY <1>1 DEF StepAdds
    <3>2. \A k \in DOMAIN log' : log'[k].batch \in Nat
      <4>1. \A k \in DOMAIN log' : log'[k] \in StepRec
        BY <3>1
      <4> QED BY <4>1, Numbers DEF StepRec, Batches
    <3> QED BY <1>1, <2>1, <3>2, Basics, Numbers, SMTT(30) DEF StepAdds, InOrder
  <2>4. InOrder(checkpoint'.log, checkpoint'.consumed)
    BY <1>1, <2>3 DEF StepAdds, IInv, LogInOrder
  <2> QED BY <1>2, <2>2, <2>4 DEF LogInOrder
<1>14. LogIsCovered'
  <2> SUFFICES ASSUME scheduler = "two_step_off", restarts = 0 PROVE LogIsCovered'
    BY <1>2 DEF LogIsCovered
  <2>1. BatchOf(due) = due
    BY <1>4, Basics, Numbers DEF BatchOf
  <2>2. Over(log', skipped') = 1..due - 1 \cup {due}
    BY <1>1, <2>1 DEF StepAdds, IInv, LogIsCovered, Trained, Over
  <2>3. due \in Nat /\ due > 0 /\ due' = due + 1
    BY <1>3, Numbers
  <2>4. 1..due - 1 \cup {due} = 1..due' - 1
    BY ONLY <2>3
  <2>5. Trained' \cup skipped' = Over(log', skipped')
    BY DEF Trained, Over
  <2> QED BY <2>2, <2>4, <2>5 DEF LogIsCovered
<1>15. LossBounded'
  <2> DEFINE over == Over(log, skipped)
             begun == consumed - iteration
             b == BatchOf(due)
  <2>1. Over(log', skipped') = over \cup {b}
    BY <1>1 DEF StepAdds
  <2>2. /\ begun \in Nat /\ b \in Nat /\ depth \in Nat /\ depth' = depth /\ depth * restarts \in Nat
        /\ depth * (restarts + 1) = depth * restarts + depth
    <3>1. begun \in Nat /\ b \in Nat /\ depth \in {1, 2} /\ depth' = depth
      <4>1. iteration <= consumed /\ due >= 1
        BY <1>3, Numbers DEF IInv, Position
      <4>2. /\ consumed \in Nat /\ iteration \in Nat /\ due \in Nat /\ scheduler' = scheduler
        BY <1>2, Basics, Numbers
      <4>3. begun \in Nat
        BY ONLY <4>1, <4>2
      <4>4. b = begun + due \/ b = begun + due - 1
        BY ONLY <4>1, <4>2 DEF BatchOf
      <4>5. b \in Nat
        BY ONLY <4>1, <4>2, <4>3, <4>4
      <4>6. depth \in {1, 2} /\ depth' = depth
        BY ONLY <4>2 DEF depth
      <4> QED BY <4>3, <4>5, <4>6
    <3> QED BY <3>1, Numbers
  <2>3. BatchOf(due)' \in b..b + 1
    <3>1. BatchOf(due)' = BatchOf(due + 1) /\ due >= 1
      BY <1>2, <1>3, Numbers DEF BatchOf
    <3> QED BY <3>1, Basics, Numbers, SMTT(30) DEF BatchOf
  <2>4. /\ over \subseteq 1..b /\ begun + 1..b - 1 \subseteq over
        /\ Cardinality(Missed(begun, over)) <= depth * restarts
    BY DEF IInv, LossBounded
  <2>5. b >= begun + 1
    BY <1>3, Basics, Numbers DEF BatchOf
  <2>6. /\ over \cup {b} \subseteq 1..BatchOf(due)'
        /\ begun + 1..BatchOf(due)' - 1 \subseteq over \cup {b}
        /\ begun + 1..b \subseteq over \cup {b}
    <3> HIDE DEF over, begun, b
    <3> QED BY <2>2, <2>3, <2>4, <2>5
  <2>7. Cardinality(Missed(begun, over \cup {b})) <= depth * restarts
    <3> HIDE DEF over, begun, b
    <3> QED BY <2>2, <2>4, LessMissed
  <2>8. /\ Over(checkpoint'.log, checkpoint'.skipped) \subseteq 1..checkpoint'.consumed
        /\ Cardinality(Missed(checkpoint'.consumed, Over(checkpoint'.log, checkpoint'.skipped)))
             <= depth * (restarts + 1)
    <3>1. CASE checkpoint' = checkpoint
      BY <3>1 DEF IInv, LossBounded
    <3>2. CASE checkpoint' = [step |-> global_steps, version |-> actor_version',
                              consumed |-> consumed, log |-> log', skipped |-> skipped']
      <4>1. b <= consumed
        BY <1>3, <2>2, Numbers
      <4>2. consumed - b <= depth /\ consumed \in Nat
        BY <1>3, Numbers
      <4> HIDE DEF over, begun, b
      <4>3. Cardinality(Missed(consumed, over \cup {b})) <= depth * restarts + depth
        BY <2>2, <2>6, <2>7, <4>2, SavedLoss
      <4>4. over \cup {b} \subseteq 1..consumed
        BY <2>2, <2>4, <2>5, <4>1, <4>2
      <4> QED BY <2>1, <2>2, <3>2, <4>3, <4>4
    <3> QED BY <1>1, <3>1, <3>2 DEF StepAdds
  <2> HIDE DEF b
  <2> QED BY <1>2, <2>1, <2>2, <2>6, <2>7, <2>8 DEF LossBounded
<1> QED BY <1>3, <1>7, <1>8, <1>9, <1>10, <1>11, <1>12, <1>13, <1>14, <1>15 DEF IInv

\* So does a restart from the checkpoint.
LEMMA RestartKeeps == ASSUME IInv, Restart PROVE IInv'
<1>1. /\ scheduler' = scheduler /\ checkpoint' = checkpoint /\ restarts' = restarts + 1
      /\ phase' = "scheduler" /\ script' = <<>> /\ iteration' = 0 /\ tail' = FALSE
      /\ futures' = <<>> /\ fut' = 0 /\ teacher_fut' = 0 /\ result' = 0 /\ buffer' = 0
      /\ consumed' = checkpoint.consumed /\ global_steps' = checkpoint.step + 1
      /\ actor_version' = checkpoint.version /\ rollout_version' = 0
      /\ log' = checkpoint.log /\ skipped' = checkpoint.skipped
      /\ checkpoint.consumed < NumBatches /\ restarts < MaxRestarts
  BY DEF Restart, Unbound
<1>2. /\ checkpoint.step \in Nat /\ checkpoint.consumed \in Nat /\ checkpoint.version \in Nat
      /\ checkpoint.log \in Seq(StepRec) /\ checkpoint.skipped \in SUBSET Batches
      /\ checkpoint.version <= checkpoint.step /\ checkpoint.step <= checkpoint.consumed
  BY Numbers DEF IInv, TypeOK, StepsFollowData
<1>3. ~Held' /\ due' = 1
  BY <1>1 DEF Held, due, HeldScripts
<1>4. TypeOK'
  <2>1. /\ script' \in Seq(Operation) /\ futures' \in Seq(FutureRec) /\ log' \in Seq(StepRec)
        /\ skipped' \subseteq Batches
    BY <1>1, <1>2
  <2>2. checkpoint' \in [step : 0..NumBatches, version : 0..NumBatches, consumed : 0..NumBatches,
                        log : Seq(StepRec), skipped : SUBSET Batches]
    BY <1>1 DEF IInv, TypeOK
  <2>3. /\ phase' \in {"scheduler", "step", "returned", "raised"}
        /\ iteration' \in Nat /\ consumed' \in 0..NumBatches /\ global_steps' \in 1..NumBatches + 1
        /\ actor_version' \in 0..NumBatches /\ rollout_version' \in 0..NumBatches
        /\ restarts' \in 0..MaxRestarts
    <3>1. checkpoint.consumed <= NumBatches - 1 /\ checkpoint.step <= NumBatches - 1
      BY <1>1, <1>2, Numbers
    <3>2. phase' \in {"scheduler", "step", "returned", "raised"} /\ iteration' \in Nat
      BY <1>1
    <3>3. consumed' \in 0..NumBatches /\ global_steps' \in 1..NumBatches + 1
      <4>1. checkpoint.consumed \in 0..NumBatches /\ checkpoint.step + 1 \in 1..NumBatches + 1
        <5>1. NumBatches \in Nat /\ checkpoint.consumed \in Nat /\ checkpoint.step \in Nat
          BY <1>2, Numbers
        <5> QED BY ONLY <3>1, <5>1
      <4> QED BY <1>1, <4>1
    <3>4. actor_version' \in 0..NumBatches /\ rollout_version' \in 0..NumBatches
      BY <1>1, <1>2, <3>1, Numbers
    <3>5. restarts' \in 0..MaxRestarts
      BY <1>1, Numbers, MaxRestartsAssumption
    <3> QED BY <3>2, <3>3, <3>4, <3>5
  <2>4. scheduler' \in Schedulers /\ tail' \in BOOLEAN
    BY <1>1 DEF IInv, TypeOK
  <2>5. {fut', teacher_fut', result', buffer'} \subseteq Unbound..Len(futures')
    BY <1>1 DEF Unbound
  <2> QED BY <2>1, <2>2, <2>3, <2>4, <2>5 DEF TypeOK
<1>5. Position'
  BY <1>1, <1>2, Basics DEF Position, TwoStepBegins, OneStepRuns, Left
<1>6. HeldIsScored' /\ BatchesInOrder'
  BY <1>1, <1>3 DEF HeldIsScored, BatchesInOrder
<1>7. GeneratedFresh' /\ NextIsFresh'
  <2>1. GeneratedFresh'
    BY <1>1, <1>2 DEF GeneratedFresh
  <2>2. ~Synced'
    <3>1. script' \notin {<<"gen", "get", "yield", "teach">>, <<"gen", "yield">>,
                         <<"teach", "gen", "yield">>, <<"get", "teach", "gen", "yield">>}
      BY <1>1
    <3> QED BY <1>1, <3>1 DEF Synced
  <2> QED BY <2>1, <2>2 DEF NextIsFresh
<1>8. StalenessBounded' /\ SavedIsFresh'
  BY <1>1 DEF IInv, SavedIsFresh, StalenessBounded
<1>9. StepsFollowData'
  <2>1. checkpoint.consumed <= NumBatches - 1 /\ checkpoint.step <= NumBatches - 1
    BY <1>1, <1>2, Numbers
  <2>2. restarts' > 0
    <3>1. restarts' = restarts + 1 /\ restarts \in Nat
      BY <1>1, Numbers
    <3> QED BY ONLY <3>1
  <2>3. global_steps' <= NumBatches /\ global_steps' <= consumed' - iteration' + due'
    <3>1. global_steps' = checkpoint.step + 1 /\ NumBatches \in Nat
      BY <1>1, Numbers
    <3>2. consumed' - iteration' + due' = checkpoint.consumed - 0 + 1
      BY ONLY <1>1, <1>3
    <3>3. checkpoint.step + 1 <= NumBatches /\ checkpoint.step + 1 <= checkpoint.consumed - 0 + 1
      BY ONLY <1>2, <2>1, <3>1
    <3>4. global_steps' <= NumBatches
      BY ONLY <3>1, <3>3
    <3> QED BY ONLY <3>1, <3>2, <3>3, <3>4
  <2>4. actor_version' < global_steps'
    BY <1>1, <1>2
  <2> QED BY <1>1, <1>2, <2>2, <2>3, <2>4 DEF StepsFollowData
<1>10. LogInOrder' /\ LogIsCovered'
  <2>1. consumed' - iteration' + due' - 1 = checkpoint.consumed
    <3>1. consumed' = checkpoint.consumed /\ iteration' = 0 /\ due' = 1 /\ checkpoint.consumed \in Nat
      BY <1>1, <1>2, <1>3
    <3> QED BY ONLY <3>1
  <2>2. scheduler = "two_step_off" => InOrder(checkpoint.log, checkpoint.consumed)
    BY DEF IInv, LogInOrder
  <2>3. scheduler' = scheduler /\ checkpoint' = checkpoint /\ log' = checkpoint.log
    BY <1>1
  <2>4. LogInOrder'
    BY ONLY <2>1, <2>2, <2>3 DEF LogInOrder, InOrder
  <2>5. restarts' # 0
    <3>1. restarts' = restarts + 1 /\ restarts \in Nat
      BY <1>1, Numbers
    <3> QED BY ONLY <3>1
  <2> QED BY <2>4, <2>5 DEF LogIsCovered
<1>11. LossBounded'
  <2>1. /\ consumed' - iteration' = checkpoint.consumed /\ depth' = depth
        /\ BatchOf(due)' = checkpoint.consumed + 1
    BY <1>1, <1>2, <1>3 DEF depth, BatchOf
  <2> DEFINE saved == Over(checkpoint.log, checkpoint.skipped)
  <2>2. /\ saved \subseteq 1..checkpoint.consumed
        /\ Cardinality(Missed(checkpoint.consumed, saved)) <= depth * (restarts + 1)
    BY DEF IInv, LossBounded
  <2>3. Over(log, skipped)' = saved /\ Over(checkpoint.log, checkpoint.skipped)' = saved
    BY <1>1 DEF Over
  <2>4. Cardinality(Missed(checkpoint.consumed, saved)) \in Nat
    <3>1. IsFiniteSet(1..checkpoint.consumed)
      <4>1. 1 \in Int /\ checkpoint.consumed \in Int
        BY <1>2
      <4> QED BY <4>1, FS_Interval
    <3> QED BY <3>1, FS_Subset, FS_CardinalityType DEF Missed
  <2>5. depth * (restarts + 1) <= depth * (restarts + 2) /\ restarts + 1 + 1 = restarts + 2
    BY Numbers DEF depth
  <2>6. Cardinality(Missed(checkpoint.consumed, saved)) <= depth * (restarts + 2)
    <3>1. depth * (restarts + 1) \in Nat /\ depth * (restarts + 2) \in Nat
      BY Numbers DEF depth
    <3> HIDE DEF saved
    <3> QED BY <2>2, <2>4, <2>5, <3>1
  <2>7. /\ saved \subseteq 1..checkpoint.consumed + 1
        /\ checkpoint.consumed + 1..checkpoint.consumed + 1 - 1 \subseteq saved
    BY <1>2, <2>2
  <2>8. depth' * restarts' = depth * (restarts + 1)
        /\ depth' * (restarts' + 1) = depth * (restarts + 2)
    BY <1>1, <2>1, <2>5
  <2> HIDE DEF saved
  <2>9. Missed(consumed - iteration, Over(log, skipped))' = Missed(checkpoint.consumed, saved)
        /\ Missed(checkpoint.consumed, Over(checkpoint.log, checkpoint.skipped))'
             = Missed(checkpoint.consumed, saved)
    BY <1>1, <2>1, <2>3 DEF Missed
  <2>10. /\ Over(log, skipped)' \subseteq 1..BatchOf(due)'
         /\ consumed' - iteration' + 1..BatchOf(due)' - 1 \subseteq Over(log, skipped)'
    <3> DEFINE b == BatchOf(due)'
               begun == consumed' - iteration'
    <3>1. b = checkpoint.consumed + 1 /\ begun = checkpoint.consumed
      BY <2>1
    <3> HIDE DEF b, begun
    <3>2. saved \subseteq 1..b /\ begun + 1..b - 1 \subseteq saved
      BY <1>2, <2>7, <3>1
    <3> QED BY <2>3, <3>2 DEF b, begun
  <2>11. Cardinality(Missed(consumed - iteration, Over(log, skipped)))' <= depth' * restarts'
    BY <2>2, <2>8, <2>9
  <2>12. Cardinality(Missed(checkpoint.consumed, Over(checkpoint.log, checkpoint.skipped)))'
           <= depth' * (restarts' + 1)
    BY <2>6, <2>8, <2>9
  <2> QED BY <1>1, <2>2, <2>3, <2>10, <2>11, <2>12 DEF LossBounded
<1> QED BY <1>4, <1>5, <1>6, <1>7, <1>8, <1>9, <1>10, <1>11 DEF IInv

\* Every step keeps the invariant.
LEMMA NextKeeps == ASSUME IInv, [Next]_vars PROVE IInv'
<1>1. CASE Driver
  BY <1>1, IterationKeeps, RaiseKeeps, SyncKeeps, GenKeeps, TeachKeeps, GetKeeps, YieldKeeps,
     StepKeeps DEF Driver
<1>2. CASE Background
  BY <1>2, BackgroundKeeps DEF Background
<1>3. CASE Restart
  BY <1>3, RestartKeeps
<1>4. CASE UNCHANGED vars
  <2>1. UNCHANGED <<scheduler, phase, script, iteration, tail, futures, fut, teacher_fut, result,
                    buffer, consumed, global_steps, actor_version, rollout_version, log, skipped,
                    checkpoint, restarts>>
    BY <1>4 DEF vars
  <2>2. Position' /\ Held' = Held /\ due' = due /\ Synced' = Synced
    BY <2>1, BehindMoves
  <2>3. TypeOK'
    BY <2>1 DEF IInv, TypeOK
  <2>4. HeldIsScored'
    BY <2>1, <2>2 DEF IInv, HeldIsScored
  <2>5. BatchesInOrder' /\ GeneratedFresh' /\ NextIsFresh'
    BY <2>1, <2>2, FuturesStand
  <2>6. LearnerSound'
    <3>1. phase = "raised" => restarts > 0
      BY DEF IInv, StepsFollowData
    <3> QED BY <2>1, <2>2, <3>1, Basics, LearnerStands DEF learnerVars
  <2> QED BY <2>2, <2>3, <2>4, <2>5, <2>6 DEF IInv, LearnerSound
<1> QED BY <1>1, <1>2, <1>3, <1>4 DEF Next

\* The invariant holds in every reachable state.
LEMMA Invariance == Spec => []IInv
<1>1. Init => IInv
  BY InitIInv
<1>2. IInv /\ [Next]_vars => IInv'
  BY NextKeeps
<1> QED BY <1>1, <1>2, PTL DEF Spec

\* The variables keep their types: no step beyond the last, no update without a step.
THEOREM TypeCorrect == Spec => []TypeOK
<1>1. IInv => TypeOK
  BY DEF IInv
<1> QED BY <1>1, Invariance, PTL

\* Under both schedulers the actor trains on the scores of the very generation it
\* trains on, no get lying between the one that filled the buffer and its step, and
\* that generation is by weights at most two updates older.
THEOREM StepsBelongTogether == Spec => []StepsMatch
<1>1. IInv => StepsMatch
  BY DEF IInv, HeldIsScored, Held, ScoresMatchStep, StepsMatch
<1> QED BY <1>1, Invariance, PTL

\* A restart drops no more of the data than the scheduler had in flight.
LEMMA LossIsBounded == ASSUME IInv PROVE RestartLossBounded
<1> DEFINE over == Over(log, skipped)
           begun == consumed - iteration
           dropped == {b \in Batches : b \notin over /\ \E c \in over : b < c}
<1>1. /\ over \subseteq 1..BatchOf(due) /\ begun + 1..BatchOf(due) - 1 \subseteq over
      /\ Cardinality(Missed(begun, over)) <= depth * restarts
  BY DEF IInv, LossBounded
<1>2. begun \in Nat /\ BatchOf(due) \in Int
  BY Basics, Numbers DEF IInv, Position, BatchOf
<1>3. dropped \subseteq Missed(begun, over)
  <2> HIDE DEF over, begun
  <2> QED BY <1>1, <1>2, Numbers DEF Missed, Batches
<1>4. IsFiniteSet(Missed(begun, over))
  <2>1. 1 \in Int /\ begun \in Int
    BY <1>2
  <2> HIDE DEF begun
  <2> QED BY <2>1, FS_Interval, FS_Subset DEF Missed
<1>5. /\ Cardinality(dropped) <= Cardinality(Missed(begun, over))
      /\ Cardinality(dropped) \in Nat /\ Cardinality(Missed(begun, over)) \in Nat
  <2> HIDE DEF dropped, over, begun
  <2> QED BY <1>3, <1>4, FS_Subset, FS_CardinalityType
<1>6. depth * restarts \in Nat
  BY Numbers DEF depth
<1>7. Cardinality(dropped) <= depth * restarts
  <2> HIDE DEF dropped, over, begun
  <2> QED BY <1>1, <1>5, <1>6
<1> QED BY <1>7 DEF RestartLossBounded, Over, Trained, depth

\* The two-step scheduler trains in order and nothing twice, whatever restarts there
\* were, and everything if there were none; and no restart loses more than was in
\* flight, under either scheduler.
THEOREM DataOnce == Spec => []DataIsUsedOnce
<1>1. ASSUME IInv PROVE TwoStepTrainsInOrder
  BY <1>1 DEF IInv, LogInOrder, InOrder, TwoStepTrainsInOrder
<1>2. ASSUME IInv, scheduler = "two_step_off", phase = "returned", restarts = 0
      PROVE  Trained \cup skipped = Batches
  <2>1. global_steps = NumBatches + 1
    BY <1>2 DEF IInv, StepsFollowData
  <2>2. Trained \cup skipped = 1..due - 1 /\ global_steps = due
    BY <1>2 DEF IInv, LogIsCovered, StepsFollowData
  <2> QED BY <1>2, <2>1, <2>2, Numbers DEF Batches
<1>3. IInv => DataIsUsedOnce
  BY <1>1, <1>2, LossIsBounded DEF IInv, DataIsUsedOnce, TwoStepCoversData
<1> QED BY <1>3, Invariance, PTL

\* fit raises only in a process that resumed from a checkpoint.
THEOREM RaisesAfterRestart == Spec => [](phase = "raised" => restarts > 0)
<1>1. IInv => (phase = "raised" => restarts > 0)
  BY DEF IInv, StepsFollowData
<1> QED BY <1>1, Invariance, PTL
=============================================================================
