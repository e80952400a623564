-------------------------- MODULE TeacherRPCProofs --------------------------
(***************************************************************************)
(* Safety of the teacher client for every number of threads, workers,      *)
(* calls and retries.                                                      *)
(*                                                                          *)
(* That an answer belongs to the futures it resolves rests on the lockstep *)
(* of the REQ sockets.  WireInv says what lockstep gives: a thread has at   *)
(* most one message in flight, its socket then owes a receive, and while    *)
(* the thread waits the message carries exactly what the thread holds.  A   *)
(* timeout leaves the late message behind, but also the debt, so no later   *)
(* wait of that thread can meet it.                                         *)
(***************************************************************************)
EXTENDS TeacherRPC, SequenceTheorems, TLAPS

(* Lockstep of the REQ sockets.                                            *)
WireInv ==
  /\ \A t \in Threads : pc[t] = "recv" => sock[t] = "recv"
  /\ \A m \in msgs : sock[m.thread] = "recv"
  /\ \A m \in msgs : pc[m.thread] = "recv" => m.batch = held[m.thread]
  /\ \A m1, m2 \in msgs : m1.thread = m2.thread => m1 = m2

(* Rows are only ever the outcome of futures that did not fail, and the    *)
(* driver sleeps only while it has a retry left.                           *)
RowsInv ==
  /\ phase = "sleep" => attempt < MaxRetries
  /\ \A i \in DOMAIN rows : rows[i].kind \in {"ok", "empty"}
  /\ ReturnIsComplete

IInv == TypeOK /\ WireInv /\ AnswersMatch /\ RowsFollowBatch /\ RowsInv

\* The sizes are naturals.
LEMMA ConstantFacts ==
  /\ N \in Nat \ {0}
  /\ NumMicrobatches \in 1..N
  /\ NoFuture \in Future
  /\ \A c \in 0..Calls, a \in 0..MaxRetries : FuturesOf(c, a) \in Seq(Future)
<1>1. N \in Nat \ {0} /\ NumMicrobatches \in 1..N
  BY NAssumption, NumMicrobatchesAssumption
<1>2. NoFuture \in Future
  BY NAssumption, CallsAssumption, MaxRetriesAssumption DEF NoFuture, Future, Parts
<1>3. ASSUME NEW c \in 0..Calls, NEW a \in 0..MaxRetries PROVE FuturesOf(c, a) \in Seq(Future)
  <2>1. FuturesOf(c, a) \in [1..N -> Future]
    BY DEF FuturesOf, Future, Parts
  <2> QED BY <2>1, <1>1, SeqDef
<1> QED BY <1>1, <1>2, <1>3

(* A future that fails, or is submitted, keeps the outcome map typed.       *)
LEMMA ResolveTyped ==
  ASSUME NEW fs, NEW kind \in {"pending", "empty", "error"},
         fut \in [Future -> Outcome], Resolve(fs, kind)
  PROVE  fut' \in [Future -> Outcome]
BY ConstantFacts DEF Resolve, Outcome

(* A future that does not get an answer cannot break AnswersMatch.         *)
LEMMA ResolveKeepsMatch ==
  ASSUME NEW fs, NEW kind \in {"pending", "empty", "error"},
         AnswersMatch, Resolve(fs, kind)
  PROVE  AnswersMatch'
BY DEF Resolve, AnswersMatch

(* Submitting an attempt keeps the futures and the queue typed.            *)
LEMMA SubmitTyped ==
  ASSUME NEW c \in 0..Calls, NEW a \in 0..MaxRetries,
         fut \in [Future -> Outcome], task_queue \in Seq(Future), Submit(c, a)
  PROVE  fut' \in [Future -> Outcome] /\ task_queue' \in Seq(Future)
<1>1. fut' \in [Future -> Outcome]
  BY ResolveTyped DEF Submit
<1>2. task_queue' \in Seq(Future)
  BY ConstantFacts, ConcatProperties DEF Submit
<1> QED BY <1>1, <1>2

-----------------------------------------------------------------------------
(* The driver never touches a thread or a message.                         *)
LEMMA DriverStep == IInv /\ Driver => IInv'
<1> SUFFICES ASSUME IInv, Driver PROVE IInv'
  OBVIOUS
<1> USE ConstantFacts DEF IInv, Driver
<1>1. UNCHANGED <<pc, held, sock, msgs>>
  BY DEF StartCall, CollectRow, SeeFailure, Retry, FillRows
<1>2. WireInv'
  BY <1>1 DEF WireInv
<1>3. CASE StartCall
  <2>1. call' \in 0..Calls /\ call' = call + 1 /\ attempt' = 0 /\ 0 \in 0..MaxRetries
    BY <1>3, CallsAssumption, MaxRetriesAssumption DEF StartCall, TypeOK
  <2>2. Submit(call', 0)
    BY <1>3, <2>1 DEF StartCall
  <2>3. fut' \in [Future -> Outcome] /\ task_queue' \in Seq(Future)
    BY <2>1, <2>2, SubmitTyped DEF TypeOK
  <2>4. rows' = <<>> /\ phase' = "collect"
    BY <1>3 DEF StartCall
  <2>5. TypeOK'
    BY <1>1, <2>1, <2>3, <2>4 DEF TypeOK
  <2>6. AnswersMatch'
    BY <2>2, ResolveKeepsMatch DEF Submit
  <2>7. RowsFollowBatch' /\ RowsInv'
    BY <2>4 DEF RowsFollowBatch, RowsInv, ReturnIsComplete
  <2> QED BY <1>2, <2>5, <2>6, <2>7
<1>4. CASE CollectRow
  <2> DEFINE i == Len(rows) + 1
  <2>1. i \in Parts /\ Current(i) \in Future
    BY <1>4 DEF CollectRow, TypeOK, Parts, Current, Future
  <2>2. /\ rows' = Append(rows, fut[Current(i)])
        /\ fut[Current(i)].kind \in {"ok", "empty"}
        /\ fut[Current(i)] \in Outcome
        /\ UNCHANGED <<call, phase, attempt, fut, task_queue>>
        /\ phase = "collect"
    BY <1>4, <2>1 DEF CollectRow, TypeOK
  <2>3. TypeOK'
    BY <1>1, <1>4, <2>2 DEF CollectRow, TypeOK
  <2>4. AnswersMatch'
    BY <2>2 DEF AnswersMatch
  <2>5. fut[Current(i)].kind = "ok" => fut[Current(i)].of = Current(i)
    BY <2>1 DEF AnswersMatch
  <2>6. RowsFollowBatch'
    BY <2>2, <2>5 DEF RowsFollowBatch, Current, TypeOK
  <2>7. RowsInv'
    BY <2>2 DEF RowsInv, ReturnIsComplete, TypeOK
  <2> QED BY <1>2, <2>3, <2>4, <2>6, <2>7
<1>5. CASE SeeFailure
  <2>1. /\ phase' \in {"raised", "sleep"}
        /\ phase' = "sleep" => attempt < MaxRetries
        /\ UNCHANGED <<call, attempt, rows, fut, task_queue>>
    BY <1>5, MaxRetriesAssumption DEF SeeFailure, TypeOK
  <2> QED BY <1>1, <1>2, <2>1
       DEF TypeOK, AnswersMatch, RowsFollowBatch, RowsInv, ReturnIsComplete, Current
<1>6. CASE Retry
  <2>1. /\ attempt' = attempt + 1 /\ attempt' \in 0..MaxRetries
        /\ rows' = <<>> /\ phase' = "collect" /\ call' = call
    BY <1>6, MaxRetriesAssumption DEF Retry, RowsInv, TypeOK
  <2>2. Submit(call, attempt')
    BY <1>6, <2>1 DEF Retry
  <2>3. fut' \in [Future -> Outcome] /\ task_queue' \in Seq(Future)
    BY <2>1, <2>2, SubmitTyped DEF TypeOK
  <2>4. TypeOK'
    BY <1>1, <2>1, <2>3 DEF TypeOK
  <2>5. AnswersMatch'
    BY <2>2, ResolveKeepsMatch DEF Submit
  <2>6. RowsFollowBatch' /\ RowsInv'
    BY <2>1 DEF RowsFollowBatch, RowsInv, ReturnIsComplete
  <2> QED BY <1>2, <2>4, <2>5, <2>6
<1>7. CASE FillRows
  <2>1. /\ phase' \in {"raised", "returned"}
        /\ phase' = "returned" => Len(rows) = N /\ \A i \in Parts : rows[i].kind = "ok"
        /\ UNCHANGED <<call, attempt, rows, fut, task_queue>>
    <3>1. Len(rows) = N => \A i \in Parts : rows[i].kind \in {"ok", "empty"}
      <4>1. Len(rows) = N => DOMAIN rows = Parts
        BY DEF TypeOK, Parts
      <4> QED BY <4>1 DEF RowsInv
    <3>2. Len(rows) = N /\ UNCHANGED <<call, attempt, rows, fut, task_queue>>
      BY <1>7 DEF FillRows
    <3>3. CASE \E i \in Parts : rows[i].kind = "empty"
      BY <1>7, <3>2, <3>3 DEF FillRows
    <3>4. CASE ~ \E i \in Parts : rows[i].kind = "empty"
      BY <1>7, <3>1, <3>2, <3>4 DEF FillRows
    <3> QED BY <3>3, <3>4
  <2> QED BY <1>1, <1>2, <2>1
       DEF TypeOK, AnswersMatch, RowsFollowBatch, RowsInv, ReturnIsComplete, Current
<1> QED BY <1>3, <1>4, <1>5, <1>6, <1>7

(* The conjuncts about the driver survive every step that leaves it alone. *)
LEMMA DriverUntouched ==
  IInv /\ UNCHANGED driverVars => (RowsFollowBatch /\ RowsInv)'
BY DEF IInv, driverVars, RowsFollowBatch, RowsInv, ReturnIsComplete, Current

(* Taking the first NumMicrobatches futures of the queue keeps both typed. *)
LEMMA TakeTyped ==
  ASSUME task_queue \in Seq(Future), Len(task_queue) >= NumMicrobatches
  PROVE  /\ SubSeq(task_queue, 1, NumMicrobatches) \in Seq(Future)
         /\ SubSeq(task_queue, NumMicrobatches + 1, Len(task_queue)) \in Seq(Future)
BY ConstantFacts, SubSeqProperties

(* A thread's step.                                                        *)
LEMMA ThreadStep == ASSUME NEW t \in Threads PROVE IInv /\ Thread(t) => IInv'
<1> SUFFICES ASSUME IInv, Thread(t) PROVE IInv'
  OBVIOUS
<1> USE DEF IInv, Thread
<1>1. RowsFollowBatch' /\ RowsInv'
  <2>1. UNCHANGED driverVars
    BY DEF TakeTasks, PrepareFails, Send, SendRefused, Recv, Timeout
  <2> QED BY <2>1, DriverUntouched
<1>2. CASE TakeTasks(t)
  <2>1. TypeOK'
    BY <1>2, TakeTyped DEF TakeTasks, TypeOK, driverVars
  <2>2. WireInv'
    BY <1>2 DEF TakeTasks, WireInv, TypeOK
  <2>3. AnswersMatch'
    BY <1>2 DEF TakeTasks, AnswersMatch
  <2> QED BY <1>1, <2>1, <2>2, <2>3
<1>3. ASSUME pc[t] \in {"send", "recv"},
             NEW kind \in {"empty", "error"}, Resolve(SetOf(held[t]), kind),
             EndIteration(t), UNCHANGED <<driverVars, task_queue, sock, msgs>>
      PROVE  IInv'
  <2>1. fut' \in [Future -> Outcome]
    BY <1>3, ResolveTyped DEF TypeOK
  <2>2. TypeOK'
    BY <1>3, <2>1 DEF EndIteration, TypeOK, driverVars
  <2>3. WireInv'
    BY <1>3 DEF EndIteration, WireInv, TypeOK
  <2>4. AnswersMatch'
    BY <1>3, ResolveKeepsMatch
  <2> QED BY <1>1, <2>2, <2>3, <2>4
<1>4. CASE PrepareFails(t)
  BY <1>4, <1>3 DEF PrepareFails
<1>5. CASE SendRefused(t)
  BY <1>5, <1>3 DEF SendRefused
<1>6. CASE Timeout(t)
  BY <1>6, <1>3 DEF Timeout
<1>7. CASE Send(t)
  <2> DEFINE new == [thread |-> t, batch |-> held[t], place |-> "proxy", status |-> "asked"]
  <2>1. new \in Message
    BY DEF Message, Place, Status, TypeOK
  <2>2. TypeOK'
    BY <1>7, <2>1 DEF Send, TypeOK, driverVars
  <2>3. \A m \in msgs : m.thread # t
    BY <1>7 DEF Send, WireInv
  <2>4. WireInv'
    BY <1>7, <2>3 DEF Send, WireInv, TypeOK
  <2>5. AnswersMatch'
    BY <1>7 DEF Send, AnswersMatch
  <2> QED BY <1>1, <2>2, <2>4, <2>5
<1>8. CASE Recv(t)
  <2>1. PICK m \in msgs :
          /\ m.thread = t
          /\ msgs' = msgs \ {m}
          /\ \/ Answer(t, m.batch)
             \/ Resolve(SetOf(held[t]), "empty")
             \/ Resolve(SetOf(held[t]), "error")
    BY <1>8 DEF Recv
  <2>2. pc[t] = "recv" /\ sock' = [sock EXCEPT ![t] = "send"] /\ EndIteration(t)
        /\ UNCHANGED <<driverVars, task_queue>>
    BY <1>8 DEF Recv
  <2>3. m.batch = held[t]
    BY <2>1, <2>2 DEF WireInv
  <2>4. ASSUME Answer(t, m.batch) PROVE fut' \in [Future -> Outcome] /\ AnswersMatch'
    <3>1. ASSUME NEW f \in Future, NEW i \in DOMAIN held[t], held[t][i] = f
          PROVE  m.batch[CHOOSE j \in DOMAIN held[t] : held[t][j] = f] = f
      BY <3>1, <2>3
    <3>2. ASSUME NEW f \in Future
          PROVE  fut'[f] = fut[f] \/ fut'[f] = [kind |-> "ok", of |-> f]
      <4>1. CASE \E i \in DOMAIN held[t] : held[t][i] = f
        BY <2>4, <3>1, <4>1 DEF Answer
      <4>2. CASE ~ \E i \in DOMAIN held[t] : held[t][i] = f
        BY <2>4, <4>2 DEF Answer
      <4> QED BY <4>1, <4>2
    <3>3. ASSUME NEW f \in Future PROVE fut'[f] \in Outcome
      <4>1. fut[f] \in Outcome
        BY DEF TypeOK
      <4>2. [kind |-> "ok", of |-> f] \in Outcome
        BY DEF Outcome
      <4> QED BY <3>2, <4>1, <4>2
    <3>4. DOMAIN fut' = Future /\ fut' = [f \in Future |-> fut'[f]]
      BY <2>4 DEF Answer
    <3>5. fut' \in [Future -> Outcome]
      BY <3>3, <3>4
    <3>6. AnswersMatch'
      <4>1. ASSUME NEW f \in Future, fut'[f].kind = "ok" PROVE fut'[f].of = f
        <5>1. CASE fut'[f] = fut[f]
          BY <4>1, <5>1 DEF AnswersMatch
        <5>2. CASE fut'[f] = [kind |-> "ok", of |-> f]
          BY <5>2
        <5> QED BY <3>2, <5>1, <5>2
      <4> QED BY <4>1 DEF AnswersMatch
    <3> QED BY <3>5, <3>6
  <2>5. ASSUME NEW kind \in {"empty", "error"}, Resolve(SetOf(held[t]), kind)
        PROVE  fut' \in [Future -> Outcome] /\ AnswersMatch'
    BY <2>5, ResolveTyped, ResolveKeepsMatch DEF TypeOK
  <2>6. fut' \in [Future -> Outcome] /\ AnswersMatch'
    BY <2>1, <2>4, <2>5
  <2>7. TypeOK'
    BY <2>1, <2>2, <2>6 DEF EndIteration, TypeOK, driverVars
  <2>8. WireInv'
    BY <2>1, <2>2 DEF EndIteration, WireInv, TypeOK
  <2> QED BY <1>1, <2>6, <2>7, <2>8
<1> QED BY <1>2, <1>4, <1>5, <1>6, <1>7, <1>8

(* A step of the proxy or of a worker.                                     *)
LEMMA NetworkStep == IInv /\ Network => IInv'
<1> SUFFICES ASSUME IInv, Network PROVE IInv'
  OBVIOUS
<1>1. UNCHANGED <<driverVars, fut, task_queue, threadVars>>
  BY DEF Network, Forward, Serve, WorkerRestart
<1>2. RowsFollowBatch' /\ RowsInv' /\ AnswersMatch'
  BY <1>1, DriverUntouched DEF IInv, AnswersMatch
<1>3. ASSUME NEW m \in msgs, NEW n \in Message, n.thread = m.thread, n.batch = m.batch,
             msgs' = (msgs \ {m}) \cup {n}
      PROVE  msgs' \subseteq Message /\ WireInv'
  BY <1>1, <1>3 DEF IInv, TypeOK, WireInv, threadVars
<1>4. msgs' \subseteq Message /\ WireInv'
  <2>1. ASSUME NEW m \in msgs, NEW w \in Workers, Forward(m, w)
        PROVE  msgs' \subseteq Message /\ WireInv'
    <3> DEFINE n == [m EXCEPT !.place = w]
    <3>1. m \in Message
      BY DEF IInv, TypeOK
    <3>2. n \in Message /\ n.thread = m.thread /\ n.batch = m.batch
      BY <3>1 DEF Message, Place
    <3>3. msgs' = (msgs \ {m}) \cup {n}
      BY <2>1 DEF Forward
    <3> QED BY <3>2, <3>3, <1>3
  <2>2. ASSUME NEW m \in msgs, NEW s \in Status \ {"asked"}, Serve(m, s)
        PROVE  msgs' \subseteq Message /\ WireInv'
    <3> DEFINE n == [m EXCEPT !.place = "client", !.status = s]
    <3>1. m \in Message
      BY DEF IInv, TypeOK
    <3>2. n \in Message /\ n.thread = m.thread /\ n.batch = m.batch
      BY <3>1 DEF Message, Place
    <3>3. msgs' = (msgs \ {m}) \cup {n}
      BY <2>2 DEF Serve
    <3> QED BY <3>2, <3>3, <1>3
  <2>3. ASSUME NEW w \in Workers, WorkerRestart(w)
        PROVE  msgs' \subseteq Message /\ WireInv'
    BY <1>1, <2>3 DEF WorkerRestart, IInv, TypeOK, WireInv, threadVars
  <2> QED BY <2>1, <2>2, <2>3 DEF Network
<1>5. TypeOK'
  BY <1>1, <1>4 DEF IInv, TypeOK, driverVars, threadVars
<1> QED BY <1>2, <1>4, <1>5 DEF IInv

\* Nothing has been submitted yet.
LEMMA InitIInv == Init => IInv
<1> SUFFICES ASSUME Init PROVE IInv
  OBVIOUS
<1>1. fut \in [Future -> Outcome]
  BY ConstantFacts DEF Init, Outcome
<1>2. TypeOK
  BY <1>1, ConstantFacts, CallsAssumption, MaxRetriesAssumption DEF Init, TypeOK
<1> QED BY <1>2 DEF Init, IInv, WireInv, AnswersMatch, RowsFollowBatch, RowsInv, ReturnIsComplete

\* Every step keeps the invariant.
LEMMA NextIInv == IInv /\ [Next]_vars => IInv'
<1> SUFFICES ASSUME IInv, [Next]_vars PROVE IInv'
  OBVIOUS
<1>1. CASE Next
  BY <1>1, DriverStep, ThreadStep, NetworkStep DEF Next
<1>2. CASE UNCHANGED vars
  BY <1>2 DEF IInv, vars, TypeOK, WireInv, AnswersMatch, RowsFollowBatch, RowsInv,
              ReturnIsComplete, Current
<1> QED BY <1>1, <1>2

(* The inductive invariant holds in every behaviour.                       *)
THEOREM Safety == Spec => []IInv
BY InitIInv, NextIInv, PTL DEF Spec

(* Type correctness of the client, the queue, the sockets and the wire.    *)
THEOREM TypeCorrect == Spec => []TypeOK
BY Safety, PTL DEF IInv

(* A future that bg_task resolves with scores has the scores of its own     *)
(* prompts, for every number of threads, timeouts, retries and restarts.   *)
THEOREM AnswersAreMatched == Spec => []AnswersMatch
BY Safety, PTL DEF IInv

(* The rows handle_futures collects follow the batch, whatever attempts    *)
(* failed half way.                                                        *)
THEOREM RowsAreInOrder == Spec => []RowsFollowBatch
BY Safety, PTL DEF IInv

(* A call that returns has one scored row group for each microbatch.       *)
THEOREM ReturnsAreComplete == Spec => []ReturnIsComplete
<1>1. IInv => ReturnIsComplete
  BY DEF IInv, RowsInv
<1> QED BY Safety, <1>1, PTL

-----------------------------------------------------------------------------
(* Every future of the teacher client is resolved at most once, and a      *)
(* thread that timed out never scores again.                               *)
(*                                                                          *)
(* Both rest on who owns a future.  QueueInv says that a pending future    *)
(* that is queued is queued once, that the threads' futures are neither    *)
(* queued nor shared, and that attempts not yet begun are untouched, so a  *)
(* retry submits fresh futures.                                            *)

Pending(f) == fut[f].kind = "pending"

(* The future belongs to an attempt the driver has begun.                  *)
Begun(f) == f.call < call \/ (f.call = call /\ f.attempt <= attempt)

QueuedOnce ==
  /\ \A i \in DOMAIN task_queue : Pending(task_queue[i])
  /\ \A i, j \in DOMAIN task_queue : task_queue[i] = task_queue[j] => i = j

HeldAlone ==
  /\ \A t \in Threads : pc[t] = "take" => held[t] = <<>>
  /\ \A t \in Threads : \A i \in DOMAIN held[t] : Pending(held[t][i])
  /\ \A t \in Threads : \A i \in DOMAIN held[t], j \in DOMAIN task_queue :
       held[t][i] # task_queue[j]
  /\ \A t1, t2 \in Threads : t1 # t2 =>
       \A i \in DOMAIN held[t1], j \in DOMAIN held[t2] : held[t1][i] # held[t2][j]

FreshAhead == \A f \in Future : ~ Begun(f) => fut[f].kind = "unsubmitted"

QueueInv == QueuedOnce /\ HeldAlone /\ FreshAhead

(* What one step does to the futures.                                      *)
Once == \A f \in Future : fut[f].kind \notin {"unsubmitted", "pending"} => fut'[f] = fut[f]

(* What one step does to a thread whose socket still owes a receive.       *)
Lost == \A t \in Threads : Wedged(t) =>
          /\ Wedged(t)'
          /\ \A f \in SetOf(held[t]) : fut'[f].kind \in {"pending", "error"}

-----------------------------------------------------------------------------
(* Beginning an attempt submits futures nobody has seen.                   *)
LEMMA SubmitOnce ==
  ASSUME TypeOK, QueueInv, UNCHANGED <<pc, held>>,
         NEW c \in 0..Calls, NEW a \in 0..MaxRetries,
         call' = c, attempt' = a, Submit(c, a),
         \/ c = call + 1 /\ a = 0
         \/ c = call /\ a = attempt + 1
  PROVE  QueueInv' /\ Once
<1> DEFINE new == FuturesOf(c, a)
<1> DEFINE Fresh(f) == f \in SetOf(new)
<1>1. /\ new \in Seq(Future) /\ Len(new) = N /\ DOMAIN new = 1..N
      /\ \A i \in 1..N : new[i] = [call |-> c, attempt |-> a, part |-> i]
  <2>1. new \in Seq(Future)
    BY ConstantFacts
  <2> QED BY <2>1, ConstantFacts DEF FuturesOf, Parts
<1>2. \A i, j \in 1..N : new[i] = new[j] => i = j
  BY <1>1
<1> DEFINE BegunNext(f) == f.call < c \/ (f.call = c /\ f.attempt <= a)
<1>0. \A f \in Future : Begun(f) => BegunNext(f) /\ ~ (f.call = c /\ f.attempt = a)
  BY CallsAssumption, MaxRetriesAssumption DEF Begun, Future, TypeOK
<1>3. \A f \in Future : Fresh(f) => fut[f].kind = "unsubmitted" /\ ~ Begun(f)
  <2>1. \A f \in Future : Fresh(f) => f.call = c /\ f.attempt = a
    BY <1>1 DEF SetOf
  <2> QED BY <2>1, <1>0 DEF QueueInv, FreshAhead
<1>4. \A f \in Future : fut'[f] = IF Fresh(f) THEN [kind |-> "pending", of |-> NoFuture] ELSE fut[f]
  BY DEF Submit, Resolve
<1>5. Once
  BY <1>3, <1>4 DEF Once
<1>6. FreshAhead'
  <2>1. ASSUME NEW f \in Future, ~ BegunNext(f) PROVE fut'[f].kind = "unsubmitted"
    <3>1. ~ Begun(f)
      BY <2>1, <1>0
    <3>2. ~ Fresh(f)
      BY <2>1, <1>1, MaxRetriesAssumption DEF SetOf
    <3> QED BY <3>1, <3>2, <1>4 DEF QueueInv, FreshAhead
  <2> QED BY <2>1 DEF FreshAhead, Begun
<1>7. \A f \in Future : Pending(f) => Pending(f)' /\ ~ Fresh(f)
  BY <1>3, <1>4 DEF Pending
<1>8. \A f \in Future : Fresh(f) => Pending(f)'
  BY <1>4 DEF Pending
<1>9. /\ task_queue \in Seq(Future) /\ DOMAIN task_queue = 1 .. Len(task_queue)
      /\ Len(task_queue) \in Nat
  BY DEF TypeOK
<1>10. /\ task_queue' = task_queue \o new
       /\ task_queue' \in Seq(Future)
       /\ Len(task_queue') = Len(task_queue) + N
       /\ DOMAIN task_queue' = 1 .. Len(task_queue) + N
       /\ \A i \in 1 .. Len(task_queue) + N :
            task_queue'[i] = IF i <= Len(task_queue) THEN task_queue[i]
                                                     ELSE new[i - Len(task_queue)]
  <2>1. task_queue' = task_queue \o new
    BY DEF Submit
  <2>2. Len(task_queue) + N \in Nat
    BY <1>9, ConstantFacts
  <2> HIDE DEF new
  <2>3. /\ task_queue \o new \in Seq(Future)
        /\ Len(task_queue \o new) = Len(task_queue) + N
        /\ \A i \in 1 .. Len(task_queue) + N :
             (task_queue \o new)[i] = IF i <= Len(task_queue) THEN task_queue[i]
                                                      ELSE new[i - Len(task_queue)]
    BY <1>1, <1>9, ConcatProperties
  <2> QED BY <2>1, <2>2, <2>3
<1>11. \A i \in DOMAIN task_queue : task_queue[i] \in Future /\ Pending(task_queue[i])
  BY <1>9 DEF QueueInv, QueuedOnce
<1>12. \A i \in 1..N : new[i] \in Future /\ Fresh(new[i])
  BY <1>1 DEF SetOf
<1>13. \A i \in DOMAIN task_queue' :
          \/ i \in DOMAIN task_queue /\ task_queue'[i] = task_queue[i]
          \/ i - Len(task_queue) \in 1..N /\ task_queue'[i] = new[i - Len(task_queue)]
  BY <1>9, <1>10, ConstantFacts
<1>14. QueuedOnce'
  <2>1. ASSUME NEW i \in DOMAIN task_queue' PROVE fut'[task_queue'[i]].kind = "pending"
    <3>1. CASE i \in DOMAIN task_queue /\ task_queue'[i] = task_queue[i]
      BY <3>1, <1>7, <1>11 DEF Pending
    <3>2. CASE i - Len(task_queue) \in 1..N /\ task_queue'[i] = new[i - Len(task_queue)]
      BY <3>2, <1>8, <1>12 DEF Pending
    <3> QED BY <3>1, <3>2, <1>13
  <2>2. ASSUME NEW i \in DOMAIN task_queue', NEW j \in DOMAIN task_queue',
               task_queue'[i] = task_queue'[j]
        PROVE  i = j
    <3>1. \A k \in DOMAIN task_queue, l \in 1..N : task_queue[k] # new[l]
      BY <1>7, <1>11, <1>12
    <3>2. \A k, l \in DOMAIN task_queue : task_queue[k] = task_queue[l] => k = l
      BY DEF QueueInv, QueuedOnce
    <3>3. i \in Int /\ j \in Int /\ Len(task_queue) \in Int
      BY <1>9, <1>10, ConstantFacts
    <3>4. CASE i - Len(task_queue) \in 1..N /\ j - Len(task_queue) \in 1..N
      BY <2>2, <3>3, <3>4, <1>2, <1>9, <1>10
    <3>5. CASE i \in DOMAIN task_queue /\ j \in DOMAIN task_queue
      BY <2>2, <3>2, <3>5, <1>9, <1>10
    <3>6. CASE i \in DOMAIN task_queue /\ j - Len(task_queue) \in 1..N
      BY <2>2, <3>1, <3>3, <3>6, <1>9, <1>10
    <3>7. CASE j \in DOMAIN task_queue /\ i - Len(task_queue) \in 1..N
      BY <2>2, <3>1, <3>3, <3>7, <1>9, <1>10
    <3> QED BY <3>4, <3>5, <3>6, <3>7, <1>13
  <2> QED BY <2>1, <2>2 DEF QueuedOnce, Pending
<1>15. HeldAlone'
  <2>1. \A t \in Threads : \A i \in DOMAIN held[t] : held[t][i] \in Future /\ Pending(held[t][i])
    BY DEF QueueInv, HeldAlone, TypeOK
  <2>2. ASSUME NEW t \in Threads, NEW i \in DOMAIN held[t], NEW j \in DOMAIN task_queue'
        PROVE  held[t][i] # task_queue'[j]
    <3>1. \A k \in DOMAIN task_queue : held[t][i] # task_queue[k]
      BY DEF QueueInv, HeldAlone
    <3>2. \A k \in 1..N : held[t][i] # new[k]
      BY <2>1, <1>7, <1>12
    <3> QED BY <3>1, <3>2, <1>13
  <2>3. \A t \in Threads : \A i \in DOMAIN held[t] : Pending(held[t][i])'
    BY <2>1, <1>7
  <2> QED BY <2>2, <2>3 DEF QueueInv, HeldAlone, Pending
<1> QED BY <1>5, <1>6, <1>14, <1>15 DEF QueueInv

-----------------------------------------------------------------------------
(* A step that leaves the futures, the queue and what is held alone.       *)
LEMMA FuturesUntouched ==
  ASSUME QueueInv, UNCHANGED <<call, attempt, fut, task_queue, held>>,
         \A t \in Threads : pc'[t] = "take" => held[t] = <<>>
  PROVE  QueueInv' /\ Once
BY DEF QueueInv, QueuedOnce, HeldAlone, FreshAhead, Pending, Begun, Once

(* What a wedged thread holds is pending, so while its futures, its socket *)
(* and its place in the loop stay as they are, it stays lost.              *)
LEMMA StaysLost ==
  ASSUME TypeOK, QueueInv', NEW t \in Threads, Wedged(t),
         pc'[t] = pc[t], sock'[t] = sock[t], held'[t] = held[t]
  PROVE  Wedged(t)' /\ \A f \in SetOf(held[t]) : fut'[f].kind \in {"pending", "error"}
BY DEF QueueInv, HeldAlone, Pending, Wedged, SetOf

\* No step of the driver changes a settled future or frees a thread that still owes a receive,
LEMMA DriverOnce == IInv /\ QueueInv /\ Driver => QueueInv' /\ Once /\ Lost
<1> SUFFICES ASSUME IInv, QueueInv, Driver PROVE QueueInv' /\ Once /\ Lost
  OBVIOUS
<1>1. UNCHANGED <<pc, held, sock, msgs>>
  BY DEF Driver, StartCall, CollectRow, SeeFailure, Retry, FillRows
<1>2. TypeOK
  BY DEF IInv
<1>3. ASSUME StartCall PROVE QueueInv' /\ Once
  <2>1. call' \in 0..Calls /\ call' = call + 1 /\ attempt' = 0 /\ 0 \in 0..MaxRetries
    BY <1>2, <1>3, CallsAssumption, MaxRetriesAssumption DEF StartCall, TypeOK
  <2>2. Submit(call', 0)
    BY <1>3, <2>1 DEF StartCall
  <2> QED BY <1>1, <1>2, <2>1, <2>2, SubmitOnce
<1>4. ASSUME Retry PROVE QueueInv' /\ Once
  <2>1. attempt' = attempt + 1 /\ attempt' \in 0..MaxRetries /\ call' = call /\ call \in 0..Calls
    BY <1>2, <1>4, MaxRetriesAssumption DEF Retry, RowsInv, IInv, TypeOK
  <2>2. Submit(call, attempt')
    BY <1>4, <2>1 DEF Retry
  <2> QED BY <1>1, <1>2, <2>1, <2>2, SubmitOnce
<1>5. ASSUME CollectRow \/ SeeFailure \/ FillRows PROVE QueueInv' /\ Once
  <2>1. UNCHANGED <<call, attempt, fut, task_queue>>
    BY <1>5 DEF CollectRow, SeeFailure, FillRows
  <2> QED BY <1>1, <2>1, FuturesUntouched DEF QueueInv, HeldAlone
<1>6. QueueInv' /\ Once
  BY <1>3, <1>4, <1>5 DEF Driver
<1>7. Lost
  BY <1>1, <1>2, <1>6, StaysLost DEF Lost
<1> QED BY <1>6, <1>7

-----------------------------------------------------------------------------
(* A thread that resolves everything it holds and goes back to the queue:  *)
(* the futures it changes are pending and nobody else's.                   *)
LEMMA ResolveOnce ==
  ASSUME TypeOK, QueueInv, NEW t \in Threads,
         DOMAIN fut' = Future,
         \A f \in Future : f \notin SetOf(held[t]) => fut'[f] = fut[f],
         EndIteration(t), UNCHANGED <<call, attempt, task_queue>>
  PROVE  QueueInv' /\ Once
<1>1. \A f \in SetOf(held[t]) : f \in Future /\ Pending(f) /\ Begun(f)
  BY DEF SetOf, QueueInv, HeldAlone, FreshAhead, Pending, TypeOK
<1>2. Once
  BY <1>1 DEF Once, Pending
<1>3. FreshAhead'
  BY <1>1 DEF QueueInv, FreshAhead, Begun
<1>4. QueuedOnce'
  <2>1. ASSUME NEW i \in DOMAIN task_queue PROVE fut'[task_queue[i]] = fut[task_queue[i]]
    <3>1. task_queue[i] \in Future
      BY DEF TypeOK
    <3>2. task_queue[i] \notin SetOf(held[t])
      BY DEF QueueInv, HeldAlone, SetOf
    <3> QED BY <3>1, <3>2
  <2> QED BY <2>1 DEF QueueInv, QueuedOnce, Pending
<1>5. HeldAlone'
  <2>1. /\ held'[t] = <<>>
        /\ \A u \in Threads \ {t} : held'[u] = held[u] /\ pc'[u] = pc[u]
    BY DEF EndIteration, TypeOK
  <2>2. ASSUME NEW u \in Threads \ {t}, NEW i \in DOMAIN held[u]
        PROVE  fut'[held[u][i]] = fut[held[u][i]]
    <3>1. held[u][i] \in Future
      BY DEF TypeOK
    <3>2. held[u][i] \notin SetOf(held[t])
      BY DEF QueueInv, HeldAlone, SetOf
    <3> QED BY <3>1, <3>2
  <2> QED BY <2>1, <2>2 DEF QueueInv, HeldAlone, Pending
<1> QED BY <1>2, <1>3, <1>4, <1>5 DEF QueueInv

(* Taking the head of the queue moves each future from one owner to one.   *)
LEMMA TakeOnce ==
  ASSUME TypeOK, QueueInv, NEW t \in Threads, TakeTasks(t)
  PROVE  QueueInv' /\ Once
<1> DEFINE n == NumMicrobatches
<1> DEFINE L == Len(task_queue)
<1> DEFINE head == SubSeq(task_queue, 1, n)
<1> DEFINE tail == SubSeq(task_queue, n + 1, L)
<1>1. /\ task_queue \in Seq(Future) /\ DOMAIN task_queue = 1..L /\ L \in Nat
      /\ n \in Nat \ {0} /\ n <= L
  BY ConstantFacts DEF TakeTasks, TypeOK
<1>2. /\ DOMAIN head = 1..n
      /\ \A i \in 1..n : head[i] = task_queue[i]
  BY <1>1, SubSeqProperties
<1>3. /\ DOMAIN tail = 1 .. L - n
      /\ \A i \in 1 .. L - n : tail[i] = task_queue[n + i]
  BY <1>1, SubSeqProperties
<1>4. /\ held'[t] = head /\ task_queue' = tail /\ pc'[t] = "send"
      /\ \A u \in Threads \ {t} : held'[u] = held[u] /\ pc'[u] = pc[u]
      /\ UNCHANGED <<call, attempt, fut>>
  BY DEF TakeTasks, TypeOK, driverVars
<1> HIDE DEF n, L, head, tail
<1>5. QueuedOnce'
  <2>1. ASSUME NEW i \in 1 .. L - n PROVE n + i \in 1..L
    BY <1>1
  <2>2. \A i \in 1 .. L - n : fut[tail[i]].kind = "pending"
    BY <2>1, <1>1, <1>3 DEF QueueInv, QueuedOnce, Pending
  <2>3. ASSUME NEW i \in 1 .. L - n, NEW j \in 1 .. L - n, tail[i] = tail[j] PROVE i = j
    <3>1. n + i = n + j
      BY <2>1, <2>3, <1>1, <1>3 DEF QueueInv, QueuedOnce
    <3> QED BY <3>1, <1>1
  <2> QED BY <2>2, <2>3, <1>3, <1>4 DEF QueuedOnce, Pending
<1>6. \A i \in DOMAIN head, j \in DOMAIN tail : head[i] # tail[j]
  <2>1. ASSUME NEW i \in 1..n, NEW j \in 1 .. L - n PROVE task_queue[i] # task_queue[n + j]
    BY <1>1 DEF QueueInv, QueuedOnce
  <2> QED BY <2>1, <1>2, <1>3
<1>7. HeldAlone'
  <2>1. ASSUME NEW i \in DOMAIN head PROVE i \in DOMAIN task_queue /\ head[i] = task_queue[i]
    BY <1>1, <1>2
  <2>2. ASSUME NEW j \in DOMAIN tail
        PROVE  n + j \in DOMAIN task_queue /\ tail[j] = task_queue[n + j]
    BY <1>1, <1>3
  <2>3. ASSUME NEW u \in Threads \ {t}, NEW i \in DOMAIN held[u]
        PROVE  /\ Pending(held[u][i])
               /\ \A j \in DOMAIN head : head[j] # held[u][i]
               /\ \A j \in DOMAIN tail : tail[j] # held[u][i]
    BY <2>1, <2>2 DEF QueueInv, HeldAlone
  <2>4. \A i \in DOMAIN head : Pending(head[i])
    BY <2>1 DEF QueueInv, QueuedOnce
  <2>5. \A u \in Threads : pc'[u] = "take" => held'[u] = <<>>
    BY <1>4 DEF QueueInv, HeldAlone
  <2>6. \A u \in Threads : \A i \in DOMAIN held'[u] : fut'[held'[u][i]].kind = "pending"
    BY <1>4, <2>3, <2>4 DEF Pending
  <2>7. \A u \in Threads : \A i \in DOMAIN held'[u], j \in DOMAIN task_queue' :
          held'[u][i] # task_queue'[j]
    BY <1>4, <1>6, <2>3
  <2>8. \A u1, u2 \in Threads : u1 # u2 =>
          \A i \in DOMAIN held'[u1], j \in DOMAIN held'[u2] : held'[u1][i] # held'[u2][j]
    BY <1>4, <2>3 DEF QueueInv, HeldAlone
  <2> QED BY <2>5, <2>6, <2>7, <2>8 DEF HeldAlone, Pending
<1>8. FreshAhead' /\ Once
  BY <1>4 DEF QueueInv, FreshAhead, Begun, Once
<1> QED BY <1>5, <1>7, <1>8 DEF QueueInv

\* nor does one of a thread,
LEMMA ThreadOnce ==
  ASSUME NEW t \in Threads PROVE IInv /\ QueueInv /\ Thread(t) => QueueInv' /\ Once /\ Lost
<1> SUFFICES ASSUME IInv, QueueInv, Thread(t) PROVE QueueInv' /\ Once /\ Lost
  OBVIOUS
<1>1. TypeOK
  BY DEF IInv
<1>2. ASSUME Recv(t) PROVE \A f \in Future : f \notin SetOf(held[t]) => fut'[f] = fut[f]
  <2>1. PICK m \in msgs :
          \/ Answer(t, m.batch)
          \/ Resolve(SetOf(held[t]), "empty")
          \/ Resolve(SetOf(held[t]), "error")
    BY <1>2 DEF Recv
  <2>2. CASE Answer(t, m.batch)
    BY <2>2 DEF Answer, SetOf
  <2> QED BY <2>1, <2>2 DEF Resolve
<1>3. ASSUME PrepareFails(t) \/ SendRefused(t) \/ Recv(t) \/ Timeout(t)
      PROVE  QueueInv' /\ Once
  <2>1. EndIteration(t) /\ UNCHANGED <<call, attempt, task_queue>>
    BY <1>3 DEF PrepareFails, SendRefused, Recv, Timeout, driverVars
  <2>2. DOMAIN fut' = Future
    BY <1>3 DEF PrepareFails, SendRefused, Recv, Timeout, Resolve, Answer
  <2>3. \A f \in Future : f \notin SetOf(held[t]) => fut'[f] = fut[f]
    BY <1>2, <1>3 DEF PrepareFails, SendRefused, Timeout, Resolve
  <2> QED BY <1>1, <2>1, <2>2, <2>3, ResolveOnce
<1>4. ASSUME Send(t) PROVE QueueInv' /\ Once
  <2>1. UNCHANGED <<call, attempt, fut, task_queue, held>>
    BY <1>4 DEF Send, driverVars
  <2>2. \A u \in Threads : pc'[u] = "take" => held[u] = <<>>
    BY <1>1, <1>4 DEF Send, TypeOK, QueueInv, HeldAlone
  <2> QED BY <2>1, <2>2, FuturesUntouched
<1>5. QueueInv' /\ Once
  BY <1>1, <1>3, <1>4, TakeOnce DEF Thread
<1>6. Lost
  <2>1. ASSUME NEW u \in Threads \ {t}, Wedged(u)
        PROVE  Wedged(u)' /\ \A f \in SetOf(held[u]) : fut'[f].kind \in {"pending", "error"}
    <3>1. pc'[u] = pc[u] /\ sock'[u] = sock[u] /\ held'[u] = held[u]
      BY <1>1 DEF Thread, TakeTasks, PrepareFails, Send, SendRefused, Recv, Timeout,
                  EndIteration, TypeOK
    <3> QED BY <1>1, <1>5, <2>1, <3>1, StaysLost
  <2>2. ASSUME Wedged(t)
        PROVE  Wedged(t)' /\ \A f \in SetOf(held[t]) : fut'[f].kind \in {"pending", "error"}
    <3>1. sock[t] = "recv" /\ pc[t] # "recv"
      BY <2>2 DEF Wedged
    <3>2. CASE TakeTasks(t)
      <4>1. SetOf(held[t]) = {}
        BY <3>2 DEF TakeTasks, QueueInv, HeldAlone, SetOf
      <4>2. sock'[t] = "recv" /\ pc'[t] = "send"
        BY <1>1, <3>1, <3>2 DEF TakeTasks, TypeOK
      <4> QED BY <4>1, <4>2 DEF Wedged
    <3>3. CASE PrepareFails(t) \/ SendRefused(t)
      <4>1. sock'[t] = "recv" /\ pc'[t] = "take"
        BY <1>1, <3>1, <3>3 DEF PrepareFails, SendRefused, EndIteration, TypeOK
      <4>2. \A f \in SetOf(held[t]) : f \in Future
        BY <1>1 DEF SetOf, TypeOK
      <4>3. \A f \in SetOf(held[t]) : fut'[f].kind = "error"
        BY <3>3, <4>2 DEF PrepareFails, SendRefused, Resolve
      <4> QED BY <4>1, <4>3 DEF Wedged
    <3> QED BY <3>1, <3>2, <3>3 DEF Thread, Send, Recv, Timeout
  <2> QED BY <2>1, <2>2 DEF Lost
<1> QED BY <1>5, <1>6

\* nor one of the network.
LEMMA NetworkOnce == IInv /\ QueueInv /\ Network => QueueInv' /\ Once /\ Lost
<1> SUFFICES ASSUME IInv, QueueInv, Network PROVE QueueInv' /\ Once /\ Lost
  OBVIOUS
<1>1. UNCHANGED <<driverVars, fut, task_queue, threadVars>>
  BY DEF Network, Forward, Serve, WorkerRestart
<1>2. QueueInv' /\ Once
  BY <1>1, FuturesUntouched DEF driverVars, threadVars, QueueInv, HeldAlone
<1>3. Lost
  BY <1>1, <1>2, StaysLost DEF IInv, threadVars, Lost
<1> QED BY <1>2, <1>3

\* The queue is empty at first.
LEMMA InitQueueInv == Init => QueueInv
BY DEF Init, QueueInv, QueuedOnce, HeldAlone, FreshAhead

\* So no step does, and the queue stays right.
LEMMA NextOnce == IInv /\ QueueInv /\ [Next]_vars => QueueInv' /\ Once /\ Lost
<1> SUFFICES ASSUME IInv, QueueInv, [Next]_vars PROVE QueueInv' /\ Once /\ Lost
  OBVIOUS
<1>1. CASE Next
  BY <1>1, DriverOnce, ThreadOnce, NetworkOnce DEF Next
<1>2. CASE UNCHANGED vars
  <2>1. QueueInv' /\ Once
    BY <1>2, FuturesUntouched DEF vars, QueueInv, HeldAlone
  <2>2. Lost
    BY <1>2, <2>1, StaysLost DEF IInv, vars, Lost
  <2> QED BY <2>1, <2>2
<1> QED BY <1>1, <1>2

(* Who owns a pending future, in every behaviour.                          *)
THEOREM Ownership == Spec => []QueueInv
BY InitQueueInv, NextOnce, Safety, PTL DEF Spec

(* bg_task never resolves a future that is already resolved, for every     *)
(* number of threads, timeouts and retries.                                *)
THEOREM FuturesResolveOnce == Spec => ResolvedOnce
<1>1. IInv /\ QueueInv /\ [Next]_vars =>
        [\A f \in Future : fut[f].kind \notin {"unsubmitted", "pending"} => fut'[f] = fut[f]]_vars
  BY NextOnce DEF Once
<1> QED BY <1>1, Safety, Ownership, PTL DEF Spec, ResolvedOnce

(* A thread whose request timed out never scores anything again.           *)
THEOREM TimedOutStaysLost == Spec => TimedOutThreadIsLost
<1>1. IInv /\ QueueInv /\ [Next]_vars =>
        [\A t \in Threads : Wedged(t) =>
           /\ Wedged(t)'
           /\ \A f \in SetOf(held[t]) : fut'[f].kind \in {"pending", "error"}]_vars
  BY NextOnce DEF Lost
<1> QED BY <1>1, Safety, Ownership, PTL DEF Spec, TimedOutThreadIsLost

=============================================================================
