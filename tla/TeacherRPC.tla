----------------------------- MODULE TeacherRPC -----------------------------
(***************************************************************************)
(* Teacher scoring over ZeroMQ: the TeacherClient of the OPD reward         *)
(* manager, its n_server_workers background threads, the ROUTER/DEALER      *)
(* proxy and the teacher workers behind it.                                 *)
(*                                                                          *)
(* The driver (get_teacher_knowledge) splits a batch into N microbatches,   *)
(* queues one future for each, waits for the futures in order and, when one *)
(* fails, sleeps and resubmits all of them, at most MaxRetries times.  The  *)
(* futures of the failed attempt stay in the queue or in flight: nothing    *)
(* cancels them.  A background thread takes NumMicrobatches futures, sends  *)
(* one request on its own REQ socket and waits for the reply or for the     *)
(* receive timeout.                                                         *)
(*                                                                          *)
(* External, modelled from how the client uses it: the REQ socket, which    *)
(* must alternate send and receive and refuses a send while it still owes a *)
(* receive (no REQ_RELAXED is set), and the network.                        *)
(***************************************************************************)
EXTENDS Naturals, Sequences

CONSTANTS
  N,               \* n_server_workers: threads, and microbatches per call
  NumMicrobatches, \* futures one request carries (1 in the reward manager)
  Workers,         \* teacher worker processes behind the proxy
  Calls,           \* bound: calls of get_teacher_knowledge explored
  MaxRetries       \* MAX_RETRIES

ASSUME NAssumption == N \in Nat \ {0}
ASSUME NumMicrobatchesAssumption == NumMicrobatches \in 1..N
ASSUME CallsAssumption == Calls \in Nat
ASSUME MaxRetriesAssumption == MaxRetries \in Nat

Threads == 1..N
Parts   == 1..N

(* A future, named by the call and attempt that submitted it and by the    *)
(* position of its microbatch in the batch.                                *)
Future == [call : 0..Calls, attempt : 0..MaxRetries, part : Parts]

(* What a future can hold.  "ok" carries the future whose prompts the      *)
(* teacher scored, so that an answer to other prompts is visible; "empty"  *)
(* is the inf sentinel of _empty_teacher_result.                           *)
Outcome == [kind : {"unsubmitted", "pending", "ok", "empty", "error"}, of : Future]

(* A message between a thread's socket and a worker.  It is at the proxy,  *)
(* queued at a worker, or, answered, waiting in the client's socket.       *)
Place   == {"proxy", "client"} \cup Workers
Status  == {"asked", "ok", "context", "failed"}
Message == [thread : Threads, batch : Seq(Future), place : Place, status : Status]

ASSUME WorkersAssumption == "proxy" \notin Workers /\ "client" \notin Workers

VARIABLES
  call,       \* calls of get_teacher_knowledge begun
  phase,      \* where the driver is
  attempt,    \* retry_count
  rows,       \* outcomes handle_futures has extended its lists with
  fut,        \* every future's outcome
  task_queue, \* queue.Queue of futures not yet taken
  pc,         \* where each background thread is
  held,       \* the futures each thread works on
  sock,       \* the call each REQ socket accepts next
  msgs        \* messages in flight

driverVars == <<call, phase, attempt, rows>>
threadVars == <<pc, held, sock>>
vars == <<call, phase, attempt, rows, fut, task_queue, pc, held, sock, msgs>>

-----------------------------------------------------------------------------
NoFuture == [call |-> 0, attempt |-> 0, part |-> 1]

(* The futures of one attempt, in the order in which they are submitted.   *)
FuturesOf(c, a) == [i \in Parts |-> [call |-> c, attempt |-> a, part |-> i]]

Current(i) == [call |-> call, attempt |-> attempt, part |-> i]

Resolve(fs, kind) ==
  fut' = [f \in Future |-> IF f \in fs THEN [kind |-> kind, of |-> NoFuture] ELSE fut[f]]

SetOf(batch) == {batch[i] : i \in DOMAIN batch}

Submit(c, a) ==
  /\ Resolve(SetOf(FuturesOf(c, a)), "pending")
  /\ task_queue' = task_queue \o FuturesOf(c, a)

Init ==
  /\ call = 0
  /\ phase = "idle"
  /\ attempt = 0
  /\ rows = <<>>
  /\ fut = [f \in Future |-> [kind |-> "unsubmitted", of |-> NoFuture]]
  /\ task_queue = <<>>
  /\ pc = [t \in Threads |-> "take"]
  /\ held = [t \in Threads |-> <<>>]
  /\ sock = [t \in Threads |-> "send"]
  /\ msgs = {}

-----------------------------------------------------------------------------
(* The driver: get_teacher_knowledge and its handle_futures.               *)

StartCall ==
  /\ phase \in {"idle", "returned"}
  /\ call < Calls
  /\ call' = call + 1
  /\ attempt' = 0
  /\ rows' = <<>>
  /\ phase' = "collect"
  /\ Submit(call + 1, 0)
  /\ UNCHANGED <<pc, held, sock, msgs>>

CollectRow ==
  /\ phase = "collect"
  /\ Len(rows) < N
  /\ fut[Current(Len(rows) + 1)].kind \in {"ok", "empty"}
  /\ rows' = Append(rows, fut[Current(Len(rows) + 1)])
  /\ UNCHANGED <<call, phase, attempt, fut, task_queue, pc, held, sock, msgs>>

(* Mutant: one attempt too many.                                           *)
(* Mutant: a failure ends the loop with the rows read so far.              *)
SeeFailureBreaks ==
  /\ phase = "collect"
  /\ Len(rows) < N
  /\ fut[Current(Len(rows) + 1)].kind = "error"
  /\ phase' = "returned"
  /\ UNCHANGED <<call, attempt, rows, fut, task_queue, pc, held, sock, msgs>>

SeeFailure ==
  /\ phase = "collect"
  /\ Len(rows) < N
  /\ fut[Current(Len(rows) + 1)].kind = "error"
  /\ phase' = IF attempt = MaxRetries THEN "raised" ELSE "sleep"
  /\ UNCHANGED <<call, attempt, rows, fut, task_queue, pc, held, sock, msgs>>

(* Mutant: the lists are not cleared before the microbatches are resubmitted. *)
RetryKeepsRows ==
  /\ phase = "sleep"
  /\ attempt' = attempt + 1
  /\ phase' = "collect"
  /\ Submit(call, attempt + 1)
  /\ UNCHANGED <<call, rows, pc, held, sock, msgs>>

Retry ==
  /\ phase = "sleep"
  /\ attempt' = attempt + 1
  /\ rows' = <<>>
  /\ phase' = "collect"
  /\ Submit(call, attempt + 1)
  /\ UNCHANGED <<call, pc, held, sock, msgs>>

(* Every row is in: each is passed to _select_actual_teacher_logps, which   *)
(* raises on a sentinel row, since its token list is empty and it has one  *)
(* row of logprobs.  This is after the retry loop.                         *)
FillRows ==
  /\ phase = "collect"
  /\ Len(rows) = N
  /\ phase' = IF \E i \in Parts : rows[i].kind = "empty" THEN "raised" ELSE "returned"
  /\ UNCHANGED <<call, attempt, rows, fut, task_queue, pc, held, sock, msgs>>

-----------------------------------------------------------------------------
(* A background thread: bg_task.  The mutex makes its NumMicrobatches gets *)
(* one step with respect to the other threads.                             *)

TakeTasks(t) ==
  /\ pc[t] = "take"
  /\ Len(task_queue) >= NumMicrobatches
  /\ held' = [held EXCEPT ![t] = SubSeq(task_queue, 1, NumMicrobatches)]
  /\ task_queue' = SubSeq(task_queue, NumMicrobatches + 1, Len(task_queue))
  /\ pc' = [pc EXCEPT ![t] = "send"]
  /\ UNCHANGED <<driverVars, fut, sock, msgs>>

(* The thread's iteration ends and it goes back to the queue.              *)
EndIteration(t) ==
  /\ pc' = [pc EXCEPT ![t] = "take"]
  /\ held' = [held EXCEPT ![t] = <<>>]

(* Mutant: an error before the send leaves the futures unresolved.         *)
PrepareFailsSilently(t) ==
  /\ pc[t] = "send"
  /\ EndIteration(t)
  /\ UNCHANGED <<driverVars, fut, task_queue, sock, msgs>>

(* Re-tokenising or the max_seq_len check raises before anything is sent.  *)
PrepareFails(t) ==
  /\ pc[t] = "send"
  /\ Resolve(SetOf(held[t]), "error")
  /\ EndIteration(t)
  /\ UNCHANGED <<driverVars, task_queue, sock, msgs>>

(* Mutant: the send is not refused while a receive is owed.                *)
SendAnyway(t) ==
  /\ pc[t] = "send"
  /\ msgs' = msgs \cup
       {[thread |-> t, batch |-> held[t], place |-> "proxy", status |-> "asked"]}
  /\ sock' = [sock EXCEPT ![t] = "recv"]
  /\ pc' = [pc EXCEPT ![t] = "recv"]
  /\ UNCHANGED <<driverVars, fut, task_queue, held>>

Send(t) ==
  /\ pc[t] = "send"
  /\ sock[t] = "send"
  /\ msgs' = msgs \cup
       {[thread |-> t, batch |-> held[t], place |-> "proxy", status |-> "asked"]}
  /\ sock' = [sock EXCEPT ![t] = "recv"]
  /\ pc' = [pc EXCEPT ![t] = "recv"]
  /\ UNCHANGED <<driverVars, fut, task_queue, held>>

(* The socket still owes a receive from a request that timed out, so the   *)
(* send raises and the futures fail without a request.                     *)
SendRefused(t) ==
  /\ pc[t] = "send"
  /\ sock[t] = "recv"
  /\ Resolve(SetOf(held[t]), "error")
  /\ EndIteration(t)
  /\ UNCHANGED <<driverVars, task_queue, sock, msgs>>

(* The answer's rows are sliced to the futures in order.                   *)
Answer(t, batch) ==
  fut' = [f \in Future |->
            IF \E i \in DOMAIN held[t] : held[t][i] = f
            THEN [kind |-> "ok", of |-> batch[CHOOSE i \in DOMAIN held[t] : held[t][i] = f]]
            ELSE fut[f]]

Recv(t) ==
  /\ pc[t] = "recv"
  /\ \E m \in msgs :
       /\ m.thread = t
       /\ m.place = "client"
       /\ msgs' = msgs \ {m}
       /\ \/ m.status = "ok"      /\ Answer(t, m.batch)
          \/ m.status = "context" /\ Resolve(SetOf(held[t]), "empty")
          \/ m.status = "failed"  /\ Resolve(SetOf(held[t]), "error")
  /\ sock' = [sock EXCEPT ![t] = "send"]
  /\ EndIteration(t)
  /\ UNCHANGED <<driverVars, task_queue>>

(* Mutant: the socket forgets the receive it owes (REQ_RELAXED without      *)
(* REQ_CORRELATE), so a late reply meets the next request.                 *)
TimeoutReopens(t) ==
  /\ pc[t] = "recv"
  /\ ~ \E m \in msgs : m.thread = t /\ m.place = "client"
  /\ Resolve(SetOf(held[t]), "error")
  /\ sock' = [sock EXCEPT ![t] = "send"]
  /\ EndIteration(t)
  /\ UNCHANGED <<driverVars, task_queue, msgs>>

(* Mutant: a timed-out request fails its futures and is queued again.      *)
TimeoutRequeues(t) ==
  /\ pc[t] = "recv"
  /\ ~ \E m \in msgs : m.thread = t /\ m.place = "client"
  /\ Resolve(SetOf(held[t]), "error")
  /\ task_queue' = task_queue \o held[t]
  /\ EndIteration(t)
  /\ UNCHANGED <<driverVars, sock, msgs>>

(* RCVTIMEO passes with no reply: the futures fail, and nothing resets the *)
(* socket.                                                                 *)
Timeout(t) ==
  /\ pc[t] = "recv"
  /\ ~ \E m \in msgs : m.thread = t /\ m.place = "client"
  /\ Resolve(SetOf(held[t]), "error")
  /\ EndIteration(t)
  /\ UNCHANGED <<driverVars, task_queue, sock, msgs>>

-----------------------------------------------------------------------------
(* The proxy and the workers.                                              *)

Forward(m, w) ==
  /\ m.place = "proxy"
  /\ msgs' = (msgs \ {m}) \cup {[m EXCEPT !.place = w]}
  /\ UNCHANGED <<driverVars, fut, task_queue, threadVars>>

(* A worker scores one request and replies; the proxy routes the reply to  *)
(* the socket that asked.                                                  *)
Serve(m, status) ==
  /\ m.place \in Workers
  /\ msgs' = (msgs \ {m}) \cup {[m EXCEPT !.place = "client", !.status = status]}
  /\ UNCHANGED <<driverVars, fut, task_queue, threadVars>>

(* A worker process dies with the requests it holds, and is started again. *)
WorkerRestart(w) ==
  /\ \E m \in msgs : m.place = w
  /\ msgs' = {m \in msgs : m.place # w}
  /\ UNCHANGED <<driverVars, fut, task_queue, threadVars>>

-----------------------------------------------------------------------------
Driver == StartCall \/ CollectRow \/ SeeFailure \/ Retry \/ FillRows

Thread(t) ==
  \/ TakeTasks(t) \/ PrepareFails(t) \/ Send(t) \/ SendRefused(t) \/ Recv(t) \/ Timeout(t)

Network ==
  \/ \E m \in msgs, w \in Workers : Forward(m, w)
  \/ \E m \in msgs, s \in Status \ {"asked"} : Serve(m, s)
  \/ \E w \in Workers : WorkerRestart(w)

Next ==
  \/ Driver
  \/ \E t \in Threads : Thread(t)
  \/ Network

Spec == Init /\ [][Next]_vars

(* The driver and the threads are scheduled by the operating system, and a *)
(* thread's receive returns because RCVTIMEO is set.  Nothing is assumed   *)
(* of the proxy and the workers.                                           *)
FairSpec == Spec /\ WF_vars(Driver) /\ \A t \in Threads : WF_vars(Thread(t))

-----------------------------------------------------------------------------
(* Type correctness of the driver, the futures, the threads and the wire.  *)
TypeOK ==
  /\ call \in 0..Calls
  /\ phase \in {"idle", "collect", "sleep", "returned", "raised"}
  /\ attempt \in 0..MaxRetries
  /\ rows \in Seq(Outcome) /\ Len(rows) <= N
  /\ fut \in [Future -> Outcome]
  /\ task_queue \in Seq(Future)
  /\ pc \in [Threads -> {"take", "send", "recv"}]
  /\ held \in [Threads -> Seq(Future)]
  /\ sock \in [Threads -> {"send", "recv"}]
  /\ msgs \subseteq Message

(* A future that resolves with scores holds the scores of its own prompts, *)
(* whatever requests timed out, were lost or were answered late before     *)
(* (bg_task: one REQ socket per thread, reused for every request).         *)
AnswersMatch == \A f \in Future : fut[f].kind = "ok" => fut[f].of = f

(* What handle_futures has extended its lists with is, in order, the rows   *)
(* of the first microbatches of the current call as the current attempt    *)
(* got them, each once, although the retry loop starts over in the middle  *)
(* of a batch.                                                             *)
RowsFollowBatch ==
  \A i \in DOMAIN rows : rows[i].kind = "ok" => rows[i].of = Current(i)

(* A driver that returns hands over exactly one scored row group per       *)
(* microbatch, with no sentinel among them.                                *)
ReturnIsComplete ==
  phase = "returned" => Len(rows) = N /\ \A i \in Parts : rows[i].kind = "ok"

(* A thread whose receive timed out and whose socket still owes it.        *)
Wedged(t) == sock[t] = "recv" /\ pc[t] # "recv"

(* A thread that timed out once never scores anything again: its socket    *)
(* stays shut and every future it takes afterwards fails.                  *)
TimedOutThreadIsLost ==
  [][\A t \in Threads : Wedged(t) =>
       /\ Wedged(t)'
       /\ \A f \in SetOf(held[t]) : fut'[f].kind \in {"pending", "error"}]_vars

(* A future is resolved once: what it holds never changes, although the    *)
(* futures of an abandoned attempt stay queued or in flight beside those   *)
(* of the next.  Setting a resolved Future raises, and in the timeout      *)
(* branch of bg_task, which does not catch it, the thread would die.       *)
ResolvedOnce ==
  [][\A f \in Future : fut[f].kind \notin {"unsubmitted", "pending"} => fut'[f] = fut[f]]_vars

(* A call that waits on its futures ends, by returning or by raising, even *)
(* if no worker ever answers: handle_futures waits on future.result() with *)
(* no timeout of its own, so every path of bg_task must resolve what it    *)
(* took.                                                                   *)
EveryCallEnds == phase \in {"collect", "sleep"} ~> phase \in {"returned", "raised"}

(* The comment on the context-overflow branch: "an oversized context should *)
(* not abort the whole PPO step".  A call may raise only if one of the     *)
(* futures of its last attempt failed.                                     *)
OverflowKeepsStep ==
  phase = "raised" => \E i \in Parts : fut[Current(i)].kind = "error"

=============================================================================
