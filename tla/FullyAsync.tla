----------------------------- MODULE FullyAsync -----------------------------
(***************************************************************************)
(* The fully asynchronous recipe (src/recipe/fully_async_policy): the      *)
(* Rollouter actor with its coroutines (feed, processor, monitor and the   *)
(* streaming tasks), the MessageQueue actor, the ParameterSynchronizer and *)
(* the Trainer loop.                                                       *)
(*                                                                         *)
(* The Rollouter is one asyncio event loop, so one action is the code      *)
(* between two awaits that can really suspend.  Its lock is the FIFO of    *)
(* asyncio.Lock: `lockQ` holds the coroutines that hold it (the head) or   *)
(* wait for it (the rest), and a coroutine enters it in the same step in   *)
(* which it reaches `async with self.lock`.  Generation, Ray calls and the *)
(* NCCL broadcast take any amount of time.  A sample is its number; the    *)
(* batches of n responses and their contents are left out.                 *)
(***************************************************************************)
EXTENDS Integers, FiniteSets, Sequences

CONSTANT Configs    \* the configurations a job may be started with

Config == [
    total : Nat \ {0},        \* total_rollout_steps: samples the feeder hands out
    required : Nat \ {0},     \* required_samples of one trainer step
    trigger_step : Nat \ {0}, \* trigger_parameter_sync_step
    threshold : Nat,          \* 100 * staleness_threshold
    partial : BOOLEAN,        \* partial_rollout
    slots : Nat \ {0},        \* 16 * number of rollout servers
    pending : Nat \ {0},      \* maxsize of pending_queue
    test_freq : Nat \ {0}, save_freq : Nat \ {0},
    max_restarts : Nat]       \* bound: crashes of the job

ASSUME ConfigsAssumption == Configs \subseteq Config

VARIABLES
    config,         \* the configuration of this job
    fed, taken,     \* last item put in / got from pending_queue
    hand,           \* sample the processor holds (End: none)
    proc,           \* where the processor coroutine stands
    monitor,        \* where the monitor coroutine stands
    lockQ,          \* holder and waiters of self.lock
    busy,           \* the processor runs on without having suspended
    paused, trigger, running,
    gen, spent,     \* active_tasks: those still generating; how many others
    cancelQ,        \* cancel_queue
    staleness,      \* staleness_samples
    current,        \* current_param_version of the Rollouter
    stopped,        \* the rollout servers cancel what they are given
    mq, dropped,    \* the message queue; samples it threw away
    rpc,            \* the synchronizer's call on the Rollouter
    counted,        \* what update_param_version counted before its await
    trainer, batch, trained,
    version, step,  \* the Trainer's current_param_version, local_trigger_step
    weights,        \* version the rollout servers hold
    from, tag,      \* per sample: weights it started on, version it reports
    ckpt,           \* the tracked checkpoint: its version, and what its data.pt skips
    skipped,        \* samples this life's dataloader is ahead of its steps
    restarts

TotalSteps == config.total
Required == config.required
TriggerStep == config.trigger_step
PendingSize == config.pending

MaxRequired == (Required * TriggerStep * (100 + config.threshold)) \div 100
MaxConcurrent == IF config.slots < MaxRequired THEN config.slots ELSE MaxRequired
MaxQueue == MaxRequired

Samples == 1..TotalSteps
DONE == TotalSteps + 1      \* the end signal of pending_queue
End == 0                    \* the None that closes the message queue

jobVars == <<config, ckpt, skipped, restarts>>
rolloutVars == <<fed, taken, hand, proc, staleness>>
trainVars == <<trainer, batch, trained, version, step>>
vars == <<fed, taken, hand, proc, monitor, lockQ, busy, paused, trigger,
          running, gen, spent, cancelQ, staleness, current, stopped, mq,
          dropped, rpc, counted, trainer, batch, trained, version, step, weights, from, tag,
          jobVars>>

\* Samples the steps of a version's checkpoint consumed: load_checkpoint's global_steps.
StepsOf(v) == v * Required * TriggerStep

Init ==
    /\ config \in Configs
    /\ taken = 0 /\ hand = End
    /\ fed = (IF PendingSize < DONE THEN PendingSize ELSE DONE)
    /\ proc = "top" /\ monitor = "sleep" /\ lockQ = <<>> /\ busy = FALSE
    /\ paused = FALSE /\ trigger = TRUE /\ running = TRUE
    /\ gen = {} /\ spent = 0 /\ cancelQ = <<>>
    /\ staleness = 0 /\ current = 0 /\ stopped = FALSE
    /\ mq = <<>> /\ dropped = 0 /\ rpc = "idle" /\ counted = 0
    /\ trainer = "collect" /\ batch = <<>> /\ trained = 0
    /\ version = 0 /\ step = 1 /\ weights = 0
    /\ from = [s \in Samples |-> 0] /\ tag = [s \in Samples |-> 0]
    /\ ckpt = [version |-> 0, skips |-> 0] /\ skipped = 0 /\ restarts = 0

-----------------------------------------------------------------------------
(* The lock and the queue.                                                 *)

Holds(p) == lockQ # <<>> /\ Head(lockQ) = p
Enter(p) == lockQ' = Append(lockQ, p)
Leave == lockQ' = Tail(lockQ)
LeaveAndEnter(p) == lockQ' = Append(Tail(lockQ), p)

\* condition.notify_all(): a coroutine that waits on the condition asks for the
\* lock again in its next turn.
Woken == IF proc \in {"parked", "held"} THEN <<"processor">> ELSE <<>>
Notify ==
    proc' = CASE proc = "parked" -> "park" [] proc = "held" -> "submit"
              [] OTHER -> proc

\* The processor goes on in the same turn of the event loop when it is back at
\* the top or has got a free lock; it suspends when others hold or wait for
\* the lock, in asyncio.wait, on the condition or on the queue.
RunOn ==
    busy' = \/ proc' = "top"
            \/ proc' \in {"pausing", "park", "submit"} /\ Head(lockQ') = "processor"

Full == Len(mq) >= MaxQueue

PutSample(x) ==
    /\ mq' = Append(IF Full THEN Tail(mq) ELSE mq, x)
    /\ dropped' = IF Full THEN dropped + 1 ELSE dropped

\* Mutant: the staleness test is missing.
ShouldPauseOnlyFull == Full
ShouldPause == Full \/ staleness >= MaxRequired

-----------------------------------------------------------------------------
(* The Rollouter's own coroutines.                                         *)

\* The feeder suspends only on a full pending_queue.
Feed ==
    /\ ~busy
    /\ fed < DONE /\ fed - taken < PendingSize
    /\ fed' = IF taken + PendingSize < DONE THEN taken + PendingSize ELSE DONE
    /\ UNCHANGED <<busy, taken, hand, proc, monitor, lockQ, paused, trigger, running,
                   gen, spent, cancelQ, staleness, current, stopped, mq,
                   dropped, rpc, counted, trainVars, weights, from, tag>>

\* asyncio.wait(..., FIRST_COMPLETED): every finished task leaves the set.  When pause
\* cleared it first, `done_tasks` is that of an earlier wait (that there is one is
\* due to a prompt event loop, see PromptSpec).
Active == Cardinality(gen) + spent
Reap == spent' = 0
CanReap == gen = {} \/ spent > 0

\* The sample is in hand: wait for a slot, or go on to submit it.
Carry(s) ==
    /\ hand' = s
    /\ Enter("processor")
    /\ proc' = IF Active >= MaxConcurrent THEN "limit" ELSE "submit"

\* `await self.pending_queue.get()` and what follows it.
TakePending ==
    /\ taken < fed
    /\ taken' = taken + 1
    /\ staleness' = staleness + 1
    /\ IF taken' # DONE THEN Carry(taken')
       ELSE /\ hand' = hand
            /\ IF Active = 0 THEN proc' = "end" /\ lockQ' = lockQ
                             ELSE proc' = "finish" /\ Enter("processor")

Top ==
    /\ proc = "top"
    /\ \/ /\ paused \/ ShouldPause
          /\ proc' = "pausing" /\ Enter("processor")
          /\ UNCHANGED <<taken, hand, cancelQ, staleness>>
       \/ /\ ~paused /\ ~ShouldPause /\ cancelQ # <<>>
          /\ Carry(Head(cancelQ))
          /\ cancelQ' = Tail(cancelQ)
          /\ UNCHANGED <<taken, staleness>>
       \/ /\ ~paused /\ ~ShouldPause /\ cancelQ = <<>>
          /\ IF taken < fed THEN TakePending
             ELSE /\ proc' = "take"
                  /\ UNCHANGED <<taken, hand, lockQ, staleness>>
          /\ UNCHANGED cancelQ
    /\ RunOn
    /\ UNCHANGED <<fed, monitor, paused, trigger, running, gen, spent, current,
                   stopped, mq, dropped, rpc, counted, trainVars, weights, from,
                   tag>>

Take ==
    /\ proc = "take"
    /\ TakePending
    /\ RunOn
    /\ UNCHANGED <<fed, monitor, paused, trigger, running, gen, spent, cancelQ,
                   current, stopped, mq, dropped, rpc, counted, trainVars,
                   weights, from, tag>>

\* The processor's turns with the lock: announce the pause, drain the active
\* tasks one completion at a time, park on the condition, wait for a slot,
\* submit, and drain after the end signal.
Locked ==
    /\ Holds("processor")
    /\ \/ /\ proc = "pausing"
          /\ paused' = TRUE
          /\ proc' = IF Active = 0 THEN "park" ELSE "drain"
          /\ LeaveAndEnter("processor")
          /\ UNCHANGED <<hand, gen, spent, from>>
       \/ /\ proc = "drain" /\ CanReap
          /\ Reap
          /\ proc' = IF gen = {} THEN "park" ELSE "drain"
          /\ LeaveAndEnter("processor")
          /\ UNCHANGED <<hand, paused, gen, from>>
       \/ /\ proc = "park"
          /\ proc' = IF paused THEN "parked" ELSE "top"
          /\ Leave
          /\ UNCHANGED <<hand, paused, gen, spent, from>>
       \/ /\ proc = "limit" /\ CanReap
          /\ Reap
          /\ proc' = IF Cardinality(gen) >= MaxConcurrent THEN "limit"
                                                           ELSE "submit"
          /\ LeaveAndEnter("processor")
          /\ UNCHANGED <<hand, paused, gen, from>>
       \/ /\ proc = "submit" /\ paused
          /\ proc' = "held"
          /\ Leave
          /\ UNCHANGED <<hand, paused, gen, spent, from>>
       \/ /\ proc = "submit" /\ ~paused
          /\ gen' = gen \cup {hand}
          /\ from' = [from EXCEPT ![hand] = weights]
          /\ hand' = End /\ proc' = "top"
          /\ Leave
          /\ UNCHANGED <<paused, spent>>
       \/ /\ proc = "finish" /\ CanReap
          /\ Reap
          /\ IF gen = {} THEN proc' = "end" /\ Leave
                         ELSE proc' = proc /\ LeaveAndEnter("processor")
          /\ UNCHANGED <<hand, paused, gen, from>>
    /\ RunOn
    /\ UNCHANGED <<fed, taken, monitor, trigger, running, cancelQ, staleness,
                   current, stopped, mq, dropped, rpc, counted, trainVars,
                   weights, tag>>

\* _process_single_sample_streaming: the responses are complete (while pause
\* waits for the tasks it cancelled, some may have completed before) ...
Generated(s) ==
    /\ ~busy
    /\ s \in gen /\ (stopped => rpc = "gather")
    /\ gen' = gen \ {s} /\ spent' = spent + 1
    /\ tag' = [tag EXCEPT ![s] = current]
    /\ PutSample(s)
    /\ UNCHANGED <<busy, rolloutVars, monitor, lockQ, paused, trigger, running,
                   cancelQ, current, stopped, rpc, counted, trainVars, weights,
                   from>>

\* Mutant: an interrupted sample is not put back.
CancelledForgets(s) ==
    /\ ~busy
    /\ s \in gen /\ stopped
    /\ gen' = gen \ {s} /\ spent' = spent + 1
    /\ UNCHANGED <<busy, rolloutVars, monitor, lockQ, paused, trigger, running, cancelQ,
                   current, stopped, mq, dropped, rpc, counted, trainVars,
                   weights, from, tag>>

\* ... or the servers returned it unfinished.
Cancelled(s) ==
    /\ ~busy
    /\ s \in gen /\ stopped
    /\ gen' = gen \ {s} /\ spent' = spent + 1
    /\ cancelQ' = Append(cancelQ, s)
    /\ UNCHANGED <<busy, rolloutVars, monitor, lockQ, paused, trigger, running,
                   current, stopped, mq, dropped, rpc, counted, trainVars,
                   weights, from, tag>>

\* The end of _streaming_generation_main: the finish signal, then running.
SendEnd ==
    /\ ~busy
    /\ proc = "end"
    /\ proc' = "stopping"
    /\ PutSample(End)
    /\ Enter("main")
    /\ UNCHANGED <<busy, fed, taken, hand, monitor, paused, trigger, running, gen,
                   spent, cancelQ, staleness, current, stopped, rpc, counted,
                   trainVars, weights, from, tag>>

StopRunning ==
    /\ ~busy
    /\ Holds("main")
    /\ running' = FALSE
    /\ Leave
    /\ UNCHANGED <<busy, rolloutVars, monitor, paused, trigger, gen, spent, cancelQ, current,
                   stopped, mq, dropped, rpc, counted, trainVars, weights, from,
                   tag>>

\* _async_monitor_loop: the test of trigger and of should_pause comes before
\* the lock; what follows it does not repeat the test.
\* The monitor's next round starts with the lock and the test of running, in
\* the same turn when q leaves the lock free.
NextRound(q, woken) ==
    IF q = <<>> THEN /\ lockQ' = woken
                     /\ monitor' = IF running THEN "sleep" ELSE "ended"
                ELSE /\ lockQ' = q \o <<"monitor">> \o woken
                     /\ monitor' = "check"

MonitorWakes ==
    /\ ~busy
    /\ monitor = "sleep"
    /\ IF trigger /\ ~ShouldPause
       THEN monitor' = "recover" /\ Enter("monitor")
       ELSE NextRound(lockQ, <<>>)
    /\ UNCHANGED <<busy, rolloutVars, paused, trigger, running, gen, spent, cancelQ, current,
                   stopped, mq, dropped, rpc, counted, trainVars, weights, from,
                   tag>>

MonitorRecovers ==
    /\ ~busy
    /\ Holds("monitor") /\ monitor = "recover"
    /\ paused' = FALSE
    /\ Notify
    /\ NextRound(Tail(lockQ), Woken)
    /\ UNCHANGED <<busy, fed, taken, hand, staleness, trigger, running, gen, spent,
                   cancelQ, current, stopped, mq, dropped, rpc, counted,
                   trainVars, weights, from, tag>>

MonitorChecks ==
    /\ ~busy
    /\ Holds("monitor") /\ monitor = "check"
    /\ monitor' = IF running THEN "sleep" ELSE "ended"
    /\ Leave
    /\ UNCHANGED <<busy, rolloutVars, paused, trigger, running, gen, spent, cancelQ, current,
                   stopped, mq, dropped, rpc, counted, trainVars, weights, from,
                   tag>>

-----------------------------------------------------------------------------
(* The synchronizer's calls: pause, the broadcast, update_param_version and *)
(* resume, which Ray starts when update_param_version has returned.         *)

PauseBegins ==
    /\ ~busy
    /\ Holds("rpc") /\ rpc = "pause"
    /\ rpc' = "gather"
    /\ paused' = TRUE
    /\ stopped' = config.partial
    /\ UNCHANGED <<busy, rolloutVars, monitor, lockQ, trigger, running, gen, spent, cancelQ,
                   current, mq, dropped, counted, trainVars, weights, from, tag>>

PauseEnds ==
    /\ ~busy
    /\ rpc = "gather" /\ gen = {}
    /\ rpc' = "broadcast"
    /\ spent' = 0
    /\ trigger' = FALSE
    /\ Leave
    /\ UNCHANGED <<busy, fed, taken, hand, proc, staleness, monitor, paused, running,
                   gen, cancelQ, current, stopped, mq, dropped, counted,
                   trainVars, weights, from, tag>>

\* Mutant: the broadcast carries the weights of the previous version.
WeightsMoveStale ==
    /\ ~busy
    /\ rpc = "broadcast"
    /\ weights' = current
    /\ rpc' = "update" /\ Enter("rpc")
    /\ trainer' = IF trainer = "sync" THEN "save" ELSE "last_wait"
    /\ UNCHANGED <<busy, rolloutVars, monitor, paused, trigger, running, gen, spent, cancelQ,
                   current, stopped, mq, dropped, counted, batch, trained,
                   version, step, from, tag>>

\* The weights have moved; sync_weights returns to the Trainer and leaves
\* update_param_version and resume running.
WeightsMove ==
    /\ ~busy
    /\ rpc = "broadcast"
    /\ weights' = version
    /\ rpc' = "update" /\ Enter("rpc")
    /\ trainer' = IF trainer = "sync" THEN "save" ELSE "last_wait"
    /\ UNCHANGED <<busy, rolloutVars, monitor, paused, trigger, running, gen, spent, cancelQ,
                   current, stopped, mq, dropped, counted, batch, trained,
                   version, step, from, tag>>

\* update_param_version is given the version that was broadcast; its two local
\* counts are read before the await on the queue's size.
UpdateBegins ==
    /\ ~busy
    /\ Holds("rpc") /\ rpc = "update"
    /\ rpc' = "count"
    /\ current' = weights
    /\ counted' = Active + Len(cancelQ)
    /\ UNCHANGED <<busy, rolloutVars, monitor, lockQ, paused, trigger, running, gen, spent,
                   cancelQ, stopped, mq, dropped, trainVars, weights, from, tag>>

\* Mutant: staleness_samples is not reset.
UpdateEndsKeepsCount ==
    /\ ~busy
    /\ rpc = "count"
    /\ rpc' = "resume"
    /\ staleness' = staleness
    /\ counted' = 0
    /\ LeaveAndEnter("rpc")
    /\ UNCHANGED <<busy, fed, taken, hand, proc, monitor, paused, trigger,
                   running, gen, spent, cancelQ, current, stopped, mq, dropped,
                   trainVars, weights, from, tag>>

UpdateEnds ==
    /\ ~busy
    /\ rpc = "count"
    /\ rpc' = "resume"
    /\ staleness' = counted + Len(mq)
    /\ counted' = 0
    /\ LeaveAndEnter("rpc")
    /\ UNCHANGED <<busy, fed, taken, hand, proc, monitor, paused, trigger,
                   running, gen, spent, cancelQ, current, stopped, mq, dropped,
                   trainVars, weights, from, tag>>

Resume ==
    /\ ~busy
    /\ Holds("rpc") /\ rpc = "resume"
    /\ rpc' = "idle"
    /\ stopped' = FALSE /\ paused' = FALSE /\ trigger' = TRUE
    /\ Notify
    /\ lockQ' = Tail(lockQ) \o Woken
    /\ UNCHANGED <<busy, fed, taken, hand, staleness, monitor, running, gen, spent,
                   cancelQ, current, mq, dropped, counted, trainVars, weights,
                   from, tag>>

-----------------------------------------------------------------------------
(* The Trainer.                                                            *)

GetSample ==
    /\ trainer = "collect" /\ Len(batch) < Required /\ mq # <<>>
    /\ mq' = Tail(mq)
    /\ \/ /\ Head(mq) # End
          /\ batch' = Append(batch, Head(mq))
          /\ UNCHANGED trainer
       \/ /\ Head(mq) = End
          /\ batch' = <<>>
          /\ trainer' = "end_wait"
    /\ UNCHANGED <<busy, rolloutVars, monitor, lockQ, paused, trigger, running, gen, spent,
                   cancelQ, current, stopped, dropped, rpc, counted, trained,
                   version, step, weights, from, tag>>

Train ==
    /\ trainer = "collect" /\ Len(batch) = Required
    /\ batch' = <<>>
    /\ trained' = trained + Required
    /\ \/ /\ step < TriggerStep
          /\ step' = step + 1
          /\ UNCHANGED <<version, trainer>>
       \/ /\ step >= TriggerStep
          /\ step' = 1 /\ version' = version + 1
          /\ trainer' = "wait_valid"
    /\ UNCHANGED <<busy, rolloutVars, monitor, lockQ, paused, trigger, running, gen, spent,
                   cancelQ, current, stopped, mq, dropped, rpc, counted, weights,
                   from, tag>>

\* wait_last_valid has returned, and sync_weights calls pause.
StartSync ==
    /\ ~busy
    /\ trainer \in {"wait_valid", "last_sync"} /\ rpc = "idle"
    /\ trainer' = IF trainer = "wait_valid" THEN "sync" ELSE "final_sync"
    /\ rpc' = "pause" /\ Enter("rpc")
    /\ UNCHANGED <<busy, rolloutVars, monitor, paused, trigger, running, gen, spent, cancelQ,
                   current, stopped, mq, dropped, counted, batch, trained,
                   version, step, weights, from, tag>>

\* After the loop: one more synchronization when the last version was not
\* validated or the trainer has moved since.
Conclude ==
    /\ trainer = "end_wait" /\ rpc = "idle"
    /\ \/ /\ version % config.test_freq # 0 \/ step > 1
          /\ version' = version + 1 /\ step' = 1
          /\ trainer' = "last_sync"
       \/ /\ version % config.test_freq = 0 /\ step = 1
          /\ trainer' = "done"
          /\ UNCHANGED <<version, step>>
    /\ UNCHANGED <<busy, rolloutVars, monitor, lockQ, paused, trigger, running, gen, spent,
                   cancelQ, current, stopped, mq, dropped, rpc, counted, batch,
                   trained, weights, from, tag>>

\* _check_save_checkpoint, after a synchronization in the loop and after the last one.
\* The dataloader has also handed out the sample the feeder waits to put.
Drawn == IF fed + 1 < DONE THEN fed + 1 ELSE TotalSteps

Save ==
    /\ ~busy
    /\ \/ trainer = "save" /\ trainer' = "collect"
       \/ trainer = "last_wait" /\ rpc = "idle" /\ trainer' = "done"
    /\ ckpt' = IF version % config.save_freq = 0
                 THEN [version |-> version, skips |-> skipped + Drawn - StepsOf(version)]
                 ELSE ckpt
    /\ UNCHANGED <<config, skipped, restarts>>
    /\ UNCHANGED <<busy, rolloutVars, monitor, lockQ, paused, trigger, running, gen, spent,
                   cancelQ, current, stopped, mq, dropped, rpc, counted, batch,
                   trained, version, step, weights, from, tag>>

-----------------------------------------------------------------------------
ProcessorNext == Top \/ Take \/ Locked \/ SendEnd \/ StopRunning
CallNext == PauseBegins \/ PauseEnds \/ WeightsMove \/ UpdateBegins \/ UpdateEnds
            \/ Resume
TrainerNext == GetSample \/ Train \/ StartSync \/ Conclude
MonitorNext == MonitorWakes \/ MonitorRecovers \/ MonitorChecks
TaskNext(s) == Generated(s) \/ Cancelled(s)

\* The job crashes and is started again (resume_mode "auto"): whatever was queued, held or being
\* generated is gone, and the weights of the checkpoint are synchronized before anything runs.
\* A job without a checkpoint starts from scratch, which is another Init, and one whose last
\* batch is in its checkpoint is not started again.
Restart ==
    /\ restarts < config.max_restarts /\ trainer # "done"
    /\ ckpt.version > 0 /\ StepsOf(ckpt.version) < TotalSteps
    /\ restarts' = restarts + 1 /\ skipped' = ckpt.skips
    /\ taken' = StepsOf(ckpt.version) /\ trained' = taken' /\ hand' = End
    /\ fed' = IF taken' + PendingSize < DONE THEN taken' + PendingSize ELSE DONE
    /\ version' = ckpt.version /\ current' = ckpt.version /\ weights' = ckpt.version
    /\ proc' = "top" /\ monitor' = "sleep" /\ lockQ' = <<>> /\ busy' = FALSE
    /\ paused' = FALSE /\ trigger' = TRUE /\ running' = TRUE /\ stopped' = FALSE
    /\ gen' = {} /\ spent' = 0 /\ cancelQ' = <<>> /\ mq' = <<>> /\ dropped' = 0
    /\ staleness' = 0 /\ rpc' = "idle" /\ counted' = 0
    /\ trainer' = "collect" /\ batch' = <<>> /\ step' = 1
    /\ from' = [s \in Samples |-> 0] /\ tag' = [s \in Samples |-> 0]
    /\ UNCHANGED <<ckpt, config>>

Work ==
    \/ Feed \/ ProcessorNext
    \/ MonitorNext
    \/ \E s \in Samples : TaskNext(s)
    \/ CallNext \/ TrainerNext

Within(A) == A /\ UNCHANGED jobVars

Next == Within(Work) \/ Save \/ Restart

Spec == Init /\ [][Next]_vars

\* An event loop runs every coroutine that is ready, the servers finish or
\* return what they are given, and Ray completes every call.  The fairness of the
\* calls is strong: cancelled samples may keep the processor in and out of turns
\* (`busy`) for as long as the broadcast lasts.
Fairness ==
    /\ WF_vars(Within(Feed)) /\ WF_vars(Within(ProcessorNext)) /\ WF_vars(Within(MonitorNext))
    /\ \A s \in UNION {1..c.total : c \in Configs} : WF_vars(Within(TaskNext(s)))
    /\ SF_vars(Within(CallNext)) /\ WF_vars(Within(TrainerNext)) /\ WF_vars(Save)

FairSpec == Spec /\ Fairness

\* The same with a prompt event loop: what takes time (generation, training,
\* the broadcast, Ray's calls, the monitor's sleep) takes longer than every
\* turn of a coroutine that is ready.  The runs of disagreements use it, so
\* that none of them rests on an event loop that lags.
Turn == Feed \/ Top \/ Take \/ Locked \/ StopRunning \/ MonitorRecovers
        \/ MonitorChecks \/ PauseBegins \/ UpdateBegins
PromptNext == Within(Turn) \/ (~ENABLED Within(Turn) /\ Next)
PromptSpec == Init /\ [][PromptNext]_vars
PromptFairSpec == PromptSpec /\ Fairness

-----------------------------------------------------------------------------
(* Properties.                                                             *)

\* Every variable ranges over the values the code can give it; each of the
\* four users of the lock is at most once among its holder and waiters.
TypeOK ==
    /\ fed \in 0..DONE /\ taken \in 0..fed /\ hand \in Samples \cup {End}
    /\ proc \in {"top", "take", "pausing", "drain", "park", "parked", "limit",
                 "submit", "held", "finish", "end", "stopping"}
    /\ monitor \in {"sleep", "recover", "check", "ended"}
    /\ lockQ \in Seq({"processor", "monitor", "rpc", "main"})
    /\ \A i, j \in DOMAIN lockQ : lockQ[i] = lockQ[j] => i = j
    /\ {busy, paused, trigger, running, stopped} \subseteq BOOLEAN
    /\ gen \subseteq Samples /\ spent \in Nat
    /\ cancelQ \in Seq(Samples) /\ mq \in Seq(Samples \cup {End})
    /\ Len(mq) <= MaxQueue /\ batch \in Seq(Samples) /\ Len(batch) <= Required
    /\ {staleness, current, dropped, counted, trained, version, weights}
          \subseteq Nat
    /\ rpc \in {"idle", "pause", "gather", "broadcast", "update", "count",
                "resume"}
    /\ trainer \in {"collect", "wait_valid", "sync", "save", "end_wait", "last_sync",
                    "final_sync", "last_wait", "done"}
    /\ step \in 1..TriggerStep
    /\ from \in [Samples -> Nat] /\ tag \in [Samples -> Nat]

Outstanding == Cardinality(gen) + Len(cancelQ)
               + Cardinality({i \in DOMAIN mq : mq[i] # End})
               + (IF hand = End THEN 0 ELSE 1)

\* README, staleness_threshold: the Rollouter is never ahead of the Trainer by
\* more than (1 + threshold) parameter updates' worth of samples, counting the
\* one sample the processor may already hold when the counter is reset.
AheadBounded == Outstanding <= MaxRequired + 1

\* The sample in hand at a reset is the one the counter misses: the queue
\* throws away at most one sample per parameter version.
DropsBounded == dropped <= current + 1

\* No sample reaches the Trainer later than the number of updates in which it
\* would consume everything the Rollouter may be ahead by, and one more: what
\* the Trainer takes between the broadcast and the reset of the counter.
LagBound == MaxRequired \div (Required * TriggerStep) + 1
LagBounded ==
    \A i \in DOMAIN batch : version - tag[batch[i]] <= LagBound

\* How far ahead the Rollouter runs, how late its samples are used, and how
\* much of its work is thrown away.
BacklogBounded == TypeOK /\ AheadBounded /\ LagBounded /\ DropsBounded

\* When the Trainer has finished, the samples it has not trained on are those
\* the queue threw away, those left in cancel_queue, and fewer than a batch:
\* the queues, the pauses and the end signal lose nothing else.
AllAccounted ==
    trainer = "done" /\ proc = "stopping" =>
        TotalSteps - trained - dropped - Len(cancelQ) < Required

\* save_checkpoint: "directly saving the state of the dataloader will result in
\* losing these samples".  At threshold 0 each restart skips at most what a parameter update
\* consumes, a full pending_queue and the sample waiting to be put, and it repeats none.
RestartSkipsBounded ==
    skipped <= restarts * (MaxRequired + PendingSize + 1) /\ skipped >= 0

\* No sample is lost unseen, neither by the end of the data nor by a restart.
SamplesAccounted == AllAccounted /\ (config.threshold = 0 => RestartSkipsBounded)

\* README, Supported Modes 3: while parameters are synchronized the Rollouter's
\* ongoing tasks have completed and no task is added.
SyncIsQuiet == rpc = "broadcast" => gen = {}

\* README, on policy pipeline (staleness_threshold = 0): the Trainer only ever
\* trains on samples generated with the parameters of its own version.
OnPolicy ==
    \A i \in DOMAIN batch : from[batch[i]] = version /\ tag[batch[i]] = version

\* At threshold 0 the job is on policy, whatever partial_rollout says ("only
\* actually takes effect when staleness_threshold>0"): no sample is generated
\* during a broadcast, interrupted, or thrown away to make room for another.
StrictlyOnPolicy ==
    config.threshold = 0 => OnPolicy /\ SyncIsQuiet /\ cancelQ = <<>> /\ dropped = 0

\* FullyAsyncTrainer.fit and FullyAsyncRollouter.fit both return: the pauses, the monitor
\* and the synchronizations never leave all of them waiting.
FitEnds == <>(trainer = "done" /\ monitor = "ended")

\* Without partial rollout they do; with it a sample that is put back may keep
\* the end signal away.
BothEnd == ~config.partial => FitEnds
=============================================================================
