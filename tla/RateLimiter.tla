----------------------------- MODULE RateLimiter -----------------------------
(***************************************************************************)
(* RateLimitedRewardLoopManager.run_single with its three layers: the      *)
(* request and the token bucket (AsyncTokenBucket) and the semaphore, and  *)
(* the default executor in which decoding and synchronous scoring run.     *)
(*                                                                         *)
(* Time is counted in ticks; a bucket's unit is what it refills in a tick. *)
(* Both buckets are created with max_tokens = rate_limit, one second of    *)
(* refill, so both hold Second units; Cost[b] units are one request, more  *)
(* than Second when fewer than one request a second is allowed.            *)
(***************************************************************************)
EXTENDS Integers, Sequences, FiniteSets

CONSTANTS Request,  \* calls of run_single
          Limits    \* the settings a manager may be created with

Setting == [
    second : Nat \ {0},          \* ticks in a second: max_tokens of both buckets
    rpm : Nat,                   \* units of a request in the request bucket, 0: no such bucket
    tpm : Nat,                   \* the same for the token bucket
    max_concurrent : Nat \ {0},  \* permits of the semaphore
    timeout : Nat \ {0},         \* self.timeout in ticks
    threads : Nat \ {0},         \* of the default executor
    is_async : BOOLEAN]          \* is_async_reward_score

ASSUME RateAssumption == Limits \subseteq Setting

VARIABLES limits,   \* the manager's settings
          pc,       \* where each request stands
          left,     \* ticks until its sleep or its timeout ends
          tokens,   \* AsyncTokenBucket.tokens, negative after an oversized request
          idle,     \* ticks since last_update
          permits,  \* the semaphore's counter
          waiters,  \* requests waiting for the semaphore, first come first served
          jobs,     \* jobs the executor has not begun
          threads,  \* jobs its threads are running
          result,   \* how each request was scored
          granted   \* per bucket, what may still be granted: a reference bucket

rateVars == <<limits, pc, left, tokens, idle, permits, waiters, jobs, threads, result, granted>>

Bucket == {"rpm", "tpm"}
Cost == [b \in Bucket |-> limits[b]]
Second == limits.second

Job == [of : Request, kind : {"decode", "score"}]
Sleeping == {"rpmSleep", "tpmSleep", "rpmPaid", "tpmPaid"}
Smaller(a, b) == IF a < b THEN a ELSE b
Larger(a, b) == IF a > b THEN a ELSE b

\* Requests scored at the moment, as the semaphore counts them.
Holders == {r \in Request : pc[r] = "scoring"}

\* Requests the scoring service sees: a synchronous one lives in its thread.
InFlight == IF limits.is_async THEN Holders ELSE {j.of : j \in {k \in threads : k.kind = "score"}}

\* The largest burst a bucket allows: a full bucket, or one oversized request.
Burst(b) == Larger(Second, Cost[b])

RateTypeOK ==
    /\ limits \in Limits
    /\ pc \in [Request -> {"new", "decode", "rpm", "tpm", "wait", "scoring", "done"} \cup Sleeping]
    /\ left \in [Request -> Nat]
    /\ tokens \in [Bucket -> Int] /\ \A b \in Bucket : tokens[b] <= Second
    /\ idle \in [Bucket -> Nat]
    /\ permits \in 0..limits.max_concurrent /\ waiters \in Seq(Request) /\ jobs \in Seq(Job) /\ threads \subseteq Job
    /\ result \in [Request -> {"none", "scored", "timeout", "error"}]
    /\ granted \in [Bucket -> Int]

RateInit ==
    /\ limits \in Limits
    /\ pc = [r \in Request |-> "new"] /\ left = [r \in Request |-> 0]
    /\ tokens = [b \in Bucket |-> Second] /\ idle = [b \in Bucket |-> 0]
    /\ permits = limits.max_concurrent /\ waiters = <<>> /\ jobs = <<>> /\ threads = {}
    /\ result = [r \in Request |-> "none"]
    /\ granted = [b \in Bucket |-> Burst(b)]

-----------------------------------------------------------------------------
(* The executor.                                                           *)

\* __call__ and the reward worker start run_single, which first decodes in the executor.
Start(r) ==
    /\ pc[r] = "new"
    /\ pc' = [pc EXCEPT ![r] = "decode"]
    /\ jobs' = Append(jobs, [of |-> r, kind |-> "decode"])
    /\ UNCHANGED <<limits, left, tokens, idle, waiters, threads, result, granted, permits>>

\* A thread takes the next job; one that was cancelled meanwhile is dropped.
RunJob ==
    /\ jobs # <<>> /\ Cardinality(threads) < limits.threads
    /\ threads' = IF Head(jobs).kind = "score" /\ pc[Head(jobs).of] = "done"
                  THEN threads ELSE threads \cup {Head(jobs)}
    /\ jobs' = Tail(jobs)
    /\ UNCHANGED <<limits, pc, left, tokens, idle, waiters, result, granted, permits>>

\* Where a request goes when it has passed the given layer: buckets that are None are skipped.
Beyond(layer) ==
    IF layer = "decode" /\ Cost["rpm"] > 0 THEN "rpm"
    ELSE IF layer # "tpm" /\ Cost["tpm"] > 0 THEN "tpm" ELSE "wait"

Decoded(r) ==
    LET j == [of |-> r, kind |-> "decode"] IN
    /\ j \in threads
    /\ threads' = threads \ {j}
    /\ pc' = [pc EXCEPT ![r] = Beyond("decode")]
    /\ waiters' = IF Beyond("decode") = "wait" THEN Append(waiters, r) ELSE waiters
    /\ UNCHANGED <<limits, left, tokens, idle, jobs, result, granted, permits>>

-----------------------------------------------------------------------------
(* AsyncTokenBucket.acquire. Its lock is never held across an await, so    *)
(* what it does under the lock is one step.                                *)

\* Mutant: elapsed time is added without the cap.
RefillUncapped(b) == tokens[b] + idle[b]

\* The tokens after the elapsed time has been added.
Refill(b) == Smaller(Second, tokens[b] + idle[b])

Pass(r, b) ==
    /\ pc' = [pc EXCEPT ![r] = Beyond(b)]
    /\ waiters' = IF Beyond(b) = "wait" THEN Append(waiters, r) ELSE waiters
    /\ granted' = [granted EXCEPT ![b] = @ - Cost[b]]

Sleep(r, b, state, ticks) ==
    /\ pc' = [pc EXCEPT ![r] = state]
    /\ left' = [left EXCEPT ![r] = ticks]
    /\ UNCHANGED <<waiters, granted>>

\* num_tokens > max_tokens: pay at once, into debt, and sleep until the debt is refilled.
Oversized(r, b) ==
    /\ Cost[b] > Second
    /\ tokens' = [tokens EXCEPT ![b] = Refill(b) - Cost[b]]
    /\ Sleep(r, b, IF b = "rpm" THEN "rpmPaid" ELSE "tpmPaid", Cost[b] - Refill(b))

Enough(r, b) ==
    /\ Cost[b] <= Second /\ Refill(b) >= Cost[b]
    /\ tokens' = [tokens EXCEPT ![b] = Refill(b) - Cost[b]]
    /\ Pass(r, b) /\ UNCHANGED left

TooFew(r, b) ==
    /\ Cost[b] <= Second /\ Refill(b) < Cost[b]
    /\ tokens' = [tokens EXCEPT ![b] = Refill(b)]
    /\ Sleep(r, b, IF b = "rpm" THEN "rpmSleep" ELSE "tpmSleep", Cost[b] - Refill(b))

Acquire(r) ==
    \E b \in Bucket :
        /\ pc[r] = b
        /\ Oversized(r, b) \/ Enough(r, b) \/ TooFew(r, b)
        /\ idle' = [idle EXCEPT ![b] = 0]
        /\ UNCHANGED <<limits, jobs, threads, result, permits>>

\* A sleep ends: one that has paid goes on, the other tries again.
Wake(r) ==
    /\ left[r] = 0
    /\ \E b \in Bucket :
         \/ /\ pc[r] = (IF b = "rpm" THEN "rpmPaid" ELSE "tpmPaid")
            /\ Pass(r, b)
         \/ /\ pc[r] = (IF b = "rpm" THEN "rpmSleep" ELSE "tpmSleep")
            /\ pc' = [pc EXCEPT ![r] = b]
            /\ UNCHANGED <<waiters, granted>>
    /\ UNCHANGED <<limits, left, tokens, idle, jobs, threads, result, permits>>

-----------------------------------------------------------------------------
(* The semaphore and the scoring under it.                                 *)

\* async with self._semaphore, then wait_for(_compute_reward).
Begin(r) ==
    /\ waiters' = Tail(waiters)
    /\ pc' = [pc EXCEPT ![r] = "scoring"]
    /\ left' = [left EXCEPT ![r] = limits.timeout]
    /\ jobs' = IF limits.is_async THEN jobs ELSE Append(jobs, [of |-> r, kind |-> "score"])
    /\ UNCHANGED <<limits, tokens, idle, threads, result, granted>>

Enter(r) ==
    /\ waiters # <<>> /\ Head(waiters) = r /\ permits > 0
    /\ permits' = permits - 1
    /\ Begin(r)

Finish(r, how) ==
    /\ pc' = [pc EXCEPT ![r] = "done"]
    /\ left' = [left EXCEPT ![r] = 0]
    /\ permits' = permits + 1
    /\ result' = [result EXCEPT ![r] = how]

\* compute_score returns or raises while it is still waited for.
Scored(r) ==
    /\ pc[r] = "scoring"
    /\ \E how \in {"scored", "error"} : Finish(r, how)
    /\ limits.is_async \/ [of |-> r, kind |-> "score"] \in threads
    /\ threads' = threads \ {[of |-> r, kind |-> "score"]}
    /\ UNCHANGED <<limits, tokens, idle, waiters, jobs, granted>>

\* Mutant: a time-out that leaves the block without the semaphore's release.
TimesOutKeepsPermit(r) ==
    /\ pc[r] = "scoring" /\ left[r] = 0
    /\ pc' = [pc EXCEPT ![r] = "done"]
    /\ result' = [result EXCEPT ![r] = "timeout"]
    /\ UNCHANGED <<limits, left, jobs, tokens, idle, permits, waiters, threads, granted>>

\* wait_for cancels a coroutine, and a job that has not begun; a thread runs on.
TimesOut(r) ==
    /\ pc[r] = "scoring" /\ left[r] = 0
    /\ Finish(r, "timeout")
    /\ UNCHANGED <<limits, tokens, idle, waiters, jobs, threads, granted>>

\* A thread whose answer nobody waits for any more returns.
Abandoned(r) ==
    LET j == [of |-> r, kind |-> "score"] IN
    /\ j \in threads /\ pc[r] = "done"
    /\ threads' = threads \ {j}
    /\ UNCHANGED <<limits, pc, left, tokens, idle, waiters, jobs, result, granted, permits>>

-----------------------------------------------------------------------------
\* Coroutines that can go on do so within a tick, and a timer that is due fires in it.
Idle ==
    /\ \A r \in Request :
         /\ pc[r] \notin Bucket
         /\ pc[r] \in Sleeping \cup {"scoring"} => left[r] > 0
    /\ waiters = <<>> \/ permits = 0

\* Time a bucket has been idle for; what passes once it is more than full changes nothing.
Longer(b) == IF tokens[b] + idle[b] > Second THEN idle[b] ELSE idle[b] + 1

Tick ==
    /\ Idle
    /\ left' = [r \in Request |-> Larger(0, left[r] - 1)]
    /\ idle' = [b \in Bucket |-> Longer(b)]
    /\ granted' = [b \in Bucket |-> Smaller(Burst(b), granted[b] + 1)]
    /\ UNCHANGED <<limits, pc, tokens, waiters, jobs, threads, result, permits>>

RunSingle(r) ==
    Decoded(r) \/ Acquire(r) \/ Wake(r) \/ Enter(r) \/ Scored(r) \/ TimesOut(r)

RateNext == RunJob \/ Tick \/ \E r \in Request : Start(r) \/ RunSingle(r) \/ Abandoned(r)

\* Coroutines and the executor run, time passes; an abandoned call returns some day.
RateFairness ==
    /\ WF_rateVars(RunJob) /\ WF_rateVars(Tick)
    /\ \A r \in Request :
         /\ WF_rateVars(Decoded(r)) /\ WF_rateVars(Acquire(r)) /\ WF_rateVars(Wake(r))
         /\ WF_rateVars(Enter(r)) /\ WF_rateVars(TimesOut(r)) /\ WF_rateVars(Abandoned(r))

RateSpec == RateInit /\ [][RateNext]_rateVars /\ RateFairness

-----------------------------------------------------------------------------
\* What a bucket lets through in any period is at most its burst and what it refills in the
\* period, whatever mixture of loops, oversized requests in debt and idle times
\* (acquire: "maintaining an average rate limit").
GrantsBounded == \A b \in Bucket : granted[b] >= 0

\* The semaphore bounds the requests under it, through timeouts, errors and abandoned threads.
ConcurrencyBounded == Cardinality(InFlight) <= limits.max_concurrent

\* A bucket of standard requests wastes nothing: however often waiters wake, find too little
\* and sleep again, what it can grant is all that the clock has refilled and nobody took.
NothingWasted == \A b \in Bucket : Cost[b] <= Second => Refill(b) = granted[b]

\* A bucket grants a burst and its refill, wastes nothing of it, and the semaphore bounds what
\* is being scored. Threads outlive their time-out, so the bound is not claimed of functions.
LimitsHold ==
    /\ RateTypeOK
    /\ GrantsBounded /\ NothingWasted
    /\ limits.is_async => ConcurrencyBounded

\* Every request is answered, although scorers hang, time out and fail: nobody leaks a permit
\* and nobody is overtaken for ever at a bucket.
EveryRequestReturns == \A r \in Request : pc[r] = "decode" ~> pc[r] = "done"
==============================================================================
