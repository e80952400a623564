----------------------------- MODULE SandboxScore -----------------------------
(***************************************************************************)
(* Scoring code by running it: check_correctness of                        *)
(* verl/utils/reward_score/sandbox_fusion sends every test case to a       *)
(* sandbox in a thread of its own.  The threads share a semaphore with     *)
(* those of other responses; a gateway that times out is asked again.      *)
(* compute_score counts what passed, and is not modelled.                  *)
(*                                                                         *)
(* What the sandbox says of a case is fixed by the code and the case; how  *)
(* long it takes, and whether the gateway or the network fails, is not.    *)
(***************************************************************************)
EXTENDS Integers, FiniteSets, FiniteSetsExt

CONSTANTS
    Cases,              \* the test cases, numbered from 0
    Responses,          \* what the sandbox may answer
    MAX_RETRIES,
    MaxConcurrent,      \* of the semaphore
    OtherCalls          \* a bound on the calls of other responses meanwhile

SandboxAssumption ==
    /\ IsFiniteSet(Cases) /\ Cases # {} /\ Cases = 0..Cardinality(Cases) - 1
    /\ {MAX_RETRIES, MaxConcurrent} \subseteq Nat \ {0}
    /\ OtherCalls \in Nat

VARIABLES
    says,           \* what the sandbox says of each case
    thread,         \* case -> where its thread is, and its attempt
    permits,
    others,         \* calls of others: [waiting, calling]
    results,        \* case -> result_status, or None
    metadata,       \* case -> metadata["status"], or None
    first_compile_error_index,
    main            \* where check_correctness is
sandboxVars == <<says, thread, permits, others, results, metadata, first_compile_error_index, main>>

None == -9
Raised == -8
NoIndex == -1

\* _process_single_case: compiled with an error, a time-out or a return code.
IsCompileError(response) == response.compile \in {"Error", "TimeLimitExceeded", "FinishedBadly"}
IsRuntimeError(response) == response.run \in {"Error", "FinishedBadly"}

\* The result of a response: 1 and 0 for True and False, a negative number for an error.
Verdict(response) ==
    IF response.status = "Failed" /\ IsCompileError(response) THEN -4
    ELSE IF response.status = "Failed" /\ response.run = "TimeLimitExceeded" THEN -3
    ELSE IF response.status = "Failed" /\ IsRuntimeError(response) THEN -2
    ELSE IF response.status = "Success" /\ response.run = "Finished"
    THEN IF response.same THEN 1 ELSE 0
    ELSE -1

StatusOf(result) ==
    CASE result = 1 -> "success" [] result = 0 -> "wrong_answer" [] result = -1 -> "error"
      [] result = -2 -> "runtime_error" [] result = -3 -> "timeout" [] result = -4 -> "compile_error"

SandboxInit ==
    /\ says \in [Cases -> Responses]
    /\ thread = [c \in Cases |-> [at |-> "waiting", attempt |-> 1, result |-> None]]
    /\ permits = MaxConcurrent
    /\ others = [waiting |-> OtherCalls, calling |-> 0]
    /\ results = [c \in Cases |-> None] /\ metadata = [c \in Cases |-> "none"]
    /\ first_compile_error_index = NoIndex
    /\ main = "collecting"

-----------------------------------------------------------------------------
(* The threads.                                                            *)

\* with concurrent_semaphore
Acquire(c) ==
    /\ thread[c].at = "waiting" /\ permits > 0
    /\ permits' = permits - 1
    /\ thread' = [thread EXCEPT ![c].at = "calling"]
    /\ UNCHANGED <<says, others, results, metadata, first_compile_error_index, main>>

\* Whatever the call came to, the semaphore is released.
Finish(c, result) ==
    /\ permits' = permits + 1
    /\ thread' = [thread EXCEPT ![c].at = "done", ![c].result = result]
    /\ UNCHANGED <<says, others, results, metadata, first_compile_error_index, main>>

\* An answer that is not an object makes the thread raise, after the call.
Answered(c) ==
    /\ thread[c].at = "calling"
    /\ Finish(c, IF says[c].status = "malformed" THEN Raised ELSE Verdict(says[c]))

\* "Retrying after {delay} seconds...", with the semaphore held.
Retry(c) ==
    /\ thread' = [thread EXCEPT ![c].at = "sleeping"]
    /\ UNCHANGED <<says, permits, others, results, metadata, first_compile_error_index, main>>

\* 504: another attempt, after the last one an error.
GatewayTimesOut(c) ==
    /\ thread[c].at = "calling"
    /\ IF thread[c].attempt < MAX_RETRIES THEN Retry(c) ELSE Finish(c, -1)

Wakes(c) ==
    /\ thread[c].at = "sleeping"
    /\ thread' = [thread EXCEPT ![c].at = "calling", ![c].attempt = @ + 1]
    /\ UNCHANGED <<says, permits, others, results, metadata, first_compile_error_index, main>>

\* Any other failure of the request ends the attempts.
RequestFails(c) == thread[c].at = "calling" /\ Finish(c, -1)

Thread(c) == Acquire(c) \/ Answered(c) \/ GatewayTimesOut(c) \/ Wakes(c) \/ RequestFails(c)

\* The threads of other responses, which share the semaphore.
OtherAcquires ==
    /\ others.waiting > 0 /\ permits > 0
    /\ permits' = permits - 1
    /\ others' = [waiting |-> others.waiting - 1, calling |-> others.calling + 1]
    /\ UNCHANGED <<says, thread, results, metadata, first_compile_error_index, main>>

OtherReleases ==
    /\ others.calling > 0
    /\ permits' = permits + 1
    /\ others' = [others EXCEPT !.calling = @ - 1]
    /\ UNCHANGED <<says, thread, results, metadata, first_compile_error_index, main>>

-----------------------------------------------------------------------------
(* check_correctness.                                                      *)

\* Mutant: the first one to arrive.
FirstCompileErrorArrived(c, result) ==
    IF result = -4 /\ first_compile_error_index = NoIndex THEN c ELSE first_compile_error_index

\* The first one in the order of the cases.
FirstCompileError(c, result) ==
    IF result = -4 /\ (first_compile_error_index = NoIndex \/ c < first_compile_error_index)
    THEN c ELSE first_compile_error_index

\* as_completed
Collect(c) ==
    LET result == thread[c].result IN
    /\ main = "collecting" /\ thread[c].at = "done"
    /\ thread' = [thread EXCEPT ![c].at = "collected"]
    /\ results' = [results EXCEPT ![c] = IF result = Raised THEN -1 ELSE result]
    /\ metadata' = [metadata EXCEPT
            ![c] = IF result = Raised THEN "internal_error" ELSE StatusOf(result)]
    /\ first_compile_error_index' = FirstCompileError(c, result)
    /\ UNCHANGED <<says, permits, others, main>>

\* Post-processing for compile errors, when all threads have ended.
PostProcess ==
    LET skipped(c) == first_compile_error_index # NoIndex /\ c > first_compile_error_index
                      /\ results[c] # -4
    IN /\ main = "collecting" /\ \A c \in Cases : thread[c].at = "collected"
       /\ results' = [c \in Cases |-> IF skipped(c) THEN -4 ELSE results[c]]
       /\ metadata' = [c \in Cases |->
                          IF skipped(c) THEN "compile_error_skipped" ELSE metadata[c]]
       /\ main' = "returned"
       /\ UNCHANGED <<says, thread, permits, others, first_compile_error_index>>

Main == PostProcess \/ \E c \in Cases : Collect(c)

SandboxNext ==
    \/ Main
    \/ \E c \in Cases : Thread(c)
    \/ OtherAcquires \/ OtherReleases

\* Every request returns or times out, and the threads run: when one of them can go on, one does.
\* That is enough, because each has only so many attempts.
SandboxFairness == WF_sandboxVars(Main \/ (\E c \in Cases : Thread(c)) \/ OtherReleases)

SandboxSpec == SandboxInit /\ [][SandboxNext]_sandboxVars /\ SandboxFairness

-----------------------------------------------------------------------------
SandboxTypeOK ==
    /\ permits \in 0..MaxConcurrent
    /\ \A c \in Cases : thread[c].attempt \in 1..MAX_RETRIES
    /\ first_compile_error_index \in Cases \cup {NoIndex}

InCall == {c \in Cases : thread[c].at \in {"calling", "sleeping"}}

\* The semaphore counts every call in progress, also one that waits for its next attempt, and
\* no failure loses a permit.
PermitsConserved == permits + Cardinality(InCall) + others.calling = MaxConcurrent

\* "Results are ordered corresponding to the inputs", whatever order the threads end in: a case
\* has its own result, unless the code had not compiled for an earlier one, and its status says
\* which of the two.
ResultsAreOfTheirCases ==
    LET own(c) == IF thread[c].result = Raised THEN -1 ELSE thread[c].result
        uncompiled(c) == \E b \in Cases : b < c /\ thread[b].result = -4
    IN main = "returned" =>
        \A c \in Cases :
            /\ results[c] = IF uncompiled(c) THEN -4 ELSE own(c)
            /\ metadata[c] = IF uncompiled(c) /\ own(c) # -4 THEN "compile_error_skipped"
                             ELSE IF thread[c].result = Raised THEN "internal_error"
                             ELSE StatusOf(own(c))

\* Neither the gateway nor the load of others keeps a response from being scored.
Scored == <>(main = "returned")
=============================================================================
