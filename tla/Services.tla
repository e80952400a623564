------------------------------- MODULE Services -------------------------------
(***************************************************************************)
(* The services between an agent loop and what it calls, one of them       *)
(* chosen in the initial state: the router of a worker with the sizes of   *)
(* the .cfg ("router"), the routers of several workers over the same       *)
(* servers ("workers"), the server of a partial rollout ("server"), the    *)
(* rate limiter before coroutines or plain functions ("limiter"), and the  *)
(* sandbox that runs code against its test cases ("sandbox").              *)
(* Whatever is not chosen stands still.                                    *)
(***************************************************************************)
EXTENDS ServerRouter, RateLimiter

CONSTANT Sample

VARIABLES
    setting,
    all_weighted, all_cached, all_status, all_turns, all_served,
    paused, resetting, cancels, reuse, runs, call, gen, inDone, event, output, acc, eos, final,
    says, thread, sandbox_permits, others, results, metadata, first_compile_error_index, main

allVars == <<all_weighted, all_cached, all_status, all_turns, all_served>>
serverVars == <<paused, resetting, cancels, reuse, runs, call, gen, inDone, event, output, acc,
                eos, final>>
sandboxVars == <<says, thread, sandbox_permits, others, results, metadata,
                 first_compile_error_index, main>>
mcVars == <<setting, vars, allVars, serverVars, rateVars, sandboxVars>>

\* Two workers, whose conversations all run at once, with room for all in the caches.
Together == INSTANCE ServerRouter WITH Workers <- 2, Chunk <- 2, Batches <- 1, MaxTurns <- 2,
    CacheSize <- 3, Continuous <- TRUE, MaxAlive <- 4,
    weighted_servers <- all_weighted, request_id_to_server <- all_cached,
    status <- all_status, turns <- all_turns, served <- all_served
Partial == INSTANCE PartialServer WITH ResponseLength <- 2, MaxRuns <- 2, MaxCancels <- 2

\* Coroutines, each of which costs all of its bucket of requests and more than its bucket of
\* tokens holds; and functions in a single thread.
Coroutines == [second |-> 2, rpm |-> 2, tpm |-> 3, max_concurrent |-> 1, timeout |-> 4,
               threads |-> 2, is_async |-> TRUE]
Functions == [second |-> 2, rpm |-> 2, tpm |-> 0, max_concurrent |-> 2, timeout |-> 2,
              threads |-> 1, is_async |-> FALSE]
MCLimits == {Coroutines, Functions}

\* A case passes, does not compile, or gets an answer that cannot be read (the
\* last one only, to keep the instance small).
SandboxResponse(answer, compile, run) ==
    [status |-> answer, compile |-> compile, run |-> run, same |-> TRUE]
Sandbox == INSTANCE SandboxScore WITH Cases <- 0..2, MAX_RETRIES <- 2, MaxConcurrent <- 2,
    OtherCalls <- 1, permits <- sandbox_permits,
    Responses <- {SandboxResponse("Success", "Finished", "Finished"),
                  SandboxResponse("Failed", "Error", "None"),
                  SandboxResponse("malformed", "None", "None")}

ASSUME SettingsAssumption ==
    Together!RouterAssumption /\ Partial!ServerAssumption /\ Sandbox!SandboxAssumption

\* What is not chosen is where it starts.
MCInit ==
    /\ setting \in {"router", "workers", "server", "limiter", "sandbox"}
    /\ Init /\ Together!Init /\ Partial!ServerInit /\ RateInit /\ Sandbox!SandboxInit
    /\ \A c \in 0..2 : says[c].status = "malformed" => c = 2
    /\ setting # "sandbox" => \A c \in 0..2 : says[c].status = "Success"
    /\ reuse => setting = "server"
    /\ setting # "limiter" => limits = Coroutines

RouterNext ==
    setting = "router" /\ Next /\ UNCHANGED <<setting, allVars, serverVars, rateVars, sandboxVars>>
WorkersNext ==
    setting = "workers" /\ Together!Next /\ UNCHANGED <<setting, vars, serverVars, rateVars, sandboxVars>>
ServerNext ==
    setting = "server" /\ Partial!ServerNext /\ UNCHANGED <<setting, vars, allVars, rateVars, sandboxVars>>
LimiterNext ==
    setting = "limiter" /\ RateNext /\ UNCHANGED <<setting, vars, allVars, serverVars, sandboxVars>>
SandboxNext ==
    /\ setting = "sandbox" /\ Sandbox!SandboxNext
    /\ UNCHANGED <<setting, vars, allVars, serverVars, rateVars>>

MCNext == RouterNext \/ WorkersNext \/ ServerNext \/ LimiterNext \/ SandboxNext

MCSpec ==
    /\ MCInit /\ [][MCNext]_mcVars
    /\ \/ setting \in {"router", "workers"}
       \/ setting = "server" /\ Partial!ServerFairness
       \/ setting = "limiter" /\ RateFairness
       \/ setting = "sandbox" /\ Sandbox!SandboxFairness

-----------------------------------------------------------------------------
\* What arrives apart makes up a whole. The pieces of an interrupted response follow one another,
\* its last token ends it, and no call leaves tokens behind at the server; the results of test
\* cases take the places of their cases, whichever thread ends first, and the sandbox's semaphore
\* counts every call, also one that waits for its next attempt. And what the workers' routers
\* give a server, each without the others, does not add up to more than one conversation for
\* each of them.
PiecesMakeWhole ==
    /\ setting = "server" => /\ Partial!ServerTypeOK /\ Partial!PiecesJoin /\ Partial!EndIsFinal
                             /\ Partial!LeftoversAreEmpty
    /\ setting = "sandbox" => /\ Sandbox!SandboxTypeOK /\ Sandbox!ResultsAreOfTheirCases
                              /\ Sandbox!PermitsConserved
    /\ setting = "workers" => /\ Together!Balanced /\ Together!SessionsStick
                              /\ Together!WorkersTogetherBalanced

\* After cancel nothing begins to generate, and every call returns without the engine.
CancelIsPrompt ==
    /\ [][setting = "server" =>
            \A s \in Sample : paused /\ gen[s] # "running" => gen'[s] # "running"]_mcVars
    /\ Partial!CancelReturns

\* Every request is answered, although scorers hang, time out and fail, and every response is
\* scored, although the sandbox's gateway does.
RequestsReturn ==
    /\ EveryRequestReturns
    /\ setting = "sandbox" => Sandbox!Scored
=============================================================================
