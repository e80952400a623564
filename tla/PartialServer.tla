---------------------------- MODULE PartialServer ----------------------------
(***************************************************************************)
(* vLLMHttpServerForPartial: generate_for_partial, cancel, resume and      *)
(* reset_prefix_cache, and PartialSingleTurnAgentLoop.run, which puts the  *)
(* pieces of an interrupted response together.                             *)
(*                                                                         *)
(* A generated token is named by its position in the response. A step is   *)
(* what a coroutine does between two awaits that can suspend.              *)
(***************************************************************************)
EXTENDS Integers, Sequences, FiniteSets

CONSTANTS Sample, ResponseLength,
          MaxRuns,     \* bound: runs of a sample
          MaxCancels   \* bound: calls of cancel

ServerAssumption == ResponseLength \in Nat \ {0} /\ MaxRuns \in Nat /\ MaxCancels \in Nat

VARIABLES paused, resetting,  \* resetting: reset_prefix_cache awaits the engine, holding the lock
          cancels,
          reuse,       \* does a sample keep its request_id? (tool loop: yes, single turn: no)
          runs, call,  \* per sample: runs so far, where its call stands
          gen,         \* per sample: its generation task
          inDone,      \* per sample: was generation_handle in done?
          event,       \* cancel_event: request -> is it set?
          output,      \* req_output: request -> tokens so far, None before the first
          acc,         \* output.response_ids the Rollouter holds
          eos,         \* position of the token that ended the response, 0: none yet
          final        \* did the run end with is_cancel false?

serverVars == <<paused, resetting, cancels, reuse, runs, call, gen, inDone, event, output, acc,
                eos, final>>

None == <<>>
RequestId == Sample \X (0..MaxRuns)
Id(s) == <<s, IF reuse THEN 0 ELSE runs[s]>>

\* Dictionaries: setting a key, and popping it if it is there.
Set(map, key, value) == [k \in DOMAIN map \cup {key} |-> IF k = key THEN value ELSE map[k]]
Pop(map, key) == [k \in DOMAIN map \ {key} |-> map[k]]

ServerTypeOK ==
    /\ paused \in BOOLEAN /\ resetting \in BOOLEAN /\ reuse \in BOOLEAN /\ cancels \in 0..MaxCancels
    /\ runs \in [Sample -> 0..MaxRuns]
    /\ call \in [Sample -> {"idle", "entering", "waiting", "collecting"}]
    /\ gen \in [Sample -> {"none", "running", "ended", "cancelled"}]
    /\ inDone \in [Sample -> BOOLEAN] /\ final \in [Sample -> BOOLEAN]
    /\ DOMAIN event \subseteq RequestId /\ DOMAIN output = DOMAIN event
    /\ acc \in [Sample -> Seq(Nat)] /\ eos \in [Sample -> Nat]

ServerInit ==
    /\ paused = FALSE /\ resetting = FALSE /\ cancels = 0 /\ reuse \in BOOLEAN
    /\ runs = [s \in Sample |-> 0] /\ call = [s \in Sample |-> "idle"]
    /\ gen = [s \in Sample |-> "none"] /\ inDone = [s \in Sample |-> FALSE]
    /\ event = <<>> /\ output = <<>>
    /\ acc = [s \in Sample |-> <<>>] /\ eos = [s \in Sample |-> 0]
    /\ final = [s \in Sample |-> FALSE]

-----------------------------------------------------------------------------
\* run(): a sample that is new or was cancelled is sent, its response so far after its prompt.
Ask(s) ==
    /\ call[s] = "idle" /\ ~final[s] /\ runs[s] < MaxRuns
    /\ runs' = [runs EXCEPT ![s] = @ + 1]
    /\ call' = [call EXCEPT ![s] = "entering"]
    /\ UNCHANGED <<paused, resetting, cancels, reuse, gen, inDone, event, output, acc, eos, final>>

\* run() gets its answer: it is appended and cut, and a response that is long enough is not
\* cancelled.
Reply(s, tokens, isCancel) ==
    LET all == acc[s] \o tokens IN
    /\ acc' = [acc EXCEPT ![s] =
                  SubSeq(all, 1, IF Len(all) < ResponseLength THEN Len(all) ELSE ResponseLength)]
    /\ final' = [final EXCEPT ![s] = ~isCancel \/ Len(all) >= ResponseLength]
    /\ call' = [call EXCEPT ![s] = "idle"]

\* The first section under the lock.
Register(s) ==
    /\ call[s] = "entering" /\ ~resetting
    /\ IF paused
         THEN Reply(s, <<>>, TRUE) /\ UNCHANGED <<gen, event, output>>
         ELSE /\ event' = Set(event, Id(s), FALSE) /\ output' = Set(output, Id(s), None)
              /\ gen' = [gen EXCEPT ![s] = "running"]
              /\ call' = [call EXCEPT ![s] = "waiting"]
              /\ UNCHANGED <<acc, final>>
    /\ UNCHANGED <<paused, resetting, cancels, reuse, runs, inDone, eos>>

\* _generate_step gets one more token; with the last one the generator, and so the task, ends.
GenerateStep(s) ==
    /\ gen[s] = "running" /\ Len(acc[s]) + Len(output[Id(s)]) <= ResponseLength
    /\ LET place == Len(acc[s]) + Len(output[Id(s)]) + 1 IN
       /\ output' = [output EXCEPT ![Id(s)] = Append(@, place)]
       /\ \E last \in {FALSE, TRUE} :
            /\ place > ResponseLength => last
            /\ gen' = [gen EXCEPT ![s] = IF last THEN "ended" ELSE @]
            /\ eos' = [eos EXCEPT ![s] = IF last THEN place ELSE @]
    /\ UNCHANGED <<paused, resetting, cancels, reuse, runs, call, inDone, event, acc, final>>

\* asyncio.wait returns with what is done by then; the task that is pending is cancelled.
WaitEnds(s) ==
    /\ call[s] = "waiting" /\ (gen[s] = "ended" \/ event[Id(s)])
    /\ inDone' = [inDone EXCEPT ![s] = gen[s] = "ended"]
    /\ gen' = [gen EXCEPT ![s] = IF @ = "running" THEN "cancelled" ELSE @]
    /\ call' = [call EXCEPT ![s] = "collecting"]
    /\ UNCHANGED <<paused, resetting, cancels, reuse, runs, event, output, acc, eos, final>>

\* The second section under the lock: without output return at once, and leave the entries.
Collect(s) ==
    /\ call[s] = "collecting" /\ ~resetting
    /\ IF output[Id(s)] = None
         THEN Reply(s, <<>>, TRUE) /\ UNCHANGED <<event, output>>
         ELSE /\ Reply(s, output[Id(s)], ~inDone[s])
              /\ event' = Pop(event, Id(s)) /\ output' = Pop(output, Id(s))
    /\ gen' = [gen EXCEPT ![s] = "none"]
    /\ UNCHANGED <<paused, resetting, cancels, reuse, runs, inDone, eos>>

-----------------------------------------------------------------------------
\* Mutant: a cancel that only pauses.
CancelOnlyPauses ==
    /\ ~paused /\ ~resetting /\ cancels < MaxCancels
    /\ paused' = TRUE /\ cancels' = cancels + 1
    /\ UNCHANGED <<resetting, reuse, runs, call, gen, inDone, event, output, acc, eos, final>>

Cancel ==
    /\ ~paused /\ ~resetting /\ cancels < MaxCancels
    /\ paused' = TRUE /\ cancels' = cancels + 1
    /\ event' = [r \in DOMAIN event |-> TRUE]
    /\ UNCHANGED <<resetting, reuse, runs, call, gen, inDone, output, acc, eos, final>>

\* The Rollouter's pause resets the cache when its tasks have returned.
ResetBegins ==
    /\ paused /\ ~resetting
    /\ resetting' = TRUE
    /\ UNCHANGED <<paused, cancels, reuse, runs, call, gen, inDone, event, output, acc, eos, final>>

ResetEnds ==
    /\ resetting
    /\ resetting' = FALSE
    /\ UNCHANGED <<paused, cancels, reuse, runs, call, gen, inDone, event, output, acc, eos, final>>

Resume ==
    /\ paused /\ ~resetting
    /\ paused' = FALSE
    /\ UNCHANGED <<resetting, cancels, reuse, runs, call, gen, inDone, event, output, acc, eos, final>>

Server(s) == Register(s) \/ WaitEnds(s) \/ Collect(s)

ServerNext ==
    \/ \E s \in Sample : Ask(s) \/ Server(s) \/ GenerateStep(s)
    \/ Cancel \/ ResetBegins \/ ResetEnds \/ Resume

\* The server's coroutines run, also against resets that take the lock first again and again, and
\* a reset ends. Nothing is assumed of the engine's generation.
ServerFairness ==
    /\ \A s \in Sample : /\ SF_serverVars(Register(s)) /\ SF_serverVars(Collect(s))
                         /\ WF_serverVars(WaitEnds(s))
    /\ WF_serverVars(ResetEnds)

ServerSpec == ServerInit /\ [][ServerNext]_serverVars /\ ServerFairness

-----------------------------------------------------------------------------
\* The pieces of an interrupted response follow one another without a gap, an overlap or a piece
\* of an earlier call, also when the request_id is used again.
PiecesJoin == \A s \in Sample : acc[s] = [i \in 1..Len(acc[s]) |-> i]

\* A generation that ends while it is being cancelled is complete: nothing is generated after its
\* last token, and a response is only final with that token or with response_length tokens.
EndIsFinal ==
    \A s \in Sample :
        /\ eos[s] > 0 => Len(acc[s]) <= eos[s]
        /\ eos[s] > 0 /\ Len(acc[s]) = eos[s] => final[s]
        /\ final[s] => Len(acc[s]) \in {eos[s], ResponseLength}

\* A call leaves entries behind only if it was cancelled before its first output (the early
\* return), so that cancel_event grows by at most the calls of a cancel and no tokens are kept.
LeftoversAreEmpty ==
    \A r \in DOMAIN output :
        \/ \E s \in Sample : r = Id(s) /\ call[s] \in {"waiting", "collecting"}
        \/ output[r] = None /\ event[r]

\* After cancel every call returns without waiting for the engine, also one that entered in the
\* same moment.
CancelReturns ==
    \A s \in Sample : (paused /\ call[s] # "idle") ~> (call[s] = "idle" \/ ~paused)
==============================================================================
