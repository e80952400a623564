------------------------- MODULE PartialToolAgentLoop -------------------------
(***************************************************************************)
(* AsyncPartialToolAgentLoop: the ToolAgentLoop it inherits from, in runs  *)
(* that the Rollouter's cancel interrupts and that it submits again after  *)
(* the weights have moved. The servers' pause and the workers' event are   *)
(* set and cleared one after the other, in any order, and a sample may be  *)
(* submitted at any time. No interaction is configured: an answer of its   *)
(* user may leave no room to generate (ToolAgentLoop, RoomToGenerate).     *)
(***************************************************************************)
EXTENDS ToolAgentLoop

CONSTANTS MaxVersion   \* bound: parameter synchronizations

ASSUME VersionAssumption == MaxVersion \in Nat

VARIABLES running,    \* is run() executing? otherwise its output is with the Rollouter
          partial,    \* enable_partial_rollout
          asking,     \* a call of generate_for_partial is in progress
          hit,        \* the server's cancel has set that call's event
          phase,      \* rolling, cancelling or resuming: where the Rollouter's pause stands
          paused,     \* the server's paused
          event,      \* the worker's cancellation_event
          piece,      \* the tokens of the unfinished turn, over all its interruptions
          version,    \* param_version of the next run
          runVersion, \* param_version of this run
          first,      \* extra_fields["param_version_start"]
          tokenVersions, \* the weights each token of the response was generated with
          span        \* what the completed output reports as its versions

control == <<running, partial, asking, hit, phase, paused, event, version, runVersion, first, span>>
partialVars == <<agent, control, piece, tokenVersions>>

NoSpan == [start |-> MaxVersion + 1, end |-> MaxVersion + 1]

PartialInit ==
    /\ Init /\ ~Interactive
    /\ running = FALSE /\ partial \in BOOLEAN /\ asking = FALSE /\ hit = FALSE
    /\ phase = "rolling" /\ paused = FALSE /\ event = FALSE
    /\ piece = <<>> /\ tokenVersions = <<>>
    /\ version = 0 /\ runVersion = 0 /\ first = 0 /\ span = NoSpan

-----------------------------------------------------------------------------
(* run().                                                                  *)

\* Mutant: a restored trajectory that is taken for one that begins.
RunForgetsStart ==
    /\ ~running /\ output = NoOutput /\ state # "raised"
    /\ running' = TRUE /\ runVersion' = version
    /\ first' = version
    /\ UNCHANGED <<agent, partial, asking, hit, phase, paused, event, version, span, piece, tokenVersions>>

\* The Rollouter submits the sample: from scratch, or restored from the cancelled output.
Run ==
    /\ ~running /\ output = NoOutput /\ state # "raised"
    /\ running' = TRUE /\ runVersion' = version
    /\ first' = IF state = "PENDING" /\ prompt = <<>> THEN version ELSE first
    /\ UNCHANGED <<agent, partial, asking, hit, phase, paused, event, version, span, piece, tokenVersions>>

\* Mutant: the event is only looked at before a generation.
InterruptBeforeGenerating ==
    /\ running /\ ~asking /\ event /\ state = "PENDING"
    /\ running' = FALSE
    /\ UNCHANGED <<agent, partial, asking, hit, phase, paused, event, version, runVersion, first, span,
                   piece, tokenVersions>>

\* Between two states: the event is set, and the state is handed back as it is.
Interrupt ==
    /\ running /\ ~asking /\ event /\ state # "TERMINATED"
    /\ running' = FALSE
    /\ UNCHANGED <<agent, partial, asking, hit, phase, paused, event, version, runVersion, first, span,
                   piece, tokenVersions>>

\* A handler of the inherited loop runs to its end once the event has been found clear.
Turn(handler) ==
    /\ running /\ ~asking /\ ~event
    /\ handler
    /\ UNCHANGED <<control, piece>>
    /\ tokenVersions' = tokenVersions \o
         [i \in 1..Len(mask') - Len(mask) |-> IF mask'[Len(mask) + i] = 1 THEN runVersion ELSE -1]

\* Without partial rollout a generation is one call that cancel does not touch.
GenerateWhole == ~partial /\ Turn(Generating)

FinishRun ==
    /\ running /\ Finish
    /\ running' = FALSE
    /\ span' = [start |-> first, end |-> runVersion]
    /\ UNCHANGED <<partial, asking, hit, phase, paused, event, version, runVersion, first, piece, tokenVersions>>

-----------------------------------------------------------------------------
(* GENERATING with partial rollout: one call of generate_for_partial. A    *)
(* paused server answers at once with nothing, which changes nothing.      *)

Ask ==
    /\ partial /\ running /\ ~asking /\ ~event /\ state = "GENERATING"
    /\ ~paused
    /\ asking' = TRUE /\ UNCHANGED hit
    /\ UNCHANGED <<agent, running, partial, phase, paused, event, version, runVersion, first, span,
                   piece, tokenVersions>>

Received(tokens) ==
    /\ asking' = FALSE /\ hit' = FALSE
    /\ Extend(tokens)
    /\ tokenVersions' = tokenVersions \o Repeat(runVersion, Len(tokens))
    /\ UNCHANGED <<running, partial, phase, paused, event, version, runVersion, first, span>>

Fits(tokens) == Len(prompt) + Len(tokens) <= MaxModelLen /\ Len(piece) + Len(tokens) <= MaxTurn

\* Mutant: a cancelled piece that is counted but not added to the prompt.
InterruptedKeepsPrompt ==
    /\ asking /\ hit
    /\ asking' = FALSE /\ hit' = FALSE
    /\ \E tokens \in Turns :
         /\ Fits(tokens)
         /\ mask' = mask \o Repeat(1, Len(tokens))
         /\ tokenVersions' = tokenVersions \o Repeat(runVersion, Len(tokens))
    /\ UNCHANGED <<prompt, logps, state, assistantTurns, calls, userTurns, messages, output, piece,
                   running, partial, phase, paused, event, version, runVersion, first, span>>

\* is_cancel: keep the piece and stay in the state, unless the response is long enough.
Interrupted ==
    /\ asking /\ hit
    /\ \E tokens \in Turns \cup {<<>>} :
         /\ Fits(tokens)
         /\ Received(tokens)
         /\ IF Len(mask') >= ResponseLength
              THEN /\ assistantTurns' = assistantTurns + 1
                   /\ state' = "TERMINATED"
                   /\ piece' = <<>>
              ELSE /\ Len(piece) + Len(tokens) < MaxTurn
                   /\ piece' = piece \o tokens
                   /\ UNCHANGED <<assistantTurns, state>>
    /\ UNCHANGED <<calls, userTurns, messages, output>>

\* The call ends by itself. response_ids is what this call returned, not the whole turn.
Completed ==
    /\ asking
    /\ \E tokens \in Turns :
         /\ Fits(tokens)
         /\ Received(tokens)
         /\ EndTurn(tokens)
    /\ piece' = <<>>

-----------------------------------------------------------------------------
(* The Rollouter: cancel, synchronize, resume.                             *)

Pause ==
    /\ phase = "rolling" /\ version < MaxVersion
    /\ phase' = "cancelling"
    /\ UNCHANGED <<agent, running, partial, asking, hit, paused, event, version, runVersion, first,
                   span, piece, tokenVersions>>

CancelServer ==
    /\ phase = "cancelling" /\ ~paused
    /\ paused' = TRUE /\ hit' = asking
    /\ UNCHANGED <<agent, running, partial, asking, phase, event, version, runVersion, first, span,
                   piece, tokenVersions>>

CancelWorker ==
    /\ phase = "cancelling" /\ ~event
    /\ event' = TRUE
    /\ UNCHANGED <<agent, running, partial, asking, hit, phase, paused, version, runVersion, first,
                   span, piece, tokenVersions>>

\* pause() waits for the active tasks, then the weights move and resume begins.
Synchronize ==
    /\ phase = "cancelling" /\ paused /\ event /\ ~running
    /\ phase' = "resuming" /\ version' = version + 1
    /\ UNCHANGED <<agent, running, partial, asking, hit, paused, event, runVersion, first, span,
                   piece, tokenVersions>>

ResumeServer ==
    /\ phase = "resuming" /\ paused
    /\ paused' = FALSE
    /\ phase' = IF event THEN phase ELSE "rolling"
    /\ UNCHANGED <<agent, running, partial, asking, hit, event, version, runVersion, first, span,
                   piece, tokenVersions>>

ResumeWorker ==
    /\ phase = "resuming" /\ event
    /\ event' = FALSE
    /\ phase' = IF paused THEN phase ELSE "rolling"
    /\ UNCHANGED <<agent, running, partial, asking, hit, paused, version, runVersion, first, span,
                   piece, tokenVersions>>

Loop == Interrupt \/ Turn(Pending) \/ Turn(ProcessingTools) \/ GenerateWhole
        \/ Ask \/ Interrupted \/ Completed \/ FinishRun

Rollouter == Pause \/ CancelServer \/ CancelWorker \/ Synchronize \/ ResumeServer \/ ResumeWorker

PartialNext == Run \/ Loop \/ Rollouter

PartialSpec == PartialInit /\ [][PartialNext]_partialVars

-----------------------------------------------------------------------------
\* The lists without the tokens of a turn that is not over.
Settled(list) == SubSeq(list, 1, Len(list) - Len(piece))

Uninterrupted == INSTANCE ToolAgentLoop WITH
    prompt <- Settled(prompt), mask <- Settled(mask), logps <- Settled(logps), WholeTurn <- FALSE

\* README.md of the recipe: a cancelled sample resumes "from the saved state ...
\* rather than starting over".  However often it is interrupted, a trajectory is
\* one that ToolAgentLoop.run could have produced in one go: the same lists, turns,
\* tools and output.  (With WholeTurn this promises all but which part of an
\* interrupted turn is searched for tool calls: after an interruption it is only
\* what the last call returned.)
Implements ==
    /\ Uninterrupted!Init
    /\ [][running => Uninterrupted!Next]_(Uninterrupted!agent)

\* param_version_start and _end of a completed output enclose the weights of all its tokens, from
\* which the recipe computes how stale and how partial a sample is.
SpanCoversTokens ==
    output # NoOutput =>
        \A i \in 1..Len(output.mask) :
            output.mask[i] = 1 => tokenVersions[i] \in span.start..span.end

\* At every moment of a run the lists are in step, and the output of a run that completed can be
\* trained on, within the limits on turns and length and with the versions it reports.
ResumedIsSound ==
    /\ ListsAligned
    /\ span # NoSpan => output # NoOutput /\ OutputTrainable /\ TurnsBounded /\ SpanCoversTokens

\* A cancelled loop never holds up the synchronization: once the server and the worker are both
\* cancelled the run returns, whatever state it was in.
CancelReturns == (phase = "cancelling" /\ paused /\ event /\ running) ~> ~running
===============================================================================
