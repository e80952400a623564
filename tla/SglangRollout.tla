---------------------------- MODULE SglangRollout ----------------------------
(***************************************************************************)
(* SGLangRollout with several turns: one coroutine per request runs the    *)
(* state machine of _async_rollout_a_request over an AsyncRolloutRequest,  *)
(* and the driver of _req_level_generate_sequences collects TargetCompletion *)
(* of them, cancels the others and puts padding in their place.            *)
(*                                                                         *)
(* A token is its kind: "p" of the prompt, "g" the generation prompt (one  *)
(* token), "a" of the assistant, "t" of a tool, "u" of a user.             *)
(***************************************************************************)
EXTENDS Integers, Sequences, FiniteSets, SequencesExt

CONSTANTS Requests,           \* batch_data_id of the requests
          TargetCompletion,   \* int(total_requests * (1 - over_sample_rate))
          Prompts,            \* possible lengths of a prompt with its generation prompt
          PromptLength, ResponseLength,
          MaxModelLen,        \* config.max_model_len, at least the sum of the two
          MaxAssistantTurns, MaxUserTurns,
          Drift,              \* bound: tokens a template adds when a message is encoded again
          Answers,            \* lengths of a tool's or a user's message; 0 is no message
          Creations,          \* lengths of what creating the tools says
          Tooled, Interactive,
          Slow                \* requests that may hang

RolloutAssumption ==
    /\ IsFiniteSet(Requests) /\ Requests # {} /\ Requests \subseteq Nat
    /\ TargetCompletion \in 0..Cardinality(Requests)
    /\ Prompts \subseteq Nat \ {0} /\ PromptLength \in Nat \ {0} /\ ResponseLength \in Nat \ {0}
    /\ MaxModelLen \in Nat /\ MaxModelLen >= PromptLength + ResponseLength
    /\ MaxAssistantTurns \in Nat /\ MaxUserTurns \in Nat /\ Drift \in Nat
    /\ Answers \subseteq Nat /\ Creations \subseteq Nat
    /\ Tooled \in BOOLEAN /\ Interactive \in BOOLEAN /\ Slow \subseteq Requests

VARIABLES req,        \* the copy each coroutine works on
          result,     \* what each coroutine returned: a row, Exception, or NoRow
          finished,   \* the order in which coroutines ended
          counted,    \* completed_count
          driver      \* "waiting", "gathering", "returned" or "raised"

rollout == <<req, result, finished, counted, driver>>

NoRow == [kind |-> "none"]
Exception == [kind |-> "raised"]
Repeat(x, n) == [i \in 1..n |-> x]
Upto(list, n) == SubSeq(list, 1, IF Len(list) < n THEN Len(list) ELSE n)
From(list, n) == SubSeq(list, n + 1, Len(list))

PromptOf(n) == Append(Repeat("p", n - 1), "g")

\* AsyncRolloutRequest.initialize_request.
NewRequest(n) ==
    [state |-> "PENDING", prompt |-> PromptOf(n), ids |-> PromptOf(n), mask |-> Repeat(0, n),
     turns |-> 0, userTurns |-> 0, finish |-> "none", asked |-> <<>>, tools |-> "none"]

RolloutInit ==
    /\ req \in [Requests -> {NewRequest(n) : n \in Prompts}]
    /\ result = [r \in Requests |-> NoRow]
    /\ finished = <<>> /\ counted = 0 /\ driver = "waiting"

-----------------------------------------------------------------------------
(* AsyncRolloutRequest *)

Added(q, tokens, trained) ==
    [q EXCEPT !.ids = @ \o tokens, !.mask = @ \o Repeat(trained, Len(tokens))]

EndsInPrompt(q) == q.ids # <<>> /\ Last(q.ids) = "g"

\* _remove_generation_prompt_ids_if_present
Unprompted(q) ==
    IF EndsInPrompt(q) THEN [q EXCEPT !.ids = Front(@), !.mask = Front(@)] ELSE q

\* get_generation_prompt_ids
Prompted(q) == IF EndsInPrompt(q) THEN q ELSE Added(q, <<"g">>, 0)

\* add_tool_response_messages: empty responses add nothing.
ToolMessages(q, n) == IF n = 0 THEN q ELSE Added(Unprompted(q), Repeat("t", n), 0)

\* finalize and truncate_output_ids; max_model_len of a request is what a row holds.
Final(q) ==
    LET end == Unprompted(q) IN
    [end EXCEPT !.state = "COMPLETED",
                !.ids = Upto(@, PromptLength + ResponseLength),
                !.mask = Upto(@, PromptLength + ResponseLength)]

RowOf(q) ==
    [kind |-> "genuine", prompt |-> q.prompt,
     response |-> Upto(From(q.ids, Len(q.prompt)), ResponseLength),
     mask |-> Upto(From(q.mask, Len(q.prompt)), ResponseLength)]

\* _create_padding_request, from the request as it was handed in.
PaddingRow(q) ==
    [kind |-> "padding", prompt |-> q.prompt,
     response |-> Repeat("pad", ResponseLength), mask |-> Repeat(0, ResponseLength)]

-----------------------------------------------------------------------------
(* _async_rollout_a_request: an action is an iteration of its loop. *)

Runs(r) == result[r] = NoRow
InLoop(r) == Runs(r) /\ req[r].state # "LEFT" /\ req[r].turns < MaxAssistantTurns
Goes(r, q) == req' = [req EXCEPT ![r] = q]
Left(q, reason) == [q EXCEPT !.state = "LEFT", !.finish = reason]
DriverIdle == UNCHANGED <<result, finished, counted, driver>>

Pending(r) ==
    /\ InLoop(r) /\ req[r].state = "PENDING"
    /\ \E n \in IF Tooled THEN Creations ELSE {0} :
         Goes(r, [ToolMessages(req[r], n) EXCEPT
                    !.state = "RUNNING", !.tools = IF Tooled THEN "created" ELSE "none"])
    /\ DriverIdle

\* Without room for a token and EOS the conversation ends with its prompt.
NoRoom(r) ==
    /\ InLoop(r) /\ req[r].state = "RUNNING"
    /\ Len(Prompted(req[r]).ids) + 1 >= MaxModelLen
    /\ Goes(r, Left(Prompted(req[r]), "LENGTH"))
    /\ DriverIdle

Smaller(m, n) == IF m < n THEN m ELSE n

\* max_new_tokens of _handle_engine_generate
Room(asked) == Smaller(ResponseLength, MaxModelLen - Len(asked) - 1)

\* What follows an answer the engine stopped by itself.
CallsTools(q) == [q EXCEPT !.state = "TOOL_CALLING", !.finish = "TOOL_CALL"]
MayInteract(q) == Interactive /\ q.userTurns < MaxUserTurns /\ q.turns < MaxAssistantTurns
Speaks(q) ==
    IF MayInteract(q) THEN [q EXCEPT !.state = "INTERACTING", !.finish = "STOP"]
    ELSE Left(q, "STOP")

\* A call of a tool that cannot be parsed ends the conversation, whoever might answer.
AfterStop(q) ==
    {Speaks(q)} \cup (IF Tooled THEN {CallsTools(q), Left(q, "STOP")} ELSE {})

Running(r) ==
    LET q == Prompted(req[r])
        heard(n) == [Added(q, Repeat("a", n), 1) EXCEPT !.turns = @ + 1, !.asked = q.ids]
    IN
    /\ InLoop(r) /\ req[r].state = "RUNNING"
    /\ Len(q.ids) + 1 < MaxModelLen
    /\ \E n \in 1..Room(q.ids), d \in 0..Drift :
         \/ n = Room(q.ids) /\ Goes(r, Left(heard(n + d), "LENGTH"))
         \/ \E next \in AfterStop(heard(n + d)) : Goes(r, next)
    /\ DriverIdle

\* The calls are gathered; what they say may fill the context.
ToolCalling(r) ==
    /\ InLoop(r) /\ req[r].state = "TOOL_CALLING"
    /\ \E n \in Answers :
         LET q == ToolMessages(req[r], n) IN
         Goes(r, IF Len(q.ids) >= MaxModelLen
                   THEN Left(q, "STOP") ELSE [q EXCEPT !.state = "RUNNING"])
    /\ DriverIdle

Interacting(r) ==
    /\ InLoop(r) /\ req[r].state = "INTERACTING"
    /\ LET q == [req[r] EXCEPT !.userTurns = @ + 1] IN
       \/ Goes(r, Left(q, "STOP"))
       \/ \E n \in Answers \ {0} :
            LET said == Added(q, Repeat("u", n), 0) IN
            Goes(r, IF Len(said.ids) >= MaxModelLen
                      THEN Left(said, "STOP") ELSE [said EXCEPT !.state = "RUNNING"])
    /\ DriverIdle

Ends(r, value) ==
    /\ result' = [result EXCEPT ![r] = value]
    /\ finished' = Append(finished, r)
    /\ UNCHANGED <<counted, driver>>

\* After the loop: tools are scored and released, then the request is finalized.
FinishReason(q) == IF q.turns >= MaxAssistantTurns THEN "STOP" ELSE q.finish

FinishRequest(r) ==
    /\ Runs(r) /\ ~InLoop(r)
    /\ LET q == [req[r] EXCEPT !.finish = FinishReason(req[r]),
                               !.tools = IF @ = "created" THEN "released" ELSE @] IN
       IF q.finish \in {"STOP", "LENGTH"}
         THEN Goes(r, Final(q)) /\ Ends(r, RowOf(Final(q)))
         ELSE Goes(r, q) /\ Ends(r, Exception)

\* Creating or calling a tool raises, or starting an interaction or its answer, or scoring or
\* releasing a tool: nothing catches it before the driver.  (The engine is taken to answer.)
CallRaises(r) ==
    /\ \/ InLoop(r) /\ Tooled /\ req[r].state \in {"PENDING", "TOOL_CALLING"}
       \/ InLoop(r) /\ Interactive /\ req[r].state \in {"PENDING", "INTERACTING"}
       \/ Runs(r) /\ ~InLoop(r) /\ req[r].tools = "created"
    /\ Ends(r, Exception)
    /\ UNCHANGED req

Coroutine(r) ==
    Pending(r) \/ NoRoom(r) \/ Running(r) \/ ToolCalling(r) \/ Interacting(r) \/ FinishRequest(r)

-----------------------------------------------------------------------------
(* run_with_cancellation *)

Cancelled == [r \in Requests |-> IF Runs(r) THEN PaddingRow(req[r]) ELSE result[r]]

\* as_completed hands over the next task: it may raise, and it may be the last one awaited.
Await ==
    /\ driver = "waiting" /\ counted < Len(finished)
    /\ LET raised == result[finished[counted + 1]] = Exception IN
       IF raised \/ counted + 1 >= TargetCompletion
         THEN /\ result' = Cancelled
              /\ driver' = IF raised THEN "raised" ELSE "gathering"
         ELSE UNCHANGED <<result, driver>>
    /\ counted' = counted + 1
    /\ UNCHANGED <<req, finished>>

\* The results are sorted by their number; an exception among them has none.
Gather ==
    /\ driver = "gathering"
    /\ driver' = IF \E r \in Requests : result[r] = Exception THEN "raised" ELSE "returned"
    /\ UNCHANGED <<req, result, finished, counted>>

Driver == Await \/ Gather

RolloutNext == Driver \/ \E r \in Requests : Coroutine(r) \/ CallRaises(r)

Fairness ==
    /\ WF_rollout(Driver)
    /\ \A r \in Requests \ Slow : WF_rollout(Coroutine(r))

RolloutSpec == RolloutInit /\ [][RolloutNext]_rollout /\ Fairness

-----------------------------------------------------------------------------
Genuine(r) == result[r].kind = "genuine"

RolloutTypeOK ==
    /\ \A r \in Requests :
         /\ req[r].state \in {"PENDING", "RUNNING", "TOOL_CALLING", "INTERACTING", "LEFT", "COMPLETED"}
         /\ req[r].ids \in Seq({"p", "g", "a", "t", "u"})
         /\ Len(req[r].mask) = Len(req[r].ids)
    /\ counted <= Len(finished) /\ IsInjective(finished)

\* A response and its mask, cut from two lists that tool messages shorten and extend, belong
\* together: trained are the assistant's tokens, no more and no less, and rows have their limit.
MaskMarksAssistant ==
    \A r \in Requests : Genuine(r) =>
        LET row == result[r] IN
        /\ Len(row.response) = Len(row.mask) /\ Len(row.mask) <= ResponseLength
        /\ \A i \in 1..Len(row.mask) : row.mask[i] = 1 <=> row.response[i] = "a"

\* The row reads as the conversation did: every token follows the tokens the engine was shown
\* before it generated it.  Only where creating a tool says nothing: what it says takes the
\* generation prompt away from the ids, and not from the prompt in front of them.
RowIsConversation ==
    \A r \in Requests : Genuine(r) =>
        LET q == req[r] IN
        /\ IsPrefix(result[r].prompt \o result[r].response, q.ids) \/ result[r].response = <<>>
        /\ IsPrefix(q.asked, q.ids) \/ IsPrefix(q.ids, q.asked)

\* A batch has a row for every request, at least TargetCompletion of them genuine, and what was
\* cancelled trains nothing.
BatchIsWhole ==
    driver = "returned" =>
        /\ \A r \in Requests : result[r].kind \in {"genuine", "padding"}
        /\ Cardinality({r \in Requests : Genuine(r)}) >= TargetCompletion
        /\ \A r \in Requests : result[r].kind = "padding" =>
             \A i \in 1..ResponseLength : result[r].mask[i] = 0

\* finalize refuses a reason it does not know, "tool_calls" among them: a request whose last turn
\* called a tool must not reach it so.  Only tools and interactions raise; and a request that
\* returns a row has released what it created.
NothingElseRaises ==
    \A r \in Requests :
        /\ result[r] = Exception =>
             /\ req[r].tools # "released"
             /\ req[r].state \in {"PENDING", "TOOL_CALLING", "INTERACTING"} \/ req[r].tools = "created"
        /\ Genuine(r) => req[r].tools # "created"

\* The limits on turns, of which one ends the loop and the other only keeps a user from answering.
TurnsBounded ==
    \A r \in Requests :
        req[r].turns <= MaxAssistantTurns /\ req[r].userTurns <= MaxUserTurns

\* A batch returns, or raises, though some of its requests hang.
BatchReturns == <>(driver \in {"returned", "raised"})
==============================================================================
