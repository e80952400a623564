---------------------------- MODULE ToolAgentLoop ----------------------------
(***************************************************************************)
(* One trajectory of ToolAgentLoop.run: the state machine over AgentData,  *)
(* its handlers, and the output built from the token lists they extend.    *)
(*                                                                         *)
(* A generated token is a word or half of a tool call; a log-probability   *)
(* is named by the token it belongs to.                                    *)
(***************************************************************************)
EXTENDS Integers, Sequences, FiniteSets, SequencesExt

CONSTANTS PromptLength,     \* limit of the tokens of the first prompt
          ResponseLength,   \* rollout.response_length
          MaxTurn,          \* bound: tokens the model generates in a turn
          MaxAssistantTurns, MaxUserTurns,  \* 0: no limit
          MaxParallel,      \* max_parallel_calls
          Answers,          \* possible lengths of a tool's or the user's answer
          Interactive,      \* is an interaction configured?
          WholeTurn         \* does the loop look at all of a turn, or at its last part?

ASSUME LoopAssumption ==
    /\ PromptLength \in Nat \ {0} /\ ResponseLength \in Nat \ {0} /\ MaxTurn \in Nat \ {0}
    /\ MaxAssistantTurns \in Nat /\ MaxUserTurns \in Nat /\ MaxParallel \in Nat \ {0}
    /\ Answers \subseteq Nat /\ Interactive \in BOOLEAN /\ WholeTurn \in BOOLEAN

VARIABLES state, prompt, mask, logps, calls, userTurns, assistantTurns,
          messages,   \* what the interaction is shown
          output      \* AgentLoopOutput, NoOutput until it is built

agent == <<state, prompt, mask, logps, calls, userTurns, assistantTurns, messages, output>>

State == {"PENDING", "GENERATING", "PROCESSING_TOOLS", "INTERACTING", "TERMINATED", "raised"}
Generated == {"word", "open", "close"}
NoOutput == [none |-> TRUE]
MaxModelLen == PromptLength + ResponseLength

Turns == UNION {[1..n -> Generated] : n \in 1..MaxTurn}
Repeat(x, n) == [i \in 1..n |-> x]

\* HermesToolParser: non-greedy matches; a match that is not well formed is only logged.
ToolCalls(turn) ==
    Cardinality({i \in 1..Len(turn) - 1 :
        /\ turn[i] = "open" /\ turn[i + 1] = "close"
        /\ \A j \in 1..i - 1 : turn[j] = "open" => \E k \in j + 1..i - 1 : turn[k] = "close"})

Init ==
    /\ state = "PENDING"
    /\ prompt = <<>> /\ mask = <<>> /\ logps = <<>>
    /\ calls = 0 /\ userTurns = 0 /\ assistantTurns = 0
    /\ messages = <<>> /\ output = NoOutput

-----------------------------------------------------------------------------
Pending ==
    /\ state = "PENDING"
    /\ \E n \in 1..PromptLength : prompt' = Repeat("prompt", n)
    /\ state' = "GENERATING"
    /\ UNCHANGED <<mask, logps, calls, userTurns, assistantTurns, messages, output>>

TurnsUsedUp ==
    \/ MaxAssistantTurns > 0 /\ assistantTurns' >= MaxAssistantTurns
    \/ MaxUserTurns > 0 /\ userTurns >= MaxUserTurns

\* The end of a turn whose lists are already extended by it, judged by what the parser is shown.
EndTurn(seen) ==
    /\ assistantTurns' = assistantTurns + 1
    /\ IF Len(mask') >= ResponseLength \/ TurnsUsedUp
         THEN /\ state' = "TERMINATED"
              /\ UNCHANGED <<calls, messages>>
         ELSE /\ calls' = ToolCalls(seen)
              /\ messages' = IF Interactive
                               THEN Append(messages, [role |-> "assistant", ids |-> seen])
                               ELSE messages
              /\ state' = CASE ToolCalls(seen) > 0 -> "PROCESSING_TOOLS"
                            [] ToolCalls(seen) = 0 /\ Interactive -> "INTERACTING"
                            [] OTHER -> "TERMINATED"
    /\ UNCHANGED <<userTurns, output>>

Extend(tokens) ==
    /\ prompt' = prompt \o tokens
    /\ mask' = mask \o Repeat(1, Len(tokens))
    /\ logps' = logps \o tokens

\* What the parser may be shown of a turn: all of it, or for the weaker promise any suffix.
Seen(turn) ==
    IF WholeTurn THEN {turn} ELSE {SubSeq(turn, i, Len(turn)) : i \in 1..Len(turn)}

Generating ==
    /\ state = "GENERATING" /\ Len(prompt) < MaxModelLen
    /\ \E turn \in Turns :
         /\ Len(prompt) + Len(turn) <= MaxModelLen
         /\ Extend(turn)
         /\ \E seen \in Seen(turn) : EndTurn(seen)

\* max_tokens is not positive: SamplingParams raises, and the batch is lost.
NoRoom ==
    /\ state = "GENERATING" /\ Len(prompt) >= MaxModelLen
    /\ state' = "raised"
    /\ UNCHANGED <<prompt, mask, logps, calls, userTurns, assistantTurns, messages, output>>

\* Tokens that were not generated: no gradient, a zero for each log-probability.
ExtendByAnswer(tokens) ==
    /\ prompt' = prompt \o tokens
    /\ mask' = mask \o Repeat(0, Len(tokens))
    /\ logps' = IF logps = <<>> THEN logps ELSE logps \o Repeat("zero", Len(tokens))

\* The parallel calls are gathered, a call that fails answers with its error. An answer that does
\* not fit ends the trajectory without it.
ProcessingTools ==
    /\ state = "PROCESSING_TOOLS"
    /\ LET made == IF calls < MaxParallel THEN calls ELSE MaxParallel IN
       \E n \in Answers :
         /\ messages' = messages \o Repeat([role |-> "tool", ids |-> <<>>], made)
         /\ IF Len(mask) + n >= ResponseLength
              THEN /\ state' = "TERMINATED"
                   /\ UNCHANGED <<prompt, mask, logps, userTurns>>
              ELSE /\ ExtendByAnswer(Repeat("tool", n))
                   /\ userTurns' = userTurns + 1
                   /\ state' = "GENERATING"
    /\ UNCHANGED <<calls, assistantTurns, output>>

Interacting ==
    /\ state = "INTERACTING"
    /\ userTurns' = userTurns + 1
    /\ messages' = Append(messages, [role |-> "user", ids |-> <<>>])
    /\ \E n \in Answers : ExtendByAnswer(Repeat("user", n))
    /\ state' \in {"TERMINATED", "GENERATING"}
    /\ UNCHANGED <<calls, assistantTurns, output>>

Cut(list) == SubSeq(list, 1, IF Len(list) < ResponseLength THEN Len(list) ELSE ResponseLength)

\* prompt_ids[-len(response_mask):]; with an empty mask that would be the whole prompt.
Response ==
    IF mask = <<>> THEN prompt ELSE SubSeq(prompt, Len(prompt) - Len(mask) + 1, Len(prompt))

Built(ids) ==
    [response |-> Cut(ids), mask |-> Cut(mask), logps |-> Cut(logps),
     turns |-> userTurns + assistantTurns + 1]

Finish ==
    /\ state = "TERMINATED" /\ output = NoOutput
    /\ output' = Built(Response)
    /\ UNCHANGED <<state, prompt, mask, logps, calls, userTurns, assistantTurns, messages>>

Next == Pending \/ Generating \/ NoRoom \/ ProcessingTools \/ Interacting \/ Finish

Spec == Init /\ [][Next]_agent /\ WF_agent(Next)

-----------------------------------------------------------------------------
TypeOK ==
    /\ state \in State
    /\ prompt \in Seq(Generated \cup {"prompt", "tool", "user"})
    /\ mask \in Seq({0, 1}) /\ logps \in Seq(Generated \cup {"zero"})
    /\ calls \in Nat /\ userTurns \in Nat /\ assistantTurns \in Nat
    /\ output # NoOutput => state = "TERMINATED"

\* The three lists every handler extends on its own stay in step: position i of the mask is 1 just
\* where the i-th response token was generated, and its log-probability is that token's.
ListsAligned ==
    LET before == Len(prompt) - Len(mask) IN
    /\ Len(logps) = Len(mask) /\ before \in 0..PromptLength
    /\ \A i \in 1..before : prompt[i] = "prompt"
    /\ \A i \in 1..Len(mask) :
         /\ mask[i] = 1 <=> prompt[before + i] \in Generated
         /\ logps[i] = IF mask[i] = 1 THEN prompt[before + i] ELSE "zero"

\* What is trained on: response, mask and log-probabilities of the output have one length, at most
\* response_length, and belong together position by position.
OutputTrainable ==
    output # NoOutput =>
        /\ Len(output.response) = Len(output.mask) /\ Len(output.logps) = Len(output.mask)
        /\ Len(output.mask) \in 1..ResponseLength
        /\ \A i \in 1..Len(output.mask) :
             output.logps[i] = IF output.mask[i] = 1 THEN output.response[i] ELSE "zero"

\* The limits on turns, checked in one handler and counted in three, hold, and the turns alternate,
\* so that num_turns is the number of messages after the prompt plus one.
TurnsBounded ==
    /\ MaxAssistantTurns > 0 => assistantTurns <= MaxAssistantTurns
    /\ MaxUserTurns > 0 => userTurns <= MaxUserTurns
    /\ assistantTurns - userTurns \in {0, 1}

\* A trajectory is only sent to the server with room for a token (tool_agent_loop.py: after an
\* answer "double check prompt"); without it the server raises for the whole batch.
RoomToGenerate == state = "GENERATING" => Len(prompt) < MaxModelLen
==============================================================================
