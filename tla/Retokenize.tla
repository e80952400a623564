----------------------------- MODULE Retokenize -----------------------------
(***************************************************************************)
(* How TeacherClient (verl/workers/reward_manager/opd.py) puts a student's *)
(* sequence to a teacher with another tokenizer, and which of the teacher's *)
(* log-probabilities belong to the response: retokenize_batch rewrites the *)
(* decoded text for the teacher and encodes it; when the teacher has       *)
(* answered, get_teacher_knowledge finds where the response begins and     *)
(* ends on both sides, cuts out its log-probabilities and that of its end. *)
(*                                                                         *)
(* A text is a sequence of symbols: the markers of chat templates, "\n",   *)
(* roles and words.  A token is the text it stands for: one symbol, or two *)
(* that a tokenizer merges.  A log-probability is the position and the     *)
(* token it is of.  Markers are abbreviated:                               *)
(*   bot sh eh eot end   LLaMA's begin_of_text, start_header_id,           *)
(*                       end_header_id, eot_id, end_of_text                *)
(*   ims ime eod         Qwen's im_start, im_end, and endoftext            *)
(*   bos User Assistant eos   DeepSeek's                                   *)
(*   |system| |user| |assistant|   OLMo's, which are plain text            *)
(***************************************************************************)
EXTENDS Integers, FiniteSets, Sequences, SequencesExt

CONSTANTS
    Modes,      \* chat templates, R1_ZERO_MODE, OPD_PROMPT_BRIDGE_MODE, one tokenizer
    Cuts        \* bound: tokens above the teacher's limit

RetokenizeAssumption ==
    /\ Modes \subseteq {"chat", "raw", "alpaca", "r1", "same"}
    /\ Cuts \subseteq Nat /\ 0 \in Cuts

VARIABLES
    sample,         \* mode, tokenizers, conversation, response and terminal of a sequence
    step,
    teacher_text,
    input_ids,      \* new_input_id: what the teacher is asked about
    cut,            \* how many tokens of the text were cut off
    teacher_ids,    \* responses[i]: what was asked and one generated token
    topk_indices,   \* per row: the tokens of its columns
    student_span, teacher_span,     \* the response: tokens after the first, up to the second
    leading,        \* teacher_leading_text_to_strip, or the space to be ignored
    resp_logps,     \* teacher_resp_logps
    eos_logp,       \* what the first terminal token is given
    row             \* same tokenizer: what each token is given

asked == <<sample, teacher_text, input_ids, cut>>
answered == <<teacher_ids, topk_indices>>
vars == <<sample, step, teacher_text, input_ids, cut, teacher_ids, topk_indices,
          student_span, teacher_span, leading, resp_logps, eos_logp, row>>

NL == "\n"
None == "none"
Unfilled == [at |-> 0, of |-> <<"zero">>]
Inf == [at |-> 0, of |-> <<"inf">>]

-----------------------------------------------------------------------------
(* Tokenizers, and what is known of them.                                  *)

Tokenizer(maker, bos, eos, markers, model_type) ==
    [maker |-> maker, bos |-> bos, eos |-> eos, chat_template |-> markers,
     model_type |-> model_type]

Llama == Tokenizer("llama", "bot", "eot", {"sh", "eh", "eot"}, "llama")
LlamaBase == Tokenizer("llama", "bot", "end", {"sh", "eh", "eot"}, "llama")
Qwen == Tokenizer("qwen", None, "ime", {"ims", "ime"}, "qwen2")
QwenBase == Tokenizer("qwen", None, "eod", {"ims", "ime"}, "qwen2")
DeepSeek == Tokenizer("deepseek", "bos", "eos", {"bos", "Assistant"}, "qwen2")
Olmo == Tokenizer("olmo", "eod", "eod", {"|user|", "|assistant|"}, "olmo2")
OlmoBase == Tokenizer("olmo", "eod", "eod", {}, "olmo2")

FamilyFromModelType(model_type) ==
    CASE model_type = "llama" -> "llama"
      [] model_type \in {"olmo", "olmo2"} -> "olmo"
      [] model_type \in {"qwen", "qwen2"} -> "qwen"
      [] model_type = "deepseek" -> "deepseek"
      [] OTHER -> "unknown"

\* _detect_model_family: its end token, then its template, then its configuration.
DetectModelFamily(t) ==
    IF t.eos = "eot" THEN "llama"
    ELSE IF t.eos = "ime" THEN "qwen"
    ELSE IF t.eos = "eos" THEN "deepseek"
    ELSE IF {"|user|", "|assistant|"} \subseteq t.chat_template THEN "olmo"
    ELSE IF {"sh", "eot"} \cap t.chat_template # {} THEN "llama"
    ELSE IF "ims" \in t.chat_template THEN "qwen"
    ELSE IF {"bos", "Assistant"} \cap t.chat_template # {} THEN "deepseek"
    ELSE FamilyFromModelType(t.model_type)

\* The tokens that are taken off the end of a response.
SpecialEnds(t, family) ==
    {<<t.eos>>} \cup
    CASE family = "llama" -> {<<"eot">>}
      [] family = "qwen" -> {<<"ime">>, <<"eod">>}
      [] OTHER -> {}

\* A tokenizer reads from the left and merges two symbols where it can.
Encode(merges, text) ==
    LET tokens[k \in 0..Len(text)] ==
            IF k = 0 THEN <<>>
            ELSE LET before == tokens[k - 1] IN
                 IF /\ before # <<>> /\ Len(Last(before)) = 1
                    /\ <<Last(before)[1], text[k]>> \in merges
                 THEN Append(Front(before), Append(Last(before), text[k]))
                 ELSE Append(before, <<text[k]>>)
    IN  tokens[Len(text)]

Decode(tokens) == FlattenSeq(tokens)

-----------------------------------------------------------------------------
(* Conversations, as the chat templates render them.                       *)

Message(family, m, ends) ==
    CASE family = "llama" -> <<"sh", m.role, "eh", NL, NL>> \o m.content \o <<"eot">>
      [] family = "qwen" -> <<"ims", m.role, NL>> \o m.content \o <<"ime", NL>>
      [] family = "deepseek" ->
            (CASE m.role = "system" -> <<>>
               [] m.role = "user" -> <<"User">>
               [] m.role = "assistant" -> <<"Assistant">>) \o m.content
            \o (IF m.role = "assistant" /\ ends THEN <<"eos">> ELSE <<>>)
      [] family = "olmo" ->
            <<[system |-> "|system|", user |-> "|user|", assistant |-> "|assistant|"][m.role], NL>>
            \o m.content \o (IF m.role = "assistant" /\ ends THEN <<"eod">> ELSE <<>>) \o <<NL>>

\* Up to where the answer begins; `ends`: earlier answers are closed.
Rendering(family, conversation, ends) ==
    LET opening == [llama |-> <<"bot">>, qwen |-> <<>>, deepseek |-> <<"bos">>,
                    olmo |-> <<"eod">>]
        answer == [llama |-> <<"sh", "assistant", "eh", NL, NL>>,
                   qwen |-> <<"ims", "assistant", NL>>, deepseek |-> <<"Assistant">>,
                   olmo |-> <<"|assistant|", NL>>]
    IN  FoldLeft(LAMBDA text, m : text \o Message(family, m, ends), opening[family],
                 conversation) \o answer[family]

Says(role, word) == [role |-> role, content |-> <<word>>]
Conversations ==
    {<<Says("user", "q")>>, <<Says("system", "s"), Says("user", "q")>>,
     <<Says("system", "s"), Says("user", "p"), Says("assistant", "r"), Says("user", "q")>>}

-----------------------------------------------------------------------------
(* From the student's text to the teacher's.                               *)

\* str.replace: from the left, without overlaps; `open` may still begin one.
Replace(text, old, new) ==
    LET seen[k \in 0..Len(text)] ==
            IF k = 0 THEN [done |-> <<>>, open |-> <<>>]
            ELSE LET before == seen[k - 1]
                     open == Append(before.open, text[k])
                     rest == Len(open) - Len(old)
                 IN  IF rest >= 0 /\ SubSeq(open, rest + 1, Len(open)) = old
                     THEN [done |-> before.done \o SubSeq(open, 1, rest) \o new, open |-> <<>>]
                     ELSE [before EXCEPT !.open = open]
    IN  seen[Len(text)].done \o seen[Len(text)].open

\* str.rfind, counted from 1; 0 when there is none.
RFind(text, pattern) ==
    LET found == {k \in 1..Len(text) - Len(pattern) + 1 :
                    SubSeq(text, k, k + Len(pattern) - 1) = pattern}
    IN  IF found = {} THEN 0 ELSE Max(found)

RStrip(text, symbol) ==
    LET others == {k \in DOMAIN text : text[k] # symbol}
    IN  SubSeq(text, 1, IF others = {} THEN 0 ELSE Max(others))

Header(role) == <<"sh", role, "eh", NL, NL>>

\* _build_chat_template_mapping: what to replace, in order.
TemplateMapping(student, teacher) ==
    CASE student = "llama" /\ teacher = "qwen" ->
         << << <<"bot", "sh">>, <<"ims">> >>, << <<"sh">>, <<"ims">> >>,
            << <<"eh", NL, NL>>, <<NL>> >>, << <<"eot">>, <<"ime", NL>> >>,
            << <<"bot">>, <<>> >>, << <<"end">>, <<"ime", NL>> >> >>
      [] student = "llama" /\ teacher = "deepseek" ->
         << << <<"bot">> \o Header("system"), <<"bos">> >>,
            << <<"bot">> \o Header("user"), <<"bos", "User">> >>,
            << <<"eot">> \o Header("user"), <<"User">> >>,
            << <<"eot">> \o Header("assistant"), <<"Assistant">> >>,
            << <<"eot">>, <<"eos">> >>, << <<"bot">>, <<"bos">> >>, << <<"end">>, <<"eos">> >> >>
      [] student = "llama" /\ teacher = "olmo" ->
         << << <<"bot">> \o Header("system"), <<"eod", "|system|", NL>> >>,
            << <<"bot">> \o Header("user"), <<"eod", "|user|", NL>> >>,
            << <<"eot">> \o Header("system"), <<NL, "|system|", NL>> >>,
            << <<"eot">> \o Header("user"), <<NL, "|user|", NL>> >>,
            << <<"eot">> \o Header("assistant"), <<NL, "|assistant|", NL>> >>,
            << <<"eot">>, <<"eod", NL>> >>, << <<"bot">>, <<"eod">> >>,
            << <<"end">>, <<"eod">> >> >>
      [] student = "qwen" /\ teacher = "deepseek" ->
         << << <<"ims", "system", NL>>, <<"bos">> >>,
            << <<"ime", NL, "ims", "user", NL>>, <<"User">> >>,
            << <<"ims", "user", NL>>, <<"bos", "User">> >>,
            << <<"ime", NL, "ims", "assistant", NL>>, <<"Assistant">> >>,
            << <<"ime", NL>>, <<"eos">> >>, << <<"ime">>, <<"eos">> >>,
            << <<"eod">>, <<"eos">> >> >>
      [] student = "qwen" /\ teacher = "llama" ->
         << << <<"ime", NL, "ims", "system", NL>>, <<"eot">> \o Header("system") >>,
            << <<"ime", NL, "ims", "user", NL>>, <<"eot">> \o Header("user") >>,
            << <<"ime", NL, "ims", "assistant", NL>>, <<"eot">> \o Header("assistant") >>,
            << <<"ims", "system", NL>>, <<"bot">> \o Header("system") >>,
            << <<"ims", "user", NL>>, <<"bot">> \o Header("user") >>,
            << <<"ims", "assistant", NL>>, <<"bot">> \o Header("assistant") >>,
            << <<"ime", NL>>, <<"eot">> >>, << <<"ime">>, <<"eot">> >>,
            << <<"eod">>, <<"end">> >> >>
      [] student = teacher -> <<>>

\* Rewritten for the teacher; the "\n" its end marker brings is taken off again.
FromChat(student, teacher, text) ==
    LET family == DetectModelFamily(student)
        rewritten == FoldLeft(LAMBDA s, rule : Replace(s, rule[1], rule[2]), text,
                              TemplateMapping(family, DetectModelFamily(teacher)))
    IN  IF family = "llama" /\ Last(text) \in {"eot", "end"}
        THEN RStrip(rewritten, NL) ELSE rewritten

\* _swap_bos_eos_for_teacher
SwapBosEos(student, teacher, text) ==
    LET begun == IF student.bos # None /\ text[1] = student.bos
                 THEN (IF teacher.bos = None THEN <<>> ELSE <<teacher.bos>>) \o Tail(text)
                 ELSE text
    IN  Replace(begun, <<student.eos>>, <<teacher.eos>>)

ResponseMarkers ==
    [alpaca |-> << <<NL, NL, "### Response:", NL>>, <<"### Response:", NL>> >>,
     r1 |-> << <<NL, "Assistant:", NL>>, <<NL, "Assistant:">> >>]
QuestionMarker == [alpaca |-> <<"### Instruction:", NL>>, r1 |-> <<NL, "User: ">>]

\* _split_alpaca_prompt, _split_r1_zero_llama_prompt: question and response.
Split(bridge, student, text) ==
    LET bare == IF text[1] = student.bos THEN Tail(text) ELSE text
        markers == ResponseMarkers[bridge]
        marker == IF RFind(bare, markers[1]) # 0 THEN markers[1] ELSE markers[2]
        at == RFind(bare, marker)
        prompt == SubSeq(bare, 1, at - 1)
        begins == RFind(prompt, QuestionMarker[bridge]) + Len(QuestionMarker[bridge])
    IN  [question |-> SubSeq(prompt, begins, Len(prompt)),
         response |-> SubSeq(bare, at + Len(marker), Len(bare))]

\* _normalize_bridge_question: how the answer is to be given is not the question.
Normalized(question) ==
    IF Last(question) = "hint" THEN RStrip(Front(question), " ") ELSE question

Think == <<"<", "think>">>

\* _build_bridge_teacher_prompt, with the default templates.
BridgePrompt(bridge, student, teacher, text) ==
    LET question == Split(bridge, student, text).question
    IN  (IF teacher.bos = None THEN <<>> ELSE <<teacher.bos>>) \o
        IF bridge = "alpaca"
        THEN <<"### Instruction:", NL, "task">> \o Normalized(question)
             \o <<NL, NL, "### Response:", NL>>
        ELSE <<"task", NL, "User: ">> \o question \o <<NL, "Assistant:", " ">> \o Think

\* _bridge_student_text_to_teacher: the teacher's prompt already opens the thought.
FromBridge(bridge, student, teacher, text) ==
    LET said == Split(bridge, student, text).response
        own == IF bridge = "r1" /\ IsPrefix(Think, said) THEN SubSeq(said, 3, Len(said)) ELSE said
        closed == own # <<>> /\ Last(own) = student.eos
    IN  BridgePrompt(bridge, student, teacher, text)
        \o IF closed THEN Append(Front(own), teacher.eos) ELSE own

-----------------------------------------------------------------------------
(* Sequences, and the steps of a call.                                     *)

Pairs == {<<"a", NL>>, <<NL, NL>>, <<NL, "a">>, <<"think>", "a">>, <<" ", "<">>}
Merges(mode) ==
    CASE mode \in {"chat", "alpaca"} -> {{}, {<<NL, NL>>, <<NL, "a">>}}
      [] mode \in {"raw", "r1"} -> SUBSET {<<"think>", "a">>, <<" ", "<">>}
      [] mode = "same" -> {{}}

Responses(mode) ==
    {<<>>, <<"a">>, <<"a", NL>>, <<NL, "a">>, <<NL, NL>>}
    \cup (IF mode = "r1" THEN {Think, Append(Think, "a")} ELSE {})

Bos(t) == {<<>>} \cup (IF t.bos = None THEN {} ELSE {<<t.bos>>})
Asks(mode) ==
    CASE mode = "raw" -> {<<"q", " ">> \o Think}
      [] mode = "alpaca" -> {<<"### Instruction:", NL>> \o q \o <<NL, NL, "### Response:", NL>> :
                               q \in {<<"q">>, <<"q", " ", "hint">>}}
      [] mode = "r1" -> {<<NL, "User: ", "q", NL, "Assistant:">>,
                         <<NL, "User: ", "q", NL, "Assistant:", NL>>}

\* Students and teachers that _build_chat_template_mapping accepts.
TemplatePairs ==
    {<<s, t>> \in {Llama, LlamaBase, Qwen, QwenBase, DeepSeek, Olmo}
                    \X {Llama, Qwen, DeepSeek, Olmo} :
        \/ s.maker = t.maker /\ s.maker # "llama"
        \/ <<s.maker, t.maker>> \in {<<"llama", "qwen">>, <<"llama", "deepseek">>,
                <<"llama", "olmo">>, <<"qwen", "deepseek">>, <<"qwen", "llama">>}}

Samples(mode) ==
    UNION {{[mode |-> mode, student |-> pair[1], teacher |-> pair[2],
             conversation |-> c, prompt |-> p, response |-> r, terminal |-> e,
             merges |-> m, student_merges |-> n] :
             p \in IF mode \in {"chat", "same"} THEN {Rendering(pair[1].maker, c, TRUE)}
                   ELSE {b \o q : b \in Bos(pair[1]), q \in Asks(mode)},
             r \in Responses(mode), m \in Merges(mode),
             n \in IF mode = "chat" THEN {Pairs} ELSE {{}, Pairs},
             e \in {<<>>} \cup (IF mode = "chat"
                                THEN SpecialEnds(pair[1], DetectModelFamily(pair[1]))
                                ELSE {<<pair[1].eos>>})} :
           pair \in CASE mode = "chat" -> TemplatePairs
                      [] mode = "same" -> {<<Qwen, Qwen>>}
                      [] OTHER -> {<<Llama, OlmoBase>>, <<QwenBase, LlamaBase>>},
           c \in IF mode = "chat" THEN Conversations ELSE {<<Says("user", "q")>>}}

student_ids == Encode(sample.student_merges, sample.prompt)
               \o Encode(sample.student_merges, sample.response)
               \o (IF sample.terminal = <<>> THEN <<>> ELSE <<sample.terminal>>)

Init ==
    /\ \E mode \in Modes : sample \in Samples(mode)
    /\ step = "start"
    /\ teacher_text = <<>> /\ input_ids = <<>> /\ cut = 0
    /\ teacher_ids = <<>> /\ topk_indices = <<>>
    /\ student_span = <<>> /\ teacher_span = <<>> /\ leading = <<>> /\ resp_logps = <<>>
    /\ eos_logp = Unfilled /\ row = <<>>

\* retokenize_batch, and the limit that bg_task applies to every request.
Retokenize ==
    /\ step = "start" /\ step' = "asked"
    /\ LET text == Decode(student_ids)
           rewritten ==
             CASE sample.mode = "same" -> text
               [] sample.mode \in {"alpaca", "r1"} ->
                    FromBridge(sample.mode, sample.student, sample.teacher, text)
               [] sample.mode = "raw" -> SwapBosEos(sample.student, sample.teacher, text)
               [] sample.mode = "chat" -> FromChat(sample.student, sample.teacher, text)
           ids == IF sample.mode = "same" THEN student_ids ELSE Encode(sample.merges, rewritten)
       IN  /\ teacher_text' = rewritten
           /\ cut' \in Cuts
           /\ input_ids' = SubSeq(ids, 1, Len(ids) - cut')
    /\ UNCHANGED <<sample, answered, student_span, teacher_span, leading, resp_logps, eos_logp,
                   row>>

\* The teacher generates a token and says of every token but the first how likely
\* it was, among others, in whatever column.
Answer ==
    /\ step = "asked" /\ step' = "answered"
    /\ \E last \in BOOLEAN :
         LET ids == Append(input_ids, IF last THEN <<"a">> ELSE <<sample.teacher.eos>>) IN
         /\ teacher_ids' = ids
         /\ topk_indices' = [j \in 1..Len(ids) - 1 |->
                IF last THEN << <<"other">>, ids[j + 1]>> ELSE <<ids[j + 1], <<"other">> >>]
    /\ UNCHANGED <<asked, student_span, teacher_span, leading, resp_logps, eos_logp, row>>

\* _select_actual_teacher_logps: of the columns, the one of the token itself.
SelectActualTeacherLogps ==
    [j \in DOMAIN topk_indices |->
        [at |-> j + 1,
         of |-> topk_indices[j][CHOOSE c \in DOMAIN topk_indices[j] :
                                    topk_indices[j][c] = teacher_ids[j + 1]]]]

\* One tokenizer: what predicts a token is put in its place; the generated one is left.
FillSame ==
    /\ step = "answered" /\ sample.mode = "same" /\ step' = "found"
    /\ LET logps == SelectActualTeacherLogps
           n_fill == Min({Len(logps) - 1, Len(student_ids) - 1})
       IN  row' = [p \in 1..Len(student_ids) |->
                     IF p \in 2..1 + n_fill THEN logps[p - 1] ELSE Unfilled]
    /\ UNCHANGED <<asked, answered, student_span, teacher_span, leading, resp_logps, eos_logp>>

ResponseMarker(family) ==
    [llama |-> <<"eh", NL, NL>>, qwen |-> <<"ims", "assistant", NL>>,
     deepseek |-> <<"Assistant">>, olmo |-> <<"|assistant|", NL>>][family]

\* How many tokens it takes to reach the end of the last marker; none if there is none.
Reaching(ids, marker) ==
    LET at == RFind(Decode(ids), marker)
    IN  IF at = 0 THEN {}
        ELSE {Min({k \in DOMAIN ids : Len(Decode(SubSeq(ids, 1, k))) >= at + Len(marker) - 1})}

\* A response without the special tokens at its end.
ResponseEnd(ids, start, ends) ==
    LET others == {k \in start + 1..Len(ids) : ids[k] \notin ends}
    IN  IF others = {} THEN start ELSE Max(others)

\* _bridge_teacher_response_start_tok: the thought the prompt opens is the student's own.
BridgeStart(prompt_ids, response) ==
    IF sample.mode = "alpaca" \/ ~IsPrefix(Think, response)
    THEN {[at |-> Len(prompt_ids), leading |-> <<>>]}
    ELSE LET suffix(width) ==
                 Decode(SubSeq(prompt_ids, Len(prompt_ids) - width + 1, Len(prompt_ids)))
             widths == {w \in 1..Min({Len(prompt_ids), 16}) :
                            suffix(w) \in {Think, <<" ">> \o Think}}
         IN  IF widths = {} THEN {}
             ELSE {[at |-> Len(prompt_ids) - Min(widths),
                    leading |-> IF suffix(Min(widths)) = Think THEN <<>> ELSE <<" ">>]}

\* Where the teacher's response may begin; none, and the row is left as it is.
TeacherStart(ids, response) ==
    CASE sample.mode = "chat" ->
            {[at |-> k, leading |-> <<>>] :
                k \in Reaching(ids, ResponseMarker(DetectModelFamily(sample.teacher)))}
      [] sample.mode = "raw" ->
            {[at |-> k, leading |-> <<>>] :
                k \in {Len(Encode(sample.merges,
                           SwapBosEos(sample.student, sample.teacher, sample.prompt)))}
                      \cap 0..Len(ids) - 1}
      [] sample.mode \in {"alpaca", "r1"} ->
            {s \in BridgeStart(Encode(sample.merges,
                       BridgePrompt(sample.mode, sample.student, sample.teacher, sample.prompt)),
                               response) : s.at < Len(ids)}

\* _recover_teacher_response_boundary: back to where the tokens spell the response.
RecoverBoundary(ids, start, end, response) ==
    LET upper == Min({start.at, end})
        found == {k \in Max({0, upper - 16})..upper :
                    IsSuffix(response, Decode(SubSeq(ids, k + 1, end)))}
    IN  IF response = <<>> \/ found = {} THEN start
        ELSE LET text == Decode(SubSeq(ids, Max(found) + 1, end))
             IN  [at |-> Max(found), leading |-> SubSeq(text, 1, Len(text) - Len(response))]

\* Mutant: the log-probability at a position taken for that of its token.
TeacherRespLogpsUnshifted(logps, start, end) == SubSeq(logps, start + 1, end)

\* A row of log-probabilities is of the token after it.
TeacherRespLogps(logps, start, end) == SubSeq(logps, start, end - 1)

\* A response that is not found: the row keeps its zeros.
LeaveRow ==
    /\ step' = "zeros"
    /\ UNCHANGED <<student_span, teacher_span, leading, resp_logps, eos_logp>>

\* get_teacher_knowledge, step A and the terminal tokens of step D.
FindResponse ==
    /\ step = "answered" /\ sample.mode # "same"
    /\ LET chat == sample.mode = "chat"
           ends(t) == SpecialEnds(t, IF chat THEN DetectModelFamily(t) ELSE "raw")
           s_starts == IF chat
                       THEN Reaching(student_ids,
                                     ResponseMarker(DetectModelFamily(sample.student)))
                       ELSE {Len(Encode(sample.student_merges, sample.prompt))}
       IN  IF s_starts = {} THEN LeaveRow
           ELSE LET s_start == CHOOSE k \in s_starts : TRUE
                    s_end == ResponseEnd(student_ids, s_start, ends(sample.student))
                    response == Decode(SubSeq(student_ids, s_start + 1, s_end))
                    ids == Front(teacher_ids)
                    t_starts == TeacherStart(ids, response)
                IN  IF t_starts = {}
                    THEN LeaveRow
                    ELSE LET located == CHOOSE s \in t_starts : TRUE
                             t_end == ResponseEnd(ids, located.at, ends(sample.teacher))
                             t_start == IF sample.mode = "raw"
                                        THEN RecoverBoundary(ids, located, t_end, response)
                                        ELSE located
                             logps == SelectActualTeacherLogps
                         IN  /\ step' = "found"
                             /\ student_span' = <<s_start, s_end>>
                             /\ teacher_span' = <<t_start.at, t_end>>
                             /\ leading' = t_start.leading
                             /\ resp_logps' = TeacherRespLogps(logps, t_start.at, t_end)
                             /\ eos_logp' = IF s_end = Len(student_ids) THEN Unfilled
                                            ELSE IF t_end <= Len(logps) THEN logps[t_end]
                                            ELSE Inf
    /\ UNCHANGED <<asked, answered, row>>

Next == Retokenize \/ Answer \/ FillSame \/ FindResponse

Spec == Init /\ [][Next]_vars

-----------------------------------------------------------------------------
(* Properties.                                                             *)

Ends == [llama |-> {"eot", "end"}, qwen |-> {"ime", "eod"}, deepseek |-> {"eos"},
         olmo |-> {"eod"}]

\* A prompt that ends in "Assistant:" takes a response's first newline for its own.
Swallowed ==
    /\ sample.mode = "r1" /\ Last(sample.prompt) = "Assistant:"
    /\ IsPrefix(<<NL>>, sample.response)

\* The teacher reads the student's conversation as its own template has it, closed
\* where the student closed it, or the bridge's prompt and the thought opened once.
\* (The rules for DeepSeek and OLMo leave earlier answers without their end.)
TeacherReadsTheSame ==
    step # "start" /\ sample.mode # "same" /\ ~Swallowed =>
        LET s == sample.student
            t == sample.teacher
            bos == IF t.bos = None THEN <<>> ELSE <<t.bos>>
            prompt ==
              CASE sample.mode = "chat" ->
                     Rendering(t.maker, sample.conversation,
                               s.maker = t.maker \/ t.maker \in {"llama", "qwen"})
                [] sample.mode = "raw" ->
                     IF sample.prompt[1] = "q" THEN sample.prompt ELSE bos \o Tail(sample.prompt)
                [] sample.mode = "alpaca" ->
                     bos \o <<"### Instruction:", NL, "task", "q", NL, NL, "### Response:", NL>>
                [] sample.mode = "r1" ->
                     bos \o <<"task", NL, "User: ", "q", NL, "Assistant:", " ">>
            said == IF sample.mode # "r1" \/ IsPrefix(Think, sample.response)
                    THEN sample.response ELSE Think \o sample.response
        IN  \E closing \in IF sample.terminal = <<>> THEN {<<>>}
                           ELSE {<<e>> : e \in Ends[t.maker]} :
                teacher_text = prompt \o said \o closing

\* Qwen's end of text becomes LLaMA's, which a LLaMA teacher that ends its turns
\* with eot_id does not take off.
ForeignEnd == sample.terminal = <<"eod">> /\ sample.teacher = Llama

\* No teacher token begins where the response does.
Fused ==
    LET begin == Len(teacher_text) - Len(sample.response)
                 - (IF sample.terminal = <<>> THEN 0 ELSE 1)
    IN  \A k \in DOMAIN input_ids : Len(Decode(SubSeq(input_ids, 1, k))) # begin

\* Of a text that fits the teacher, a response is found, and what is taken for it
\* on both sides spells the same: with R1_ZERO_MODE, and for a thought the prompt
\* opens, even where a token reaches over its beginning.
ResponsesSpellTheSame ==
    /\ step = "found" /\ sample.mode # "same" /\ cut = 0 /\ ~Swallowed /\ ~ForeignEnd =>
         \/ /\ sample.mode # "raw" /\ Fused
            /\ ~(sample.mode = "r1" /\ IsPrefix(Think, sample.response))
         \/ leading \o Decode(SubSeq(student_ids, student_span[1] + 1, student_span[2]))
              = Decode(SubSeq(teacher_ids, teacher_span[1] + 1, teacher_span[2]))
    /\ step = "zeros" /\ cut = 0 /\ ~Swallowed => Len(sample.response) < 2

\* Every token of the response is supervised by the log-probability of that token,
\* at its position; so is every token but the first under one tokenizer.
LogpsAreTheirs ==
    step = "found" =>
        IF sample.mode = "same"
        THEN \A p \in 2..Len(student_ids) :
                \/ row[p] = [at |-> p, of |-> student_ids[p]]
                \/ row[p] = Unfilled /\ p > Len(input_ids)
        ELSE resp_logps = [k \in 1..teacher_span[2] - teacher_span[1] |->
                            [at |-> teacher_span[1] + k, of |-> teacher_ids[teacher_span[1] + k]]]

IsAnEnd(logp) == \E e \in Ends[sample.teacher.maker] : logp.of = <<e>>

\* "teacher_eos_logp_index predicts the teacher terminal token": of a text that
\* fits the teacher, ended by a token the teacher's tokenizer takes off as well.
EosIsTheTeachers ==
    step = "found" /\ eos_logp # Unfilled /\ cut = 0 /\ ~ForeignEnd => IsAnEnd(eos_logp)
=============================================================================
