----------------------------- MODULE AlignChunks -----------------------------
(***************************************************************************)
(* How TeacherClient (verl/workers/reward_manager/opd.py) turns the log-   *)
(* probabilities of the teacher's tokens into supervision of the student's *)
(* when the two tokenizers differ: _align_chunks walks over the offsets at *)
(* which both decoded prefixes end, the caller drops the tail of a clipped *)
(* response and fills the row that the loss reads.                         *)
(*                                                                         *)
(* A decoded response is its text and, for every number of tokens, where   *)
(* the prefix of that many tokens ends in it: `at`.  A prefix that ends in *)
(* a replacement character, or is no prefix of the text, is Unstable, and  *)
(* clean-up can make `at` non-monotonic.  A student token is supervised by *)
(* a chunk (its number) or by nothing (Inf); the chunk's log-probability   *)
(* is the sum over its teacher tokens shared among its student tokens.     *)
(***************************************************************************)
EXTENDS Integers, FiniteSets, Sequences

CONSTANTS
    Chars,          \* characters
    MaxChars,       \* bound: length of a decoded response
    MaxTokens,      \* bound: tokens of a response
    LargeChunk,     \* large_chunk_threshold
    ClipAfter,      \* OPD_CLIPPED_TAIL_SKIP_AFTER_TOKENS
    SuperviseEos    \* OPD_SUPERVISE_EOS

ASSUME BoundsAssumption ==
    /\ MaxChars \in Nat /\ MaxTokens \in Nat
    /\ LargeChunk \in Nat /\ ClipAfter \in Nat /\ SuperviseEos \in BOOLEAN

VARIABLES
    student, teacher,   \* the decoded responses
    specials,           \* terminal tokens after the student's response
    clipped,            \* the response filled its budget: is_clipped_without_terminal
    phase,
    todo,               \* shared_offsets not yet visited
    s_ptr, t_ptr,       \* tokens consumed
    text_ptr,           \* offset of the last chunk's end
    chunks,             \* the matched chunks, in order
    aligned,            \* per student token: its chunk, or Inf
    truncated,          \* teacher_truncated
    trainable_tokens, trainable_chunks, trainable_teacher, fallback,   \* alignment_stats
    row                 \* what the loss reads for response and terminal tokens

inputs == <<student, teacher, specials, clipped>>
walkVars == <<todo, s_ptr, t_ptr, text_ptr, chunks>>
vars == <<student, teacher, specials, clipped, phase, todo, s_ptr, t_ptr, text_ptr,
          chunks, aligned, truncated, trainable_tokens, trainable_chunks, trainable_teacher, fallback, row>>

Inf == 0
Eos == -2           \* OPD_EOS_CHUNK_ID
Unstable == -1

Texts == UNION {[1..k -> Chars] : k \in 0..MaxChars}

Decodings ==
    UNION {UNION {{[text |-> t, at |-> f] :
                    f \in {g \in [0..n -> -1..Len(t)] : g[0] = 0 /\ g[n] = Len(t)}}
                  : n \in 0..MaxTokens} : t \in Texts}

Tokens(r) == CHOOSE n \in 0..MaxTokens : DOMAIN r.at = 0..n
NS == Tokens(student)
NT == Tokens(teacher)

-----------------------------------------------------------------------------
(* prefix_boundaries: from an offset to the most tokens that end there.     *)

Offsets(r) == {r.at[e] : e \in DOMAIN r.at} \ {Unstable}

Boundary(r, offset) ==
    CHOOSE e \in DOMAIN r.at :
        r.at[e] = offset /\ \A f \in DOMAIN r.at : r.at[f] = offset => f <= e

SamePrefix(offset) ==
    \A k \in 1..offset : student.text[k] = teacher.text[k]

SharedOffsets ==
    {o \in Offsets(student) \cap Offsets(teacher) : o > 0 /\ SamePrefix(o)}

Truncates ==
    Len(teacher.text) < Len(student.text) /\ SamePrefix(Len(teacher.text))

Init ==
    /\ student \in Decodings /\ teacher \in Decodings
    /\ clipped \in BOOLEAN /\ specials \in (IF clipped THEN {0} ELSE 0..2)
    /\ phase = "start"
    /\ todo = {} /\ s_ptr = 0 /\ t_ptr = 0 /\ text_ptr = 0 /\ chunks = <<>>
    /\ aligned = [i \in 1..NS |-> Inf] /\ truncated = FALSE
    /\ trainable_tokens = 0 /\ trainable_chunks = 0 /\ trainable_teacher = 0 /\ fallback = 0
    /\ row = <<>>

\* An empty response returns at once; an empty teacher has run out.
Start ==
    /\ phase = "start"
    /\ \/ /\ NS = 0 \/ NT = 0
          /\ phase' = "clip"
          /\ truncated' = (NS > 0)
          /\ fallback' = NS
          /\ UNCHANGED walkVars
       \/ /\ NS > 0 /\ NT > 0
          /\ phase' = "walk"
          /\ todo' = SharedOffsets
          /\ s_ptr' = Boundary(student, 0) /\ t_ptr' = Boundary(teacher, 0)
          /\ UNCHANGED <<text_ptr, chunks, truncated, fallback>>
    /\ UNCHANGED <<inputs, aligned, trainable_tokens, trainable_chunks, trainable_teacher, row>>

NextOffset == CHOOSE o \in todo : \A p \in todo : o <= p

\* Mutant: the student's side alone must advance.
MatchStudentOnly ==
    /\ phase = "walk" /\ todo # {}
    /\ LET s_end == Boundary(student, NextOffset)
           t_end == Boundary(teacher, NextOffset)
           small == s_end - s_ptr <= LargeChunk /\ t_end - t_ptr <= LargeChunk
       IN  /\ s_end > s_ptr
           /\ chunks' = Append(chunks, [s |-> <<s_ptr, s_end>>, t |-> <<t_ptr, t_end>>,
                                        text |-> <<text_ptr, NextOffset>>])
           /\ s_ptr' = s_end /\ t_ptr' = t_end
           /\ text_ptr' = NextOffset
           /\ IF small
              THEN /\ aligned' = [i \in 1..NS |-> IF i \in s_ptr + 1..s_end
                                                  THEN Len(chunks) + 1 ELSE aligned[i]]
                   /\ trainable_tokens' = trainable_tokens + (s_end - s_ptr)
                   /\ trainable_chunks' = trainable_chunks + 1
                   /\ trainable_teacher' = trainable_teacher + (t_end - t_ptr)
              ELSE UNCHANGED <<aligned, trainable_tokens, trainable_chunks, trainable_teacher>>
    /\ todo' = todo \ {NextOffset}
    /\ UNCHANGED <<inputs, phase, truncated, fallback, row>>

\* Both sides have advanced: one more chunk.  A large one is not trained on.
Match ==
    /\ phase = "walk" /\ todo # {}
    /\ LET s_end == Boundary(student, NextOffset)
           t_end == Boundary(teacher, NextOffset)
           small == s_end - s_ptr <= LargeChunk /\ t_end - t_ptr <= LargeChunk
       IN  /\ s_end > s_ptr /\ t_end > t_ptr
           /\ chunks' = Append(chunks, [s |-> <<s_ptr, s_end>>, t |-> <<t_ptr, t_end>>,
                                        text |-> <<text_ptr, NextOffset>>])
           /\ s_ptr' = s_end /\ t_ptr' = t_end
           /\ text_ptr' = NextOffset
           /\ IF small
              THEN /\ aligned' = [i \in 1..NS |-> IF i \in s_ptr + 1..s_end
                                                  THEN Len(chunks) + 1 ELSE aligned[i]]
                   /\ trainable_tokens' = trainable_tokens + (s_end - s_ptr)
                   /\ trainable_chunks' = trainable_chunks + 1
                   /\ trainable_teacher' = trainable_teacher + (t_end - t_ptr)
              ELSE UNCHANGED <<aligned, trainable_tokens, trainable_chunks, trainable_teacher>>
    /\ todo' = todo \ {NextOffset}
    /\ UNCHANGED <<inputs, phase, truncated, fallback, row>>

\* A boundary on which either side does not advance is passed over.
Skip ==
    /\ phase = "walk" /\ todo # {}
    /\ \/ Boundary(student, NextOffset) <= s_ptr
       \/ Boundary(teacher, NextOffset) <= t_ptr
    /\ todo' = todo \ {NextOffset}
    /\ UNCHANGED <<inputs, phase, s_ptr, t_ptr, text_ptr, chunks, aligned, truncated,
                   trainable_tokens, trainable_chunks, trainable_teacher, fallback, row>>

EndWalk ==
    /\ phase = "walk" /\ todo = {}
    /\ phase' = "clip"
    /\ fallback' = NS - s_ptr
    /\ truncated' = Truncates
    /\ UNCHANGED <<inputs, walkVars, aligned, trainable_tokens, trainable_chunks, trainable_teacher, row>>

\* Tokens before the tail; it begins at the start of the chunk it cuts.
TailStart ==
    IF aligned[ClipAfter + 1] = Inf THEN ClipAfter
    ELSE chunks[aligned[ClipAfter + 1]].s[1]

\* Mutant: every token of the tail is counted as clipped.
ClipCountsTail ==
    /\ phase = "clip"
    /\ phase' = "fill"
    /\ IF clipped /\ ClipAfter > 0 /\ ClipAfter < NS
       THEN /\ aligned' = [i \in 1..NS |-> IF i > TailStart THEN Inf ELSE aligned[i]]
            /\ trainable_tokens' = trainable_tokens
                 - (NS - TailStart)
            /\ trainable_chunks' = Cardinality({aligned'[i] : i \in 1..NS} \ {Inf})
       ELSE UNCHANGED <<aligned, trainable_tokens, trainable_chunks>>
    /\ UNCHANGED <<inputs, walkVars, truncated, trainable_teacher, fallback, row>>

\* A response that filled its budget loses its tail; the statistics follow.
Clip ==
    /\ phase = "clip"
    /\ phase' = "fill"
    /\ IF clipped /\ ClipAfter > 0 /\ ClipAfter < NS
       THEN /\ aligned' = [i \in 1..NS |-> IF i > TailStart THEN Inf ELSE aligned[i]]
            /\ trainable_tokens' = trainable_tokens
                 - Cardinality({i \in TailStart + 1..NS : aligned[i] # Inf})
            /\ trainable_chunks' = Cardinality({aligned'[i] : i \in 1..NS} \ {Inf})
       ELSE UNCHANGED <<aligned, trainable_tokens, trainable_chunks>>
    /\ UNCHANGED <<inputs, walkVars, truncated, trainable_teacher, fallback, row>>

\* The row of the padded tensors: a truncated teacher supervises nothing; the
\* first terminal token takes the teacher's own end of sequence, unless the
\* OPD_EOS_* thresholds on its log-probability leave it out.
Fill ==
    /\ phase = "fill"
    /\ phase' = "done"
    /\ IF truncated
       THEN /\ row' = [i \in 1..NS + specials |-> Inf]
            /\ trainable_tokens' = 0 /\ trainable_chunks' = 0 /\ trainable_teacher' = 0
       ELSE /\ \E first \in (IF SuperviseEos THEN {Eos, Inf} ELSE {Inf}) :
                 row' = [i \in 1..NS + specials |->
                           IF i <= NS THEN aligned[i]
                           ELSE IF i = NS + 1 THEN first ELSE Inf]
            /\ UNCHANGED <<trainable_tokens, trainable_chunks, trainable_teacher>>
    /\ UNCHANGED <<inputs, walkVars, aligned, truncated, fallback>>

Next == Start \/ Match \/ Skip \/ EndWalk \/ Clip \/ Fill

Spec == Init /\ [][Next]_vars

-----------------------------------------------------------------------------
(* Properties.                                                             *)

\* Every pointer stays within its response and every count within the tokens
\* it counts: the code's max(0, _) around the clipped count never acts.
TypeOK ==
    /\ student.at \in [0..NS -> -1..Len(student.text)]
    /\ teacher.at \in [0..NT -> -1..Len(teacher.text)]
    /\ clipped \in BOOLEAN /\ specials \in 0..2
    /\ phase \in {"start", "walk", "clip", "fill", "done"}
    /\ todo \subseteq 1..MaxChars /\ text_ptr \in 0..MaxChars
    /\ s_ptr \in 0..NS /\ t_ptr \in 0..NT
    /\ Len(chunks) <= NS /\ aligned \in [1..NS -> 0..Len(chunks)]
    /\ truncated \in BOOLEAN
    /\ {trainable_tokens, trainable_chunks, fallback} \subseteq 0..NS
    /\ trainable_teacher \in 0..NT
    /\ row # <<>> => row \in [1..NS + specials -> 0..Len(chunks) \cup {Eos}]

\* The chunks tile what was consumed on both sides, without gap or overlap,
\* from the tokens before the first character on: no log-probability is
\* counted twice and none between two chunks is lost.
ChunksTile ==
    phase # "start" /\ NS > 0 /\ NT > 0 =>
        LET last == Len(chunks)
        IN  /\ \A k \in 1..last :
                 /\ chunks[k].s[1] < chunks[k].s[2] /\ chunks[k].t[1] < chunks[k].t[2]
                 /\ chunks[k].s[1] = (IF k = 1 THEN Boundary(student, 0)
                                               ELSE chunks[k - 1].s[2])
                 /\ chunks[k].t[1] = (IF k = 1 THEN Boundary(teacher, 0)
                                               ELSE chunks[k - 1].t[2])
            /\ last > 0 => chunks[last].s[2] = s_ptr /\ chunks[last].t[2] = t_ptr

\* A chunk's student tokens and teacher tokens spell the same text, the text
\* between two offsets, on both sides.
ChunksAgree ==
    \A k \in DOMAIN chunks :
        LET c == chunks[k] IN
        /\ student.at[c.s[2]] = c.text[2] /\ teacher.at[c.t[2]] = c.text[2]
        /\ k > 1 => student.at[c.s[1]] = c.text[1] /\ teacher.at[c.t[1]] = c.text[1]
        /\ \A j \in c.text[1] + 1..c.text[2] : student.text[j] = teacher.text[j]

\* "If the full responses are equal, their final boundary is guaranteed to
\* resync after any missing local boundary": nothing of either is left over.
EqualTextsResync ==
    phase \in {"clip", "fill", "done"} /\ NT > 0 /\ student.text = teacher.text
        => fallback = 0 /\ (NS > 0 => t_ptr = NT)

\* A chunk supervises all of its student tokens or none of them, also after
\* the tail was clipped: its log-probability was shared among all.
WholeChunks ==
    phase = "done" =>
        \A i \in 1..NS : row[i] # Inf =>
            {j \in 1..NS : row[j] = row[i]} = chunks[row[i]].s[1] + 1..chunks[row[i]].s[2]

\* The statistics that are reported, after clipping and skipping, are those of
\* the row the loss reads.
StatsMatchRow ==
    phase = "done" =>
        /\ trainable_tokens = Cardinality({i \in 1..NS : row[i] # Inf})
        /\ trainable_chunks = Cardinality({row[i] : i \in 1..NS} \ {Inf})

Monotone(r) ==
    \A e, f \in DOMAIN r.at :
        e < f /\ r.at[e] # Unstable /\ r.at[f] # Unstable => r.at[e] <= r.at[f]

\* Between tokenizers whose prefixes only grow, every boundary the two share
\* ends a chunk: the walk finds the finest alignment there is.
FinestAlignment ==
    phase = "done" /\ NS > 0 /\ NT > 0 /\ Monotone(student) /\ Monotone(teacher)
        => {chunks[k].text[2] : k \in DOMAIN chunks} = SharedOffsets

\* A response whose teacher ran out of tokens is not trained on at all, its
\* end of sequence included.
TruncatedIsSkipped ==
    phase = "done" /\ NS > 0 /\ (NT = 0 \/ Truncates)
        => \A i \in DOMAIN row : row[i] = Inf

\* The alignment is exact: its chunks tile both responses and spell the same
\* text on both sides; and nothing that could be aligned is lost: every shared
\* boundary is used and equal texts are covered to their end.
AlignmentIsExact ==
    /\ ChunksTile /\ ChunksAgree
    /\ FinestAlignment /\ EqualTextsResync

\* The row the loss reads holds whole chunks, in range, and the statistics
\* reported with it are its own, after clipping and skipping; a response whose
\* teacher was cut short is not in it at all.
RowIsSound == TypeOK /\ WholeChunks /\ StatsMatchRow /\ TruncatedIsSkipped
=============================================================================
