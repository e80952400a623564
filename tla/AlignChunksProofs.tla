-------------------------- MODULE AlignChunksProofs --------------------------
(***************************************************************************)
(* For responses and vocabularies of any size, and whatever decoding does  *)
(* to a prefix: the walk of _align_chunks finds chunks that tile and agree *)
(* on both sides, as many as there are, and the row the loss reads holds   *)
(* them whole.                                                             *)
(*                                                                         *)
(* The last sections are about other parts of the path from a prompt to a  *)
(* reward: the sandbox that scores code (SandboxScore), and the requests   *)
(* whose rows are scored (SglangRollout), for any number of them, any      *)
(* limits and whatever tools, users and cancellations do.                  *)
(***************************************************************************)
EXTENDS AlignChunks, SandboxScore, SglangRollout, FiniteSetTheorems, SequenceTheorems,
        WellFoundedInduction, TLAPS

-----------------------------------------------------------------------------
(* The inductive invariant.                                                *)

Chunk == [s : Nat \X Nat, t : Nat \X Nat, text : Nat \X Nat]

\* Both responses have tokens: there is a walk at all.
Both == NS > 0 /\ NT > 0

InputsType ==
    /\ student \in Decodings /\ teacher \in Decodings
    /\ clipped \in BOOLEAN /\ specials \in 0..2
    /\ phase \in {"start", "walk", "clip", "fill", "done"}
    /\ phase = "walk" => Both

\* The walk stands at a shared offset, at its last token on both sides, and what
\* is still to be visited lies ahead.
WalkStands ==
    /\ todo \subseteq SharedOffsets
    /\ phase \in {"clip", "fill", "done"} => todo = {}
    /\ IF phase = "start" \/ ~Both
       THEN todo = {} /\ s_ptr = 0 /\ t_ptr = 0 /\ text_ptr = 0 /\ chunks = <<>>
       ELSE /\ text_ptr \in {0} \cup SharedOffsets
            /\ s_ptr = Boundary(student, text_ptr) /\ t_ptr = Boundary(teacher, text_ptr)
            /\ \A o \in todo : o > text_ptr

\* Each chunk begins where the one before it ended, and ends on both sides at the
\* last tokens of one shared offset.
Link(k) ==
    LET c == chunks[k] IN
    /\ c.s[1] < c.s[2] /\ c.t[1] < c.t[2] /\ c.s[2] <= s_ptr
    /\ c.text[2] \in SharedOffsets
    /\ c.s[2] = Boundary(student, c.text[2]) /\ c.t[2] = Boundary(teacher, c.text[2])
    /\ k = 1 => c.s[1] = Boundary(student, 0) /\ c.t[1] = Boundary(teacher, 0)
    /\ k > 1 => /\ c.s[1] = chunks[k - 1].s[2] /\ c.t[1] = chunks[k - 1].t[2]
                /\ c.text[1] = chunks[k - 1].text[2]

ChunksLink ==
    /\ chunks \in Seq(Chunk)
    /\ \A k \in 1..Len(chunks) : Link(k)
    /\ IF Len(chunks) = 0 THEN text_ptr = 0 ELSE chunks[Len(chunks)].text[2] = text_ptr

\* No shared offset is lost that a monotone decoding or the end of equal texts needs.
NothingIsLost ==
    phase # "start" /\ Both =>
        /\ student.text = teacher.text /\ Len(student.text) > 0
              => Len(student.text) \in todo \/ text_ptr = Len(student.text)
        /\ Monotone(student) /\ Monotone(teacher)
              => {chunks[k].text[2] : k \in DOMAIN chunks} \cup todo = SharedOffsets

\* What the walk leaves over, and whether the teacher ran out.
EndIsRight ==
    IF phase \in {"start", "walk"} THEN fallback = 0 /\ truncated = FALSE
    ELSE fallback = NS - s_ptr /\ truncated = (NS > 0 /\ (NT = 0 \/ Truncates))

Supervised == {i \in 1..NS : aligned[i] # Inf}
Used == {aligned[i] : i \in 1..NS} \ {Inf}

\* A chunk that supervises a token supervises exactly its own.
SupervisedWhole ==
    /\ aligned \in [1..NS -> 0..Len(chunks)] /\ Len(chunks) <= s_ptr
    /\ \A i \in 1..NS : aligned[i] # Inf =>
          \A j \in 1..NS :
             aligned[j] = aligned[i]
                <=> chunks[aligned[i]].s[1] < j /\ j <= chunks[aligned[i]].s[2]

Counted ==
    /\ trainable_tokens = Cardinality(Supervised)
    /\ trainable_chunks = Cardinality(Used)

RowIsFilled ==
    IF phase # "done" THEN row = <<>> /\ Counted
    ELSE IF truncated
         THEN /\ row = [i \in 1..NS + specials |-> Inf]
              /\ trainable_tokens = 0 /\ trainable_chunks = 0
         ELSE /\ row \in [1..NS + specials -> 0..Len(chunks) \cup {Eos}]
              /\ \A i \in 1..NS : row[i] = aligned[i]
              /\ Counted

IInv ==
    /\ InputsType /\ WalkStands /\ ChunksLink /\ NothingIsLost /\ EndIsRight
    /\ SupervisedWhole /\ trainable_teacher \in 0..t_ptr /\ RowIsFilled

-----------------------------------------------------------------------------
(* Extremes of sets of naturals, decodings and their boundaries.           *)

\* A nonempty set of naturals has a least element.
LEMMA Least ==
  ASSUME NEW S \in SUBSET Nat, S # {}
  PROVE  \E x \in S : \A y \in S : x <= y
<1> DEFINE R == {p \in Nat \X Nat : p[1] < p[2]}
<1>1. IsWellFoundedOn(R, Nat)
  BY NatLessThanWellFounded DEF OpToRel
<1> HIDE DEF R
<1>2. PICK x \in S : \A y \in S : <<y, x>> \notin R
  BY <1>1, WFMin
<1>3. ASSUME NEW y \in S PROVE x <= y
  <2>1. <<y, x>> \notin R /\ x \in Nat /\ y \in Nat
    BY <1>2
  <2>2. ~(y < x)
    BY <2>1 DEF R
  <2> QED BY <2>1, <2>2
<1> QED BY <1>3

\* A nonempty set of naturals up to n has a greatest element.
LEMMA Greatest ==
  ASSUME NEW n \in Nat, NEW S \in SUBSET (0..n), S # {}
  PROVE  \E x \in S : \A y \in S : y <= x
<1> DEFINE D == {n - x : x \in S}
<1>1. D \subseteq Nat /\ D # {}
  <2>1. \A x \in S : x \in 0..n
    OBVIOUS
  <2>2. \A x \in S : n - x \in Nat
    BY <2>1
  <2> QED BY <2>2
<1>2. PICK d \in D : \A e \in D : d <= e
  BY <1>1, Least
<1>3. PICK x \in S : d = n - x
  OBVIOUS
<1>4. ASSUME NEW y \in S PROVE y <= x
  <2>1. n - x <= n - y
    BY <1>2, <1>3
  <2>2. x \in 0..n /\ y \in 0..n
    OBVIOUS
  <2> QED BY <2>1, <2>2
<1> QED BY <1>4

\* A decoding has a text, a number of tokens, and prefixes that end within it.
LEMMA Decoded ==
  ASSUME NEW r \in Decodings
  PROVE  /\ Len(r.text) \in 0..MaxChars /\ Tokens(r) \in 0..MaxTokens
         /\ DOMAIN r.at = 0..Tokens(r) /\ r.at \in [0..Tokens(r) -> -1..Len(r.text)]
         /\ r.at[0] = 0 /\ r.at[Tokens(r)] = Len(r.text)
<1>1. PICK x \in Texts, n \in 0..MaxTokens :
         \E f \in {g \in [0..n -> -1..Len(x)] : g[0] = 0 /\ g[n] = Len(x)} :
            r = [text |-> x, at |-> f]
  BY DEF Decodings
<1>2. PICK f \in [0..n -> -1..Len(x)] :
         f[0] = 0 /\ f[n] = Len(x) /\ r = [text |-> x, at |-> f]
  BY <1>1
<1>3. PICK k \in 0..MaxChars : x \in [1..k -> Chars]
  BY DEF Texts
<1>4. k \in Nat /\ n \in Nat
  BY BoundsAssumption
<1>5. x \in Seq(Chars)
  BY <1>3, <1>4, SeqDef
<1>6. Len(x) = k
  <2>1. Len(x) \in Nat /\ 1..Len(x) = 1..k
    BY <1>3, <1>5, LenProperties
  <2> QED BY <1>4, <2>1
<1>7. r.text = x /\ r.at = f
  BY <1>2
<1>8. DOMAIN r.at = 0..n
  BY <1>2, <1>7
<1>9. Tokens(r) = n
  <2>1. \A m \in 0..MaxTokens : DOMAIN r.at = 0..m => m = n
    BY <1>4, <1>8, BoundsAssumption
  <2> QED BY <1>8, <2>1 DEF Tokens
<1> QED BY <1>2, <1>3, <1>6, <1>7, <1>8, <1>9

\* prefix_boundaries: of the tokens that end at an offset, the last.
LEMMA BoundaryIsLast ==
  ASSUME NEW r \in Decodings, NEW o, \E e \in DOMAIN r.at : r.at[e] = o
  PROVE  /\ Boundary(r, o) \in 0..Tokens(r) /\ r.at[Boundary(r, o)] = o
         /\ \A f \in 0..Tokens(r) : r.at[f] = o => f <= Boundary(r, o)
<1> DEFINE E == {e \in 0..Tokens(r) : r.at[e] = o}
<1>1. DOMAIN r.at = 0..Tokens(r) /\ Tokens(r) \in Nat
  BY Decoded, BoundsAssumption
<1>2. E \in SUBSET (0..Tokens(r)) /\ E # {}
  BY <1>1
<1>3. PICK e \in E : \A f \in E : f <= e
  <2> HIDE DEF E
  <2> QED BY <1>1, <1>2, Greatest
<1>4. \E b \in DOMAIN r.at :
         r.at[b] = o /\ \A f \in DOMAIN r.at : r.at[f] = o => f <= b
  BY <1>1, <1>3
<1> QED BY <1>1, <1>4 DEF Boundary

\* Offset 0 is a boundary of every decoding.
LEMMA FirstBoundary ==
  ASSUME NEW r \in Decodings
  PROVE  Boundary(r, 0) \in 0..Tokens(r) /\ r.at[Boundary(r, 0)] = 0
<1>1. r.at[0] = 0 /\ 0 \in DOMAIN r.at
  BY Decoded, BoundsAssumption
<1> QED BY <1>1, BoundaryIsLast

\* The end of the text is the boundary behind the last token.
LEMMA LastBoundary ==
  ASSUME NEW r \in Decodings
  PROVE  Boundary(r, Len(r.text)) = Tokens(r)
<1>1. r.at[Tokens(r)] = Len(r.text) /\ Tokens(r) \in DOMAIN r.at /\ Tokens(r) \in Nat
  BY Decoded, BoundsAssumption
<1>2. /\ Boundary(r, Len(r.text)) \in 0..Tokens(r)
      /\ Tokens(r) <= Boundary(r, Len(r.text))
  BY <1>1, BoundaryIsLast, Decoded
<1> QED BY <1>1, <1>2

\* A shared offset lies within both texts and is a boundary of both.
LEMMA SharedAre ==
  ASSUME InputsType, NEW o \in SharedOffsets
  PROVE  /\ o \in 1..MaxChars /\ o <= Len(student.text) /\ o <= Len(teacher.text)
         /\ Boundary(student, o) \in 0..NS /\ student.at[Boundary(student, o)] = o
         /\ Boundary(teacher, o) \in 0..NT /\ teacher.at[Boundary(teacher, o)] = o
         /\ \A k \in 1..o : student.text[k] = teacher.text[k]
<1>1. /\ \E e \in DOMAIN student.at : student.at[e] = o
      /\ \E e \in DOMAIN teacher.at : teacher.at[e] = o
      /\ o > 0 /\ SamePrefix(o)
  BY DEF SharedOffsets, Offsets
<1>2. /\ Boundary(student, o) \in 0..NS /\ student.at[Boundary(student, o)] = o
      /\ Boundary(teacher, o) \in 0..NT /\ teacher.at[Boundary(teacher, o)] = o
  BY <1>1, BoundaryIsLast DEF InputsType, NS, NT
<1>3. /\ student.at \in [0..NS -> -1..Len(student.text)]
      /\ teacher.at \in [0..NT -> -1..Len(teacher.text)]
      /\ Len(student.text) \in 0..MaxChars /\ Len(teacher.text) \in 0..MaxChars
  BY Decoded DEF InputsType, NS, NT
<1>4. o \in -1..Len(student.text) /\ o \in -1..Len(teacher.text)
  BY <1>2, <1>3
<1> QED BY <1>1, <1>2, <1>3, <1>4, BoundsAssumption DEF SamePrefix

\* The ends of the texts, where both have tokens.
LEMMA EqualTextsShareEnd ==
  ASSUME InputsType, student.text = teacher.text, Len(student.text) > 0
  PROVE  Len(student.text) \in SharedOffsets
<1>1. /\ student.at[NS] = Len(student.text) /\ NS \in DOMAIN student.at
      /\ teacher.at[NT] = Len(teacher.text) /\ NT \in DOMAIN teacher.at
      /\ Len(student.text) \in Nat
  BY Decoded, BoundsAssumption DEF InputsType, NS, NT
<1> QED BY <1>1 DEF SharedOffsets, Offsets, SamePrefix, Unstable

\* The numbers of a state of the invariant.
LEMMA Numbers ==
  ASSUME IInv
  PROVE  /\ NS \in Nat /\ NT \in Nat
         /\ s_ptr \in 0..NS /\ t_ptr \in 0..NT /\ text_ptr \in 0..MaxChars
         /\ todo \subseteq 1..MaxChars /\ Len(chunks) \in Nat
         /\ phase # "start" /\ Both
               => student.at[s_ptr] = text_ptr /\ teacher.at[t_ptr] = text_ptr
<1>1. NS \in Nat /\ NT \in Nat
  BY Decoded, BoundsAssumption DEF IInv, InputsType, NS, NT
<1>2. todo \subseteq 1..MaxChars
  BY SharedAre DEF IInv, WalkStands
<1>3. Len(chunks) \in Nat
  BY LenProperties DEF IInv, ChunksLink
<1>4. CASE phase = "start" \/ ~Both
  BY <1>1, <1>2, <1>3, <1>4, BoundsAssumption DEF IInv, WalkStands
<1>5. CASE phase # "start" /\ Both
  <2>1. CASE text_ptr = 0
    BY <1>1, <1>2, <1>3, <1>5, <2>1, FirstBoundary, BoundsAssumption
    DEF IInv, WalkStands, InputsType, NS, NT
  <2>2. CASE text_ptr \in SharedOffsets
    BY <1>1, <1>2, <1>3, <1>5, <2>2, SharedAre, BoundsAssumption DEF IInv, WalkStands
  <2> QED BY <1>5, <2>1, <2>2 DEF IInv, WalkStands
<1> QED BY <1>4, <1>5

\* The walk takes the smallest shared offset that is left.
LEMMA NextIsLeast ==
  ASSUME IInv, todo # {}
  PROVE  NextOffset \in todo /\ \A o \in todo : NextOffset <= o
<1>1. todo \subseteq Nat
  BY Numbers, BoundsAssumption
<1>2. \E o \in todo : \A p \in todo : o <= p
  BY <1>1, Least
<1> QED BY <1>2 DEF NextOffset

\* What no step changes.
LEMMA InputsKept ==
  ASSUME UNCHANGED inputs
  PROVE  /\ student' = student /\ teacher' = teacher /\ clipped' = clipped /\ specials' = specials
         /\ NS' = NS /\ NT' = NT /\ Both' = Both /\ SharedOffsets' = SharedOffsets
         /\ Truncates' = Truncates
BY DEF inputs, NS, NT, Both, SharedOffsets, SamePrefix, Truncates

-----------------------------------------------------------------------------
(* Each action keeps the invariant.                                        *)

\* No row has been aligned yet.
LEMMA InitIInv == Init => IInv
<1> SUFFICES ASSUME Init PROVE IInv
  OBVIOUS
<1> USE DEF Init
<1>1. InputsType
  BY DEF InputsType
<1>2. WalkStands /\ NothingIsLost /\ EndIsRight
  BY DEF WalkStands, NothingIsLost, EndIsRight
<1>3. Len(chunks) = 0 /\ chunks \in Seq(Chunk)
  OBVIOUS
<1>4. ChunksLink
  BY <1>3 DEF ChunksLink
<1>5. NS \in Nat
  BY Decoded, BoundsAssumption DEF NS
<1>6. SupervisedWhole
  BY <1>3, <1>5 DEF SupervisedWhole, Inf
<1>7. Supervised = {} /\ Used = {}
  BY DEF Supervised, Used
<1>8. RowIsFilled
  BY <1>7, FS_EmptySet DEF RowIsFilled, Counted
<1> QED BY <1>1, <1>2, <1>4, <1>6, <1>8 DEF IInv

\* Nothing that is counted, supervised or filled changes.
LEMMA SupervisionStands ==
  ASSUME IInv, UNCHANGED <<inputs, chunks, aligned, trainable_tokens, trainable_chunks>>
  PROVE  Supervised' = Supervised /\ Used' = Used /\ Counted' = Counted
BY InputsKept DEF Supervised, Used, Counted

\* Collecting the shared offsets keeps the invariant, and so does a row without any.
LEMMA StartKeeps == ASSUME IInv, Start PROVE IInv'
<1>1. /\ UNCHANGED <<inputs, aligned, trainable_tokens, trainable_chunks, trainable_teacher, row>>
      /\ phase = "start" /\ phase' \in {"clip", "walk"} /\ UNCHANGED <<text_ptr, chunks>>
  BY DEF Start, walkVars
<1>2. /\ todo = {} /\ s_ptr = 0 /\ t_ptr = 0 /\ text_ptr = 0 /\ chunks = <<>>
      /\ fallback = 0 /\ truncated = FALSE /\ Len(chunks) = 0
  BY <1>1 DEF IInv, WalkStands, EndIsRight
<1>3. /\ student' = student /\ teacher' = teacher /\ clipped' = clipped /\ specials' = specials
      /\ NS' = NS /\ NT' = NT /\ Both' = Both /\ SharedOffsets' = SharedOffsets
      /\ Truncates' = Truncates
  BY <1>1, InputsKept
<1>4. NS \in Nat /\ NT \in Nat
  BY Numbers
<1>5. aligned = [i \in 1..NS |-> 0]
  BY <1>2 DEF IInv, SupervisedWhole
<1>6. ASSUME ~Both, phase' = "clip", truncated' = (NS > 0), fallback' = NS, UNCHANGED walkVars
      PROVE  IInv'
  <2>1. InputsType'
    BY <1>1, <1>3, <1>6 DEF IInv, InputsType
  <2>2. WalkStands' /\ NothingIsLost'
    BY <1>2, <1>3, <1>6 DEF WalkStands, NothingIsLost, walkVars
  <2>3. ChunksLink'
    BY <1>2, <1>6 DEF IInv, ChunksLink, walkVars
  <2>4. EndIsRight'
    BY <1>2, <1>3, <1>4, <1>6 DEF EndIsRight, walkVars, Both
  <2>5. SupervisedWhole'
    BY <1>1, <1>2, <1>3, <1>4, <1>5, <1>6 DEF SupervisedWhole, walkVars, Inf
  <2>6. RowIsFilled'
    BY <1>1, <1>6, SupervisionStands DEF IInv, RowIsFilled
  <2>7. (trainable_teacher \in 0..t_ptr)'
    BY <1>1, <1>6 DEF IInv, walkVars
  <2> QED BY <2>1, <2>2, <2>3, <2>4, <2>5, <2>6, <2>7 DEF IInv
<1>7. ASSUME Both, phase' = "walk", todo' = SharedOffsets, UNCHANGED <<truncated, fallback>>,
             s_ptr' = Boundary(student, 0), t_ptr' = Boundary(teacher, 0)
      PROVE  IInv'
  <2>1. InputsType'
    BY <1>1, <1>3, <1>7 DEF IInv, InputsType
  <2>2. s_ptr' \in 0..NS /\ t_ptr' \in 0..NT
    BY <1>7, FirstBoundary DEF IInv, InputsType, NS, NT
  <2>3. \A o \in SharedOffsets : o > 0
    BY DEF SharedOffsets
  <2>4. WalkStands'
    BY <1>1, <1>2, <1>3, <1>7, <2>3 DEF WalkStands
  <2>5. NothingIsLost'
    <3>1. student.text = teacher.text /\ Len(student.text) > 0 => Len(student.text) \in SharedOffsets
      BY EqualTextsShareEnd DEF IInv
    <3>2. DOMAIN chunks = {}
      BY <1>2
    <3>3. {chunks[k].text[2] : k \in DOMAIN chunks} \cup SharedOffsets = SharedOffsets
      BY <3>2
    <3>4. todo' = SharedOffsets /\ student' = student /\ teacher' = teacher
          /\ chunks' = chunks /\ SharedOffsets' = SharedOffsets
      BY <1>1, <1>3, <1>7
    <3> QED BY <3>1, <3>3, <3>4 DEF NothingIsLost
  <2>6. ChunksLink'
    BY <1>1, <1>2, <1>7 DEF IInv, ChunksLink
  <2>7. EndIsRight'
    BY <1>1, <1>2, <1>7 DEF EndIsRight
  <2>8. SupervisedWhole'
    BY <1>1, <1>2, <1>3, <1>4, <1>5, <2>2 DEF SupervisedWhole, Inf
  <2>9. RowIsFilled'
    BY <1>1, <1>7, SupervisionStands DEF IInv, RowIsFilled
  <2>10. (trainable_teacher \in 0..t_ptr)'
    <3>1. trainable_teacher = 0
      BY <1>2 DEF IInv
    <3> QED BY <1>1, <1>4, <2>2, <3>1
  <2> QED BY <2>1, <2>4, <2>5, <2>6, <2>7, <2>8, <2>9, <2>10 DEF IInv
<1>8. \/ ~Both /\ phase' = "clip" /\ truncated' = (NS > 0) /\ fallback' = NS /\ UNCHANGED walkVars
      \/ /\ Both /\ phase' = "walk" /\ todo' = SharedOffsets /\ UNCHANGED <<truncated, fallback>>
         /\ s_ptr' = Boundary(student, 0) /\ t_ptr' = Boundary(teacher, 0)
  BY <1>4 DEF Start, Both
<1> QED BY <1>6, <1>7, <1>8

\* The next shared offset lies ahead of the walk, and the rest ahead of it.
LEMMA NextLiesAhead ==
  ASSUME IInv, phase = "walk", todo # {}
  PROVE  /\ NextOffset \in SharedOffsets /\ NextOffset \in todo /\ NextOffset > text_ptr
         /\ NextOffset \in 1..MaxChars /\ text_ptr \in 0..MaxChars
         /\ \A o \in todo \ {NextOffset} : o > NextOffset
         /\ Boundary(student, NextOffset) \in 0..NS
         /\ student.at[Boundary(student, NextOffset)] = NextOffset
         /\ Boundary(teacher, NextOffset) \in 0..NT
         /\ teacher.at[Boundary(teacher, NextOffset)] = NextOffset
         /\ student.at[s_ptr] = text_ptr /\ teacher.at[t_ptr] = text_ptr
         /\ s_ptr = Boundary(student, text_ptr) /\ t_ptr = Boundary(teacher, text_ptr)
         /\ \A o \in todo : o > text_ptr
<1>1. Both
  BY DEF IInv, InputsType
<1>2. NextOffset \in todo /\ \A o \in todo : NextOffset <= o
  BY NextIsLeast
<1>3. /\ NextOffset \in SharedOffsets /\ \A o \in todo : o > text_ptr
      /\ s_ptr = Boundary(student, text_ptr) /\ t_ptr = Boundary(teacher, text_ptr)
  BY <1>1, <1>2 DEF IInv, WalkStands
<1>4. \A o \in todo \ {NextOffset} : o > NextOffset
  <2>1. \A o \in todo : o \in Int
    BY Numbers, BoundsAssumption
  <2> QED BY <1>2, <2>1
<1>5. /\ NextOffset \in 1..MaxChars
      /\ Boundary(student, NextOffset) \in 0..NS
      /\ student.at[Boundary(student, NextOffset)] = NextOffset
      /\ Boundary(teacher, NextOffset) \in 0..NT
      /\ teacher.at[Boundary(teacher, NextOffset)] = NextOffset
  BY <1>3, SharedAre DEF IInv
<1>6. /\ student.at[s_ptr] = text_ptr /\ teacher.at[t_ptr] = text_ptr
      /\ text_ptr \in 0..MaxChars
  BY <1>1, Numbers
<1> QED BY <1>2, <1>3, <1>4, <1>5, <1>6

\* An offset on which one side does not advance is no monotone one, and not the
\* end of equal texts.
LEMMA SkippedIsNotNeeded ==
  ASSUME IInv, Skip
  PROVE  /\ ~(Monotone(student) /\ Monotone(teacher))
         /\ student.text = teacher.text => Len(student.text) # NextOffset
<1> DEFINE o == NextOffset
           Passed(r, ptr) == /\ Boundary(r, o) \in 0..Tokens(r) /\ r.at[Boundary(r, o)] = o
                             /\ ptr \in 0..Tokens(r) /\ r.at[ptr] = text_ptr
                             /\ Boundary(r, o) <= ptr
<1>1. o > text_ptr /\ o \in 1..MaxChars /\ text_ptr \in 0..MaxChars
  BY NextLiesAhead DEF Skip
<1>2. Passed(student, s_ptr) \/ Passed(teacher, t_ptr)
  BY NextLiesAhead, Numbers DEF Skip, NS, NT
<1>3. student \in Decodings /\ teacher \in Decodings
  BY DEF IInv, InputsType
<1>4. ASSUME NEW r \in Decodings, NEW ptr, Passed(r, ptr) PROVE ~Monotone(r) /\ Len(r.text) # o
  <2>1. Tokens(r) \in Nat /\ DOMAIN r.at = 0..Tokens(r)
    BY Decoded, BoundsAssumption
  <2>2. Boundary(r, o) # ptr
    BY <1>1, <1>4
  <2>3. Boundary(r, o) < ptr
    BY <1>4, <2>1, <2>2
  <2>4. ~Monotone(r)
    <3>1. r.at[Boundary(r, o)] # Unstable /\ r.at[ptr] # Unstable
      BY <1>1, <1>4 DEF Unstable
    <3>2. ~(r.at[Boundary(r, o)] <= r.at[ptr])
      BY <1>1, <1>4
    <3> QED BY <1>4, <2>1, <2>3, <3>1, <3>2 DEF Monotone
  <2>5. ASSUME Len(r.text) = o PROVE FALSE
    <3>1. Boundary(r, o) = Tokens(r)
      BY <2>5, LastBoundary
    <3> QED BY <1>4, <2>1, <2>3, <3>1
  <2> QED BY <2>4, <2>5
<1> HIDE DEF Passed
<1> QED BY <1>2, <1>3, <1>4

\* So does an offset at which one side has no token of its own,
LEMMA SkipKeeps == ASSUME IInv, Skip PROVE IInv'
<1>1. /\ phase = "walk" /\ todo # {} /\ todo' = todo \ {NextOffset}
      /\ UNCHANGED <<inputs, phase, s_ptr, t_ptr, text_ptr, chunks, aligned, truncated,
                     trainable_tokens, trainable_chunks, trainable_teacher, fallback, row>>
  BY DEF Skip
<1>2. /\ student' = student /\ teacher' = teacher /\ clipped' = clipped /\ specials' = specials
      /\ NS' = NS /\ NT' = NT /\ Both' = Both /\ SharedOffsets' = SharedOffsets
      /\ Truncates' = Truncates
  BY <1>1, InputsKept
<1>3. Both
  BY <1>1 DEF IInv, InputsType
<1>4. InputsType'
  BY <1>1, <1>2 DEF IInv, InputsType
<1>5. WalkStands'
  BY <1>1, <1>2, <1>3 DEF IInv, WalkStands
<1>6. ChunksLink'
  BY <1>1, <1>2 DEF IInv, ChunksLink, Link
<1>7. NothingIsLost'
  BY <1>1, <1>2, <1>3, SkippedIsNotNeeded DEF IInv, NothingIsLost
<1>8. EndIsRight' /\ (trainable_teacher \in 0..t_ptr)'
  BY <1>1, <1>2 DEF IInv, EndIsRight
<1>9. SupervisedWhole'
  BY <1>1, <1>2 DEF IInv, SupervisedWhole
<1>10. RowIsFilled'
  BY <1>1, SupervisionStands DEF IInv, RowIsFilled
<1> QED BY <1>4, <1>5, <1>6, <1>7, <1>8, <1>9, <1>10 DEF IInv

\* and the end of the walk, which leaves the tail to the fallback.
LEMMA EndWalkKeeps == ASSUME IInv, EndWalk PROVE IInv'
<1>1. /\ phase = "walk" /\ todo = {} /\ phase' = "clip"
      /\ fallback' = NS - s_ptr /\ truncated' = Truncates
      /\ UNCHANGED <<inputs, walkVars, aligned, trainable_tokens, trainable_chunks,
                     trainable_teacher, row>>
  BY DEF EndWalk
<1>2. /\ student' = student /\ teacher' = teacher /\ clipped' = clipped /\ specials' = specials
      /\ NS' = NS /\ NT' = NT /\ Both' = Both /\ SharedOffsets' = SharedOffsets
      /\ Truncates' = Truncates
  BY <1>1, InputsKept
<1>3. Both
  BY <1>1 DEF IInv, InputsType
<1>4. InputsType'
  BY <1>1, <1>2 DEF IInv, InputsType
<1>5. WalkStands' /\ ChunksLink'
  BY <1>1, <1>2, <1>3 DEF IInv, WalkStands, ChunksLink, Link, walkVars
<1>6. NothingIsLost'
  BY <1>1, <1>2, <1>3 DEF IInv, NothingIsLost, walkVars
<1>7. EndIsRight'
  <2>1. NS > 0 /\ NT # 0
    BY <1>3, Numbers DEF Both
  <2>2. Truncates \in BOOLEAN
    BY DEF Truncates
  <2> QED BY <1>1, <1>2, <2>1, <2>2 DEF EndIsRight, walkVars
<1>8. SupervisedWhole' /\ (trainable_teacher \in 0..t_ptr)'
  BY <1>1, <1>2 DEF IInv, SupervisedWhole, walkVars
<1>9. RowIsFilled'
  BY <1>1, SupervisionStands DEF IInv, RowIsFilled, walkVars
<1> QED BY <1>4, <1>5, <1>6, <1>7, <1>8, <1>9 DEF IInv

\* The chunk that Match adds, what it leaves of the others and where the walk goes.
MatchAdds(c, s_end, t_end) ==
    /\ c \in Chunk /\ c.s = <<s_ptr, s_end>> /\ c.t = <<t_ptr, t_end>>
    /\ c.text = <<text_ptr, NextOffset>>
    /\ s_end \in 0..NS /\ t_end \in 0..NT /\ s_end > s_ptr /\ t_end > t_ptr
    /\ s_end = Boundary(student, NextOffset) /\ t_end = Boundary(teacher, NextOffset)
    /\ s_ptr' = s_end /\ t_ptr' = t_end /\ text_ptr' = NextOffset
    /\ todo' = todo \ {NextOffset}
    /\ chunks' \in Seq(Chunk) /\ Len(chunks') = Len(chunks) + 1
    /\ \A k \in 1..Len(chunks) : chunks'[k] = chunks[k]
    /\ chunks'[Len(chunks) + 1] = c
    /\ UNCHANGED <<inputs, phase, truncated, fallback, row>>
    /\ \/ UNCHANGED <<aligned, trainable_tokens, trainable_chunks, trainable_teacher>>
       \/ /\ aligned' = [i \in 1..NS |-> IF i \in s_ptr + 1..s_end
                                         THEN Len(chunks) + 1 ELSE aligned[i]]
          /\ trainable_tokens' = trainable_tokens + (s_end - s_ptr)
          /\ trainable_chunks' = trainable_chunks + 1
          /\ trainable_teacher' = trainable_teacher + (t_end - t_ptr)

\* A matched offset closes a chunk of both sides that starts where the walk stands.
LEMMA MatchEffect ==
  ASSUME IInv, Match
  PROVE  \E c \in Chunk, s_end, t_end \in Nat : MatchAdds(c, s_end, t_end)
<1> DEFINE s_end == Boundary(student, NextOffset)
           t_end == Boundary(teacher, NextOffset)
           c == [s |-> <<s_ptr, s_end>>, t |-> <<t_ptr, t_end>>, text |-> <<text_ptr, NextOffset>>]
<1>1. /\ phase = "walk" /\ todo # {} /\ s_end > s_ptr /\ t_end > t_ptr
      /\ chunks' = Append(chunks, c) /\ s_ptr' = s_end /\ t_ptr' = t_end /\ text_ptr' = NextOffset
      /\ todo' = todo \ {NextOffset} /\ UNCHANGED <<inputs, phase, truncated, fallback, row>>
      /\ \/ UNCHANGED <<aligned, trainable_tokens, trainable_chunks, trainable_teacher>>
         \/ /\ aligned' = [i \in 1..NS |-> IF i \in s_ptr + 1..s_end
                                           THEN Len(chunks) + 1 ELSE aligned[i]]
            /\ trainable_tokens' = trainable_tokens + (s_end - s_ptr)
            /\ trainable_chunks' = trainable_chunks + 1
            /\ trainable_teacher' = trainable_teacher + (t_end - t_ptr)
  BY DEF Match
<1>2. /\ s_end \in 0..NS /\ t_end \in 0..NT /\ NextOffset \in Nat /\ text_ptr \in Nat
      /\ s_ptr \in Nat /\ t_ptr \in Nat /\ s_end \in Nat /\ t_end \in Nat
  BY <1>1, NextLiesAhead, Numbers, BoundsAssumption
<1> DEFINE Effect(d, e, f) ==
      /\ d \in Chunk /\ d.s = <<s_ptr, e>> /\ d.t = <<t_ptr, f>> /\ d.text = <<text_ptr, NextOffset>>
<1>3. Effect(c, s_end, t_end)
  BY <1>2 DEF Chunk
<1>4. /\ chunks' \in Seq(Chunk) /\ Len(chunks') = Len(chunks) + 1
      /\ \A k \in 1..Len(chunks) : chunks'[k] = chunks[k]
      /\ chunks'[Len(chunks) + 1] = c
  <2>1. chunks \in Seq(Chunk) /\ c \in Chunk
    BY <1>3 DEF IInv, ChunksLink
  <2> HIDE DEF c
  <2> QED BY <1>1, <2>1, AppendProperties
<1> HIDE DEF c, s_end, t_end
<1>5. MatchAdds(c, s_end, t_end)
  BY <1>1, <1>2, <1>3, <1>4 DEF MatchAdds, s_end, t_end
<1> QED BY <1>2, <1>3, <1>5

\* Before Match no token past the walk is supervised.
LEMMA SupervisedIsBehind ==
  ASSUME IInv, NEW i \in 1..NS, aligned[i] # Inf
  PROVE  i <= s_ptr /\ aligned[i] \in 1..Len(chunks)
<1>1. aligned[i] \in 1..Len(chunks)
  BY Numbers DEF IInv, SupervisedWhole, Inf
<1>2. i <= chunks[aligned[i]].s[2]
  BY DEF IInv, SupervisedWhole
<1>3. chunks[aligned[i]].s[2] <= s_ptr
  BY <1>1 DEF IInv, ChunksLink, Link
<1>4. chunks[aligned[i]] \in Chunk
  BY <1>1, ElementOfSeq DEF IInv, ChunksLink
<1>5. chunks[aligned[i]].s[2] \in Nat
  BY <1>4 DEF Chunk
<1> QED BY <1>1, <1>2, <1>3, <1>5, Numbers

\* The walk then stands at that offset, and the chunks stay linked.
LEMMA MatchWalks ==
  ASSUME IInv, phase = "walk", todo # {}, NEW c \in Chunk, NEW s_end \in Nat, NEW t_end \in Nat,
         MatchAdds(c, s_end, t_end)
  PROVE  /\ InputsType' /\ WalkStands' /\ ChunksLink' /\ NothingIsLost' /\ EndIsRight'
         /\ (trainable_teacher \in 0..t_ptr)'
<1> DEFINE n == Len(chunks)
<1>1. /\ student' = student /\ teacher' = teacher /\ clipped' = clipped /\ specials' = specials
      /\ NS' = NS /\ NT' = NT /\ Both' = Both /\ SharedOffsets' = SharedOffsets
      /\ Truncates' = Truncates
  BY InputsKept DEF MatchAdds
<1>2. Both
  BY DEF IInv, InputsType
<1>3. InputsType'
  BY <1>1 DEF IInv, InputsType, MatchAdds
<1>4. WalkStands'
  <2>1. NextOffset \in SharedOffsets /\ \A o \in todo \ {NextOffset} : o > NextOffset
    BY NextLiesAhead
  <2> QED BY <1>1, <1>2, <2>1 DEF IInv, WalkStands, MatchAdds
<1>5. n \in Nat
  BY Numbers
<1>6. ASSUME NEW k \in 1..n PROVE Link(k)'
  <2>1. chunks'[k] = chunks[k] /\ (k > 1 => chunks'[k - 1] = chunks[k - 1])
    BY <1>5 DEF MatchAdds
  <2>2. Link(k)
    BY DEF IInv, ChunksLink
  <2>3. chunks[k].s[2] <= s_ptr'
    <3>1. chunks[k].s[2] \in Nat
      <4>1. chunks[k] \in Chunk
        BY ElementOfSeq DEF IInv, ChunksLink
      <4> QED BY <4>1 DEF Chunk
    <3>2. chunks[k].s[2] <= s_ptr /\ s_ptr < s_ptr' /\ s_ptr \in Nat /\ s_ptr' \in Nat
      BY <2>2, Numbers DEF Link, MatchAdds
    <3> QED BY <3>1, <3>2
  <2> QED BY <1>1, <2>1, <2>2, <2>3 DEF Link
<1>7. ASSUME NEW k \in Nat, k = n + 1 PROVE Link(k)'
  <2>1. chunks'[k] = c /\ (k > 1 => chunks'[k - 1] = chunks[k - 1])
    BY <1>5, <1>7 DEF MatchAdds
  <2>2. /\ c.s[1] = s_ptr /\ c.s[2] = s_end /\ c.t[1] = t_ptr /\ c.t[2] = t_end
        /\ c.text[1] = text_ptr /\ c.text[2] = NextOffset /\ s_ptr' = s_end
        /\ s_ptr < s_end /\ t_ptr < t_end
    BY DEF MatchAdds
  <2>3. /\ NextOffset \in SharedOffsets
        /\ s_end = Boundary(student, NextOffset) /\ t_end = Boundary(teacher, NextOffset)
    BY NextLiesAhead DEF MatchAdds
  <2>4. s_ptr = Boundary(student, text_ptr) /\ t_ptr = Boundary(teacher, text_ptr)
    BY NextLiesAhead
  <2>5. k = 1 => text_ptr = 0
    BY <1>5, <1>7 DEF IInv, ChunksLink
  <2>6. k > 1 => /\ chunks[k - 1].text[2] = text_ptr
                 /\ chunks[k - 1].s[2] = s_ptr /\ chunks[k - 1].t[2] = t_ptr
    <3>1. k > 1 => chunks[k - 1].text[2] = text_ptr /\ Link(k - 1)
      BY <1>5, <1>7 DEF IInv, ChunksLink
    <3> QED BY <2>4, <3>1 DEF Link
  <2> QED BY <1>1, <1>5, <1>7, <2>1, <2>2, <2>3, <2>4, <2>5, <2>6 DEF Link
<1>8. ChunksLink'
  <2>1. chunks' \in Seq(Chunk) /\ Len(chunks') = n + 1
    BY DEF MatchAdds
  <2>2. chunks'[n + 1].text[2] = text_ptr'
    BY DEF MatchAdds
  <2>3. ASSUME NEW k \in 1..n + 1 PROVE Link(k)'
    <3>1. k \in 1..n \/ k = n + 1
      BY <1>5
    <3> QED BY <1>6, <1>7, <3>1
  <2> QED BY <1>5, <2>1, <2>2, <2>3 DEF ChunksLink
<1>9. NothingIsLost'
  <2>1. ASSUME student.text = teacher.text, Len(student.text) > 0
        PROVE  Len(student.text) \in todo' \/ text_ptr' = Len(student.text)
    <3>1. Len(student.text) \in todo \/ text_ptr = Len(student.text)
      BY <1>2, <2>1 DEF IInv, NothingIsLost
    <3>2. text_ptr # Len(student.text)
      <4>1. NextOffset <= Len(student.text) /\ NextOffset > text_ptr
        BY NextLiesAhead, SharedAre DEF IInv
      <4>2. NextOffset \in Int /\ text_ptr \in Int /\ Len(student.text) \in Int
        BY NextLiesAhead, Decoded, BoundsAssumption DEF IInv, InputsType
      <4> QED BY <4>1, <4>2
    <3> QED BY <3>1, <3>2 DEF MatchAdds
  <2>2. {chunks'[k].text[2] : k \in DOMAIN chunks'} \cup todo'
          = {chunks[k].text[2] : k \in DOMAIN chunks} \cup todo
    <3>1. DOMAIN chunks = 1..n /\ DOMAIN chunks' = 1..n + 1
      BY LenProperties DEF IInv, ChunksLink, MatchAdds
    <3>2. 1..n + 1 = (1..n) \cup {n + 1}
      BY <1>5
    <3>3. /\ \A k \in 1..n : chunks'[k] = chunks[k]
          /\ chunks'[n + 1].text[2] = NextOffset /\ NextOffset \in todo
          /\ todo' = todo \ {NextOffset}
      BY NextLiesAhead DEF MatchAdds
    <3>4. {chunks'[k].text[2] : k \in DOMAIN chunks'}
             = {chunks[k].text[2] : k \in 1..n} \cup {NextOffset}
      BY <3>1, <3>2, <3>3
    <3> HIDE DEF n
    <3> QED BY <3>1, <3>3, <3>4
  <2> QED BY <1>1, <1>2, <2>1, <2>2 DEF IInv, NothingIsLost
<1>10. EndIsRight'
  BY <1>1 DEF IInv, EndIsRight, MatchAdds
<1>11. (trainable_teacher \in 0..t_ptr)'
  <2>1. trainable_teacher \in 0..t_ptr /\ t_ptr \in Nat /\ t_ptr < t_end /\ t_ptr' = t_end
    BY Numbers DEF IInv, MatchAdds
  <2>2. trainable_teacher' = trainable_teacher \/ trainable_teacher' = trainable_teacher + (t_end - t_ptr)
    BY DEF MatchAdds
  <2> QED BY <2>1, <2>2
<1> QED BY <1>3, <1>4, <1>8, <1>9, <1>10, <1>11

\* A small chunk supervises its tokens, none of which was supervised before.
LEMMA SmallChunkCounts ==
  ASSUME IInv, phase = "walk", todo # {}, NEW s_end \in 0..NS, s_end > s_ptr, UNCHANGED inputs,
         aligned' = [i \in 1..NS |-> IF i \in s_ptr + 1..s_end THEN Len(chunks) + 1 ELSE aligned[i]],
         trainable_tokens' = trainable_tokens + (s_end - s_ptr),
         trainable_chunks' = trainable_chunks + 1
  PROVE  Counted'
<1> DEFINE n == Len(chunks)
           new == s_ptr + 1..s_end
<1>1. NS' = NS /\ NS \in Nat /\ s_ptr \in 0..NS /\ n \in Nat /\ s_end \in 0..NS
  BY InputsKept, Numbers
<1>2. new \subseteq 1..NS /\ s_end \in new
  BY <1>1
<1>3. \A i \in 1..NS : aligned[i] # Inf => i <= s_ptr /\ aligned[i] \in 1..n
  BY SupervisedIsBehind
<1>4. /\ \A i \in new : aligned'[i] = n + 1 /\ aligned[i] = Inf
      /\ \A i \in 1..NS \ new : aligned'[i] = aligned[i]
  <2>1. ASSUME NEW i \in new PROVE aligned[i] = Inf
    <3>1. ~(i <= s_ptr) /\ i \in 1..NS
      BY <1>1, <1>2
    <3> QED BY <1>3, <3>1
  <2>2. \A i \in new : aligned'[i] = n + 1
    BY <1>2
  <2>3. \A i \in 1..NS \ new : aligned'[i] = aligned[i]
    OBVIOUS
  <2> QED BY <2>1, <2>2, <2>3
<1>5. n + 1 # Inf
  BY <1>1 DEF Inf
<1>6. Counted
  BY DEF IInv, RowIsFilled
<1> HIDE DEF new, n
<1>7. trainable_tokens' = Cardinality(Supervised')
  <2>1. Supervised' = Supervised \cup new /\ Supervised \cap new = {}
    <3>1. Supervised' = {i \in 1..NS : aligned'[i] # Inf}
      BY <1>1 DEF Supervised
    <3>2. \A i \in 1..NS : aligned'[i] # Inf <=> (i \in new \/ aligned[i] # Inf)
      BY <1>4, <1>5
    <3>3. \A i \in new : i \in 1..NS /\ aligned[i] = Inf
      BY <1>2, <1>4
    <3> QED BY <3>1, <3>2, <3>3 DEF Supervised
  <2>2. IsFiniteSet(Supervised) /\ IsFiniteSet(new)
    <3>1. 1 \in Int /\ NS \in Int /\ Supervised \subseteq 1..NS
      BY <1>1 DEF Supervised
    <3> QED BY <1>2, <3>1, FS_Interval, FS_Subset
  <2>3. Cardinality(new) = s_end - s_ptr
    <3>1. s_ptr + 1 \in Int /\ s_end \in Int
      BY <1>1
    <3>2. Cardinality(s_ptr + 1..s_end)
             = IF s_ptr + 1 > s_end THEN 0 ELSE s_end - (s_ptr + 1) + 1
      BY <3>1, FS_Interval
    <3> QED BY <1>1, <3>2 DEF new
  <2>4. Cardinality(Supervised \cup new)
          = Cardinality(Supervised) + Cardinality(new) - Cardinality(Supervised \cap new)
    BY <2>2, FS_Union
  <2>5. Cardinality(Supervised \cap new) = 0 /\ Cardinality(Supervised) \in Nat
    BY <2>1, <2>2, FS_EmptySet, FS_CardinalityType
  <2> QED BY <1>1, <1>6, <2>1, <2>3, <2>4, <2>5 DEF Counted
<1>8. trainable_chunks' = Cardinality(Used')
  <2>1. Used' = Used \cup {n + 1}
    <3>1. ASSUME NEW x \in Used' PROVE x \in Used \cup {n + 1}
      <4>1. PICK i \in 1..NS : x = aligned'[i] /\ x # Inf
        BY <1>1 DEF Used
      <4>2. CASE i \in new
        BY <1>4, <4>1, <4>2
      <4>3. CASE i \notin new
        BY <1>4, <4>1, <4>3 DEF Used
      <4> QED BY <4>2, <4>3
    <3>2. ASSUME NEW x \in Used PROVE x \in Used'
      <4>1. PICK i \in 1..NS : x = aligned[i] /\ x # Inf
        BY DEF Used
      <4>2. i \notin new
        BY <1>4, <4>1
      <4> QED BY <1>1, <1>4, <4>1, <4>2 DEF Used
    <3>3. n + 1 \in Used'
      BY <1>1, <1>2, <1>4, <1>5 DEF Used
    <3> QED BY <3>1, <3>2, <3>3
  <2>2. Used \subseteq 1..n
    BY <1>3 DEF Used
  <2>3. n + 1 \notin Used
    BY <1>1, <2>2
  <2>4. IsFiniteSet(Used)
    <3>1. 1 \in Int /\ n \in Int
      BY <1>1
    <3> QED BY <2>2, <3>1, FS_Interval, FS_Subset
  <2> QED BY <1>6, <2>1, <2>3, <2>4, FS_AddElement DEF Counted
<1> QED BY <1>7, <1>8 DEF Counted

\* A chunk is counted as trainable as a whole or not at all.
LEMMA MatchSupervises ==
  ASSUME IInv, phase = "walk", todo # {}, NEW c \in Chunk, NEW s_end \in Nat, NEW t_end \in Nat,
         MatchAdds(c, s_end, t_end)
  PROVE  SupervisedWhole' /\ RowIsFilled'
<1> DEFINE n == Len(chunks)
<1>1. NS' = NS /\ NS \in Nat /\ s_ptr \in 0..NS /\ n \in Nat /\ s_end \in 0..NS /\ s_end > s_ptr
      /\ s_ptr' = s_end /\ Len(chunks') = n + 1 /\ phase' = phase /\ row' = row
  BY InputsKept, Numbers DEF MatchAdds
<1>2. /\ \A k \in 1..n : chunks'[k] = chunks[k]
      /\ chunks'[n + 1].s[1] = s_ptr /\ chunks'[n + 1].s[2] = s_end
  BY DEF MatchAdds
<1>3. \A i \in 1..NS : aligned[i] # Inf => i <= s_ptr /\ aligned[i] \in 1..n
  BY SupervisedIsBehind
<1>4. aligned \in [1..NS -> 0..n] /\ n <= s_ptr
  BY DEF IInv, SupervisedWhole
<1>5. \A i, j \in 1..NS : aligned[i] # Inf =>
         (aligned[j] = aligned[i]
            <=> chunks[aligned[i]].s[1] < j /\ j <= chunks[aligned[i]].s[2])
  BY DEF IInv, SupervisedWhole
<1>6. CASE UNCHANGED <<aligned, trainable_tokens, trainable_chunks>>
  <2>1. aligned' \in [1..NS' -> 0..Len(chunks')] /\ Len(chunks') <= s_ptr'
    BY <1>1, <1>4, <1>6
  <2>2. \A i \in 1..NS : aligned[i] # Inf => chunks'[aligned[i]] = chunks[aligned[i]]
    BY <1>2, <1>3
  <2>3. SupervisedWhole'
    <3> SUFFICES ASSUME NEW i \in 1..NS, aligned[i] # Inf, NEW j \in 1..NS
                 PROVE  aligned[j] = aligned[i]
                          <=> chunks'[aligned[i]].s[1] < j /\ j <= chunks'[aligned[i]].s[2]
      BY <1>1, <1>6, <2>1 DEF SupervisedWhole
    <3>1. chunks'[aligned[i]] = chunks[aligned[i]]
      BY <2>2
    <3> QED BY <3>1, <1>5
  <2>4. Counted'
    BY <1>1, <1>6 DEF IInv, RowIsFilled, Counted, Supervised, Used
  <2> QED BY <1>1, <2>3, <2>4 DEF IInv, RowIsFilled
<1>7. CASE /\ aligned' = [i \in 1..NS |-> IF i \in s_ptr + 1..s_end THEN n + 1 ELSE aligned[i]]
           /\ trainable_tokens' = trainable_tokens + (s_end - s_ptr)
           /\ trainable_chunks' = trainable_chunks + 1
  <2>1. aligned' \in [1..NS' -> 0..Len(chunks')] /\ Len(chunks') <= s_ptr'
    BY <1>1, <1>4, <1>7
  <2>2. ASSUME NEW i \in 1..NS, NEW j \in 1..NS, aligned'[i] # Inf
        PROVE  aligned'[j] = aligned'[i]
                 <=> chunks'[aligned'[i]].s[1] < j /\ j <= chunks'[aligned'[i]].s[2]
    <3>1. aligned'[i] = (IF s_ptr < i /\ i <= s_end THEN n + 1 ELSE aligned[i])
      BY <1>1, <1>7
    <3>2. aligned'[j] = (IF s_ptr < j /\ j <= s_end THEN n + 1 ELSE aligned[j])
      BY <1>1, <1>7
    <3>3. aligned[j] \in 0..n /\ aligned[i] \in 0..n
      BY <1>4
    <3>4. CASE s_ptr < i /\ i <= s_end
      BY <1>1, <1>2, <3>1, <3>2, <3>3, <3>4
    <3>5. CASE ~(s_ptr < i /\ i <= s_end)
      <4>1. aligned'[i] = aligned[i] /\ aligned[i] # Inf
        BY <2>2, <3>1, <3>5
      <4>2. aligned[i] \in 1..n /\ chunks'[aligned[i]] = chunks[aligned[i]]
        BY <1>2, <1>3, <4>1
      <4>3. chunks[aligned[i]].s[2] <= s_ptr /\ chunks[aligned[i]].s[2] \in Nat
        <5>1. Link(aligned[i]) /\ chunks[aligned[i]] \in Chunk
          BY <4>2, ElementOfSeq DEF IInv, ChunksLink
        <5> QED BY <5>1 DEF Link, Chunk
      <4>4. aligned[j] = aligned[i]
              <=> chunks[aligned[i]].s[1] < j /\ j <= chunks[aligned[i]].s[2]
        BY <1>5, <4>1
      <4>5. CASE s_ptr < j /\ j <= s_end
        BY <1>1, <3>2, <3>3, <4>1, <4>2, <4>3, <4>5
      <4>6. CASE ~(s_ptr < j /\ j <= s_end)
        BY <3>2, <4>1, <4>2, <4>4, <4>6
      <4> QED BY <4>5, <4>6
    <3> QED BY <3>4, <3>5
  <2>3. SupervisedWhole'
    BY <1>1, <2>1, <2>2 DEF SupervisedWhole
  <2>4. Counted'
    BY <1>1, <1>7, SmallChunkCounts DEF MatchAdds
  <2> QED BY <1>1, <2>3, <2>4 DEF IInv, RowIsFilled
<1> QED BY <1>6, <1>7 DEF MatchAdds

\* A matched offset keeps the invariant.
LEMMA MatchKeeps == ASSUME IInv, Match PROVE IInv'
<1>1. phase = "walk" /\ todo # {}
  BY DEF Match
<1>2. PICK c \in Chunk, s_end, t_end \in Nat : MatchAdds(c, s_end, t_end)
  BY MatchEffect
<1> QED BY <1>1, <1>2, MatchWalks, MatchSupervises DEF IInv

\* The tail begins within the response and cuts no chunk that supervises.
LEMMA TailCutsNoChunk ==
  ASSUME IInv, ClipAfter > 0, ClipAfter < NS
  PROVE  /\ TailStart \in 0..NS
         /\ \A i, j \in 1..NS :
               aligned[i] # Inf /\ aligned[j] = aligned[i]
                  => (i <= TailStart <=> j <= TailStart)
<1>1. NS \in Nat /\ s_ptr \in 0..NS /\ ClipAfter \in Nat /\ ClipAfter + 1 \in 1..NS
  BY Numbers, BoundsAssumption
<1>2. \A i, j \in 1..NS : aligned[i] # Inf =>
         (aligned[j] = aligned[i]
            <=> chunks[aligned[i]].s[1] < j /\ j <= chunks[aligned[i]].s[2])
  BY DEF IInv, SupervisedWhole
<1>3. ASSUME NEW i \in 1..NS, aligned[i] # Inf
      PROVE  /\ chunks[aligned[i]].s[1] \in 0..NS /\ chunks[aligned[i]].s[2] \in 0..NS
             /\ chunks[aligned[i]].s[1] < chunks[aligned[i]].s[2]
  <2>1. aligned[i] \in 1..Len(chunks)
    BY <1>3, SupervisedIsBehind
  <2>2. Link(aligned[i]) /\ chunks[aligned[i]] \in Chunk
    BY <2>1, ElementOfSeq DEF IInv, ChunksLink
  <2>3. chunks[aligned[i]].s[1] \in Nat /\ chunks[aligned[i]].s[2] \in Nat
    BY <2>2 DEF Chunk
  <2> QED BY <1>1, <2>2, <2>3 DEF Link
<1> DEFINE m == ClipAfter + 1
<1>4. CASE aligned[m] = Inf
  <2>1. TailStart = ClipAfter
    BY <1>4 DEF TailStart
  <2>2. ASSUME NEW i \in 1..NS, NEW j \in 1..NS, aligned[i] # Inf, aligned[j] = aligned[i],
               i <= ClipAfter, ~(j <= ClipAfter)
        PROVE  FALSE
    <3>1. /\ chunks[aligned[i]].s[1] < i /\ i <= chunks[aligned[i]].s[2]
          /\ chunks[aligned[i]].s[1] < j /\ j <= chunks[aligned[i]].s[2]
      BY <1>2, <2>2
    <3>2. chunks[aligned[i]].s[1] < m /\ m <= chunks[aligned[i]].s[2]
      BY <1>1, <1>3, <2>2, <3>1
    <3>3. aligned[m] = aligned[i]
      BY <1>1, <1>2, <2>2, <3>2
    <3> QED BY <1>4, <2>2, <3>3
  <2>3. \A i, j \in 1..NS :
          aligned[i] # Inf /\ aligned[j] = aligned[i] => (i <= ClipAfter <=> j <= ClipAfter)
    BY <2>2
  <2> QED BY <1>1, <2>1, <2>3
<1>5. CASE aligned[m] # Inf
  <2> DEFINE b == chunks[aligned[m]].s[1]
  <2>1. TailStart = b /\ b \in 0..NS /\ b + 1 \in 1..NS /\ b < chunks[aligned[m]].s[2]
    <3>1. TailStart = b
      BY <1>5 DEF TailStart
    <3>2. b \in 0..NS /\ chunks[aligned[m]].s[2] \in 0..NS /\ b < chunks[aligned[m]].s[2]
      BY <1>1, <1>3, <1>5
    <3> QED BY <1>1, <3>1, <3>2
  <2>2. aligned[b + 1] = aligned[m]
    <3>1. b + 1 <= chunks[aligned[m]].s[2] /\ b < b + 1
      BY <1>1, <1>3, <1>5, <2>1
    <3> QED BY <1>1, <1>2, <1>5, <2>1, <3>1
  <2>3. ASSUME NEW i \in 1..NS, NEW j \in 1..NS, aligned[i] # Inf, aligned[j] = aligned[i],
               i <= b, ~(j <= b)
        PROVE  FALSE
    <3>1. /\ chunks[aligned[i]].s[1] < i /\ i <= chunks[aligned[i]].s[2]
          /\ chunks[aligned[i]].s[1] < j /\ j <= chunks[aligned[i]].s[2]
      BY <1>2, <2>3
    <3>2. chunks[aligned[i]].s[1] < b + 1 /\ b + 1 <= chunks[aligned[i]].s[2]
      <4> HIDE DEF b
      <4> QED BY <1>1, <1>3, <2>1, <2>3, <3>1
    <3>3. aligned[b + 1] = aligned[i]
      BY <1>2, <2>1, <2>3, <3>2
    <3>4. b < i
      BY <2>2, <3>1, <3>3
    <3> HIDE DEF b
    <3> QED BY <2>1, <2>3, <3>4
  <2>4. \A i, j \in 1..NS :
          aligned[i] # Inf /\ aligned[j] = aligned[i] => (i <= b <=> j <= b)
    BY <2>3
  <2> QED BY <2>1, <2>4
<1> QED BY <1>4, <1>5

\* Clipping takes the supervision of the tail back, and counts it.
LEMMA TailIsCounted ==
  ASSUME IInv, phase = "clip", ClipAfter > 0, ClipAfter < NS, NS' = NS,
         aligned' = [i \in 1..NS |-> IF i > TailStart THEN Inf ELSE aligned[i]],
         trainable_tokens' = trainable_tokens
                               - Cardinality({i \in TailStart + 1..NS : aligned[i] # Inf}),
         trainable_chunks' = Cardinality({aligned'[i] : i \in 1..NS} \ {Inf})
  PROVE  Counted'
<1> DEFINE tail == {i \in TailStart + 1..NS : aligned[i] # Inf}
<1>1. NS \in Nat /\ TailStart \in 0..NS
  BY Numbers, TailCutsNoChunk
<1>2. Used' = {aligned'[i] : i \in 1..NS} \ {Inf}
  BY DEF Used
<1>3. Supervised' \cup tail = Supervised /\ Supervised' \cap tail = {}
  <2>1. Supervised' = {i \in 1..NS : aligned'[i] # Inf}
    BY DEF Supervised
  <2>2. \A i \in 1..NS : aligned'[i] # Inf <=> aligned[i] # Inf /\ ~(i > TailStart)
    OBVIOUS
  <2>3. \A i : i \in tail <=> i \in 1..NS /\ i > TailStart /\ aligned[i] # Inf
    BY <1>1
  <2> HIDE DEF tail
  <2>4. ASSUME NEW i PROVE i \in Supervised <=> i \in Supervised' \/ i \in tail
    BY <2>1, <2>2, <2>3 DEF Supervised
  <2>5. ASSUME NEW i PROVE ~(i \in Supervised' /\ i \in tail)
    BY <2>1, <2>2, <2>3
  <2> QED BY <2>4, <2>5
<1>4. IsFiniteSet(Supervised)
  <2>1. 1 \in Int /\ NS \in Int /\ Supervised \subseteq 1..NS
    BY <1>1 DEF Supervised
  <2> QED BY <2>1, FS_Interval, FS_Subset
<1> HIDE DEF tail
<1>5. IsFiniteSet(Supervised') /\ IsFiniteSet(tail)
  BY <1>3, <1>4, FS_Subset
<1>6. Cardinality(Supervised)
        = Cardinality(Supervised') + Cardinality(tail) - Cardinality(Supervised' \cap tail)
  BY <1>3, <1>5, FS_Union
<1>7. /\ Cardinality(Supervised' \cap tail) = 0 /\ Cardinality(Supervised') \in Nat
      /\ Cardinality(tail) \in Nat
  BY <1>3, <1>5, FS_EmptySet, FS_CardinalityType
<1>8. trainable_tokens = Cardinality(Supervised)
  BY DEF IInv, RowIsFilled, Counted
<1>9. trainable_tokens' = Cardinality(Supervised')
  BY <1>6, <1>7, <1>8 DEF tail
<1> QED BY <1>2, <1>9 DEF Counted

\* So does leaving the tail of a clipped response out, in whole chunks,
LEMMA ClipKeeps == ASSUME IInv, Clip PROVE IInv'
<1>1. /\ phase = "clip" /\ phase' = "fill"
      /\ UNCHANGED <<inputs, walkVars, truncated, trainable_teacher, fallback, row>>
  BY DEF Clip
<1>2. /\ student' = student /\ teacher' = teacher /\ clipped' = clipped /\ specials' = specials
      /\ NS' = NS /\ NT' = NT /\ Both' = Both /\ SharedOffsets' = SharedOffsets
      /\ Truncates' = Truncates
  BY <1>1, InputsKept
<1>3. InputsType' /\ WalkStands' /\ EndIsRight' /\ (trainable_teacher \in 0..t_ptr)'
  BY <1>1, <1>2 DEF IInv, InputsType, WalkStands, EndIsRight, walkVars
<1>4. ChunksLink' /\ NothingIsLost'
  BY <1>1, <1>2 DEF IInv, ChunksLink, Link, NothingIsLost, walkVars
<1>5. SupervisedWhole' /\ Counted'
  <2>1. CASE UNCHANGED <<aligned, trainable_tokens, trainable_chunks>>
    <3>1. Counted'
      BY <1>1, <2>1, SupervisionStands DEF IInv, RowIsFilled, walkVars
    <3> QED BY <1>1, <1>2, <2>1, <3>1 DEF IInv, SupervisedWhole, walkVars
  <2>2. CASE /\ ClipAfter > 0 /\ ClipAfter < NS
             /\ aligned' = [i \in 1..NS |-> IF i > TailStart THEN Inf ELSE aligned[i]]
             /\ trainable_tokens' = trainable_tokens
                  - Cardinality({i \in TailStart + 1..NS : aligned[i] # Inf})
             /\ trainable_chunks' = Cardinality({aligned'[i] : i \in 1..NS} \ {Inf})
    <3>1. TailStart \in 0..NS /\ NS \in Nat
      BY <2>2, TailCutsNoChunk, Numbers
    <3>2. aligned' \in [1..NS' -> 0..Len(chunks')] /\ Len(chunks') <= s_ptr'
      <4>1. aligned \in [1..NS -> 0..Len(chunks)] /\ Len(chunks) <= s_ptr
        BY DEF IInv, SupervisedWhole
      <4>2. Inf \in 0..Len(chunks)
        BY Numbers DEF Inf
      <4> QED BY <1>1, <1>2, <2>2, <4>1, <4>2 DEF walkVars
    <3>3. ASSUME NEW i \in 1..NS, NEW j \in 1..NS, aligned'[i] # Inf
          PROVE  aligned'[j] = aligned'[i]
                   <=> chunks[aligned'[i]].s[1] < j /\ j <= chunks[aligned'[i]].s[2]
      <4>1. aligned'[i] = aligned[i] /\ aligned[i] # Inf /\ ~(i > TailStart)
        BY <2>2, <3>3
      <4>2. aligned[j] = aligned[i]
              <=> chunks[aligned[i]].s[1] < j /\ j <= chunks[aligned[i]].s[2]
        BY <4>1 DEF IInv, SupervisedWhole
      <4>3. aligned[j] = aligned[i] => ~(j > TailStart)
        BY <2>2, <3>1, <4>1, TailCutsNoChunk
      <4>4. aligned'[j] = (IF j > TailStart THEN Inf ELSE aligned[j])
        BY <2>2
      <4>5. aligned'[j] = aligned[i] <=> aligned[j] = aligned[i]
        BY <4>1, <4>3, <4>4
      <4> QED BY <4>1, <4>2, <4>5
    <3>4. SupervisedWhole'
      BY <1>1, <1>2, <3>2, <3>3 DEF SupervisedWhole, walkVars
    <3> QED BY <1>1, <1>2, <2>2, <3>4, TailIsCounted
  <2> QED BY <2>1, <2>2 DEF Clip
<1>6. RowIsFilled'
  BY <1>1, <1>5 DEF IInv, RowIsFilled
<1> QED BY <1>3, <1>4, <1>5, <1>6 DEF IInv

\* and writing the supervised tokens into the row.
LEMMA FillKeeps == ASSUME IInv, Fill PROVE IInv'
<1>1. /\ phase = "fill" /\ phase' = "done"
      /\ UNCHANGED <<inputs, walkVars, aligned, truncated, fallback>>
  BY DEF Fill
<1>2. /\ student' = student /\ teacher' = teacher /\ clipped' = clipped /\ specials' = specials
      /\ NS' = NS /\ NT' = NT /\ Both' = Both /\ SharedOffsets' = SharedOffsets
      /\ Truncates' = Truncates
  BY <1>1, InputsKept
<1>3. InputsType' /\ WalkStands' /\ EndIsRight'
  BY <1>1, <1>2 DEF IInv, InputsType, WalkStands, EndIsRight, walkVars
<1>4. ChunksLink' /\ NothingIsLost'
  BY <1>1, <1>2 DEF IInv, ChunksLink, Link, NothingIsLost, walkVars
<1>5. SupervisedWhole'
  BY <1>1, <1>2 DEF IInv, SupervisedWhole, walkVars
<1>6. (trainable_teacher \in 0..t_ptr)'
  <2>1. t_ptr' = t_ptr /\ t_ptr \in Nat /\ trainable_teacher \in 0..t_ptr
    BY <1>1, Numbers DEF IInv, walkVars
  <2>2. trainable_teacher' = 0 \/ trainable_teacher' = trainable_teacher
    BY DEF Fill
  <2> QED BY <2>1, <2>2
<1>7. RowIsFilled'
  <2>1. CASE truncated
    BY <1>1, <1>2, <2>1 DEF Fill, RowIsFilled
  <2>2. CASE ~truncated
    <3>1. UNCHANGED <<trainable_tokens, trainable_chunks>>
      BY <2>2 DEF Fill
    <3>2. Counted'
      BY <1>1, <3>1, SupervisionStands DEF IInv, RowIsFilled, walkVars
    <3>3. PICK first \in {Eos, Inf} :
             row' = [i \in 1..NS + specials |->
                       IF i <= NS THEN aligned[i]
                       ELSE IF i = NS + 1 THEN first ELSE Inf]
      BY <2>2 DEF Fill
    <3>4. NS \in Nat /\ specials \in Nat /\ Len(chunks) \in Nat
      BY Numbers DEF IInv, InputsType
    <3>5. aligned \in [1..NS -> 0..Len(chunks)]
      BY DEF IInv, SupervisedWhole
    <3>6. \A i \in 1..NS + specials : i <= NS => i \in 1..NS
      BY <3>4
    <3>7. Inf \in 0..Len(chunks) /\ first \in 0..Len(chunks) \cup {Eos}
      BY <3>4 DEF Inf
    <3>8. row' \in [1..NS + specials -> 0..Len(chunks) \cup {Eos}]
      BY <3>3, <3>5, <3>6, <3>7
    <3>9. \A i \in 1..NS : row'[i] = aligned[i]
      BY <3>3, <3>4
    <3> QED BY <1>1, <1>2, <2>2, <3>2, <3>8, <3>9 DEF RowIsFilled, walkVars
  <2> QED BY <2>1, <2>2
<1> QED BY <1>3, <1>4, <1>5, <1>6, <1>7 DEF IInv

\* Every step keeps the invariant.
LEMMA NextKeeps == ASSUME IInv, [Next]_vars PROVE IInv'
<1>1. CASE Start \/ Match \/ Skip
  BY <1>1, StartKeeps, MatchKeeps, SkipKeeps
<1>2. CASE EndWalk \/ Clip \/ Fill
  BY <1>2, EndWalkKeeps, ClipKeeps, FillKeeps
<1>3. CASE UNCHANGED vars
  <2>1. /\ UNCHANGED <<inputs, walkVars, phase, aligned, truncated, trainable_tokens,
                      trainable_chunks, trainable_teacher, fallback, row>>
    BY <1>3 DEF vars, inputs, walkVars
  <2>2. /\ student' = student /\ teacher' = teacher /\ clipped' = clipped /\ specials' = specials
        /\ NS' = NS /\ NT' = NT /\ Both' = Both /\ SharedOffsets' = SharedOffsets
        /\ Truncates' = Truncates
    BY <2>1, InputsKept
  <2>3. InputsType' /\ WalkStands' /\ EndIsRight' /\ (trainable_teacher \in 0..t_ptr)'
    BY <2>1, <2>2 DEF IInv, InputsType, WalkStands, EndIsRight, walkVars
  <2>4. ChunksLink' /\ NothingIsLost'
    BY <2>1, <2>2 DEF IInv, ChunksLink, Link, NothingIsLost, walkVars
  <2>5. SupervisedWhole'
    BY <2>1, <2>2 DEF IInv, SupervisedWhole, walkVars
  <2>6. Counted' = Counted
    BY <2>1, SupervisionStands DEF walkVars
  <2>7. RowIsFilled'
    BY <2>1, <2>2, <2>6 DEF IInv, RowIsFilled, walkVars
  <2> QED BY <2>1, <2>3, <2>4, <2>5, <2>7 DEF IInv
<1> QED BY <1>1, <1>2, <1>3 DEF Next

\* The invariant holds in every reachable state.
LEMMA Invariance == Spec => []IInv
<1>1. Init => IInv
  BY InitIInv
<1>2. IInv /\ [Next]_vars => IInv'
  BY NextKeeps
<1> QED BY <1>1, <1>2, PTL DEF Spec

-----------------------------------------------------------------------------
(* What the invariant says of the alignment and of the row.                *)

\* Linked chunks tile both responses and carry the same text on both sides.
LEMMA ChunksAreTiles == ASSUME IInv PROVE ChunksTile /\ ChunksAgree
<1>1. Len(chunks) \in Nat /\ DOMAIN chunks = 1..Len(chunks)
  BY LenProperties DEF IInv, ChunksLink
<1>2. \A k \in 1..Len(chunks) : Link(k)
  BY DEF IInv, ChunksLink
<1>3. \A k \in 1..Len(chunks) : k - 1 \in 1..Len(chunks) \/ k = 1
  BY <1>1
<1>4. ASSUME Both, phase # "start", Len(chunks) > 0
      PROVE  chunks[Len(chunks)].s[2] = s_ptr /\ chunks[Len(chunks)].t[2] = t_ptr
  <2>1. Link(Len(chunks)) /\ chunks[Len(chunks)].text[2] = text_ptr
    BY <1>1, <1>2, <1>4 DEF IInv, ChunksLink
  <2> QED BY <1>4, <2>1 DEF Link, IInv, WalkStands
<1>5. ChunksTile
  <2> SUFFICES ASSUME phase # "start", NS > 0, NT > 0 PROVE ChunksTile
    BY DEF ChunksTile
  <2>1. ASSUME NEW k \in 1..Len(chunks)
        PROVE  /\ chunks[k].s[1] < chunks[k].s[2] /\ chunks[k].t[1] < chunks[k].t[2]
               /\ chunks[k].s[1] = (IF k = 1 THEN Boundary(student, 0) ELSE chunks[k - 1].s[2])
               /\ chunks[k].t[1] = (IF k = 1 THEN Boundary(teacher, 0) ELSE chunks[k - 1].t[2])
    <3>1. Link(k) /\ (k = 1 \/ k > 1)
      BY <1>1, <1>2
    <3> QED BY <3>1 DEF Link
  <2> QED BY <1>4, <2>1 DEF ChunksTile, Both
<1>6. ASSUME NEW k \in 1..Len(chunks)
      PROVE  LET c == chunks[k] IN
             /\ student.at[c.s[2]] = c.text[2] /\ teacher.at[c.t[2]] = c.text[2]
             /\ k > 1 => student.at[c.s[1]] = c.text[1] /\ teacher.at[c.t[1]] = c.text[1]
             /\ \A j \in c.text[1] + 1..c.text[2] : student.text[j] = teacher.text[j]
  <2> DEFINE c == chunks[k]
  <2>1. Link(k) /\ c \in Chunk
    BY <1>1, <1>2, ElementOfSeq DEF IInv, ChunksLink
  <2>2. c.text[1] \in Nat /\ c.text[2] \in Nat
    BY <2>1 DEF Chunk
  <2>3. /\ student.at[c.s[2]] = c.text[2] /\ teacher.at[c.t[2]] = c.text[2]
        /\ \A j \in 1..c.text[2] : student.text[j] = teacher.text[j]
    <3>1. InputsType /\ c.text[2] \in SharedOffsets
      BY <2>1 DEF IInv, Link
    <3> QED BY <2>1, <3>1, SharedAre DEF Link
  <2>4. ASSUME k > 1 PROVE student.at[c.s[1]] = c.text[1] /\ teacher.at[c.t[1]] = c.text[1]
    <3>1. Link(k - 1)
      BY <1>1, <1>2, <2>4
    <3>2. InputsType /\ chunks[k - 1].text[2] \in SharedOffsets
      BY <3>1 DEF IInv, Link
    <3> QED BY <2>1, <2>4, <3>1, <3>2, SharedAre DEF Link
  <2>5. \A j \in c.text[1] + 1..c.text[2] : j \in 1..c.text[2]
    BY <2>2
  <2> QED BY <2>3, <2>4, <2>5
<1>7. ChunksAgree
  BY <1>1, <1>6 DEF ChunksAgree
<1> QED BY <1>5, <1>7

\* A finished walk has used every shared offset, so equal texts end together.
LEMMA AlignmentCovers == ASSUME IInv PROVE FinestAlignment /\ EqualTextsResync
<1>1. ASSUME phase \in {"clip", "fill", "done"} PROVE todo = {}
  BY <1>1 DEF IInv, WalkStands
<1>2. FinestAlignment
  BY <1>1 DEF IInv, NothingIsLost, FinestAlignment, Both
<1>3. ASSUME phase \in {"clip", "fill", "done"}, NT > 0, student.text = teacher.text
      PROVE  fallback = 0 /\ (NS > 0 => t_ptr = NT)
  <2>1. NS \in Nat /\ NT \in Nat /\ fallback = NS - s_ptr
    BY <1>3, Numbers DEF IInv, EndIsRight
  <2>2. CASE NS = 0
    BY <1>3, <2>1, <2>2 DEF IInv, WalkStands, Both
  <2>3. CASE NS > 0
    <3>1. /\ s_ptr = Boundary(student, text_ptr) /\ t_ptr = Boundary(teacher, text_ptr)
          /\ student \in Decodings /\ teacher \in Decodings
      BY <1>3, <2>3 DEF IInv, WalkStands, InputsType, Both
    <3>2. Len(student.text) \in Nat /\ text_ptr \in Nat
      BY <3>1, Decoded, Numbers, BoundsAssumption
    <3>3. text_ptr = Len(student.text)
      <4>1. CASE Len(student.text) > 0
        BY <1>1, <1>3, <2>3, <4>1 DEF IInv, NothingIsLost, Both
      <4>2. CASE Len(student.text) = 0
        <5>1. \A o \in SharedOffsets : o <= Len(student.text) /\ o > 0 /\ o \in Nat
          BY SharedAre, BoundsAssumption DEF IInv
        <5>2. SharedOffsets = {}
          BY <4>2, <5>1
        <5> QED BY <1>3, <2>3, <4>2, <5>2 DEF IInv, WalkStands, Both
      <4> QED BY <3>2, <4>1, <4>2
    <3>4. s_ptr = NS /\ t_ptr = NT
      BY <1>3, <3>1, <3>3, LastBoundary DEF NS, NT
    <3> QED BY <2>1, <3>4
  <2> QED BY <2>1, <2>2, <2>3
<1>4. EqualTextsResync
  BY <1>3 DEF EqualTextsResync
<1> QED BY <1>2, <1>4

\* The chunks of the walk tile both responses and spell the same text, whatever
\* prefixes decode to; equal texts are covered to their end, and where prefixes only
\* grow every shared boundary ends a chunk.
THEOREM AlignmentExact == Spec => []AlignmentIsExact
<1>1. IInv => AlignmentIsExact
  BY ChunksAreTiles, AlignmentCovers DEF AlignmentIsExact
<1> QED BY <1>1, Invariance, PTL

\* The counts stay within what they count.
LEMMA CountsFit ==
  ASSUME IInv
  PROVE  trainable_tokens \in 0..NS /\ trainable_chunks \in 0..NS
<1>1. NS \in Nat /\ s_ptr \in 0..NS /\ Len(chunks) \in Nat /\ Len(chunks) <= s_ptr
  BY Numbers DEF IInv, SupervisedWhole
<1>2. 1 \in Int /\ NS \in Int /\ Len(chunks) \in Int
  BY <1>1
<1>3. Supervised \subseteq 1..NS
  BY DEF Supervised
<1>4. Used \subseteq 1..Len(chunks)
  BY SupervisedIsBehind DEF Used
<1>5. /\ IsFiniteSet(1..NS) /\ Cardinality(1..NS) = IF 1 > NS THEN 0 ELSE NS - 1 + 1
      /\ IsFiniteSet(1..Len(chunks))
      /\ Cardinality(1..Len(chunks)) = IF 1 > Len(chunks) THEN 0 ELSE Len(chunks) - 1 + 1
  BY <1>2, FS_Interval
<1>6. /\ Cardinality(Supervised) \in Nat /\ Cardinality(Supervised) <= Cardinality(1..NS)
      /\ Cardinality(Used) \in Nat /\ Cardinality(Used) <= Cardinality(1..Len(chunks))
  BY <1>3, <1>4, <1>5, FS_Subset, FS_CardinalityType
<1>7. Cardinality(Supervised) \in 0..NS /\ Cardinality(Used) \in 0..NS
  BY <1>1, <1>5, <1>6
<1> QED BY <1>1, <1>7 DEF IInv, RowIsFilled, Counted

\* The invariant gives every variable its range.
LEMMA TypesHold == ASSUME IInv PROVE TypeOK
<1>1. /\ student.at \in [0..NS -> -1..Len(student.text)]
      /\ teacher.at \in [0..NT -> -1..Len(teacher.text)]
  BY Decoded DEF IInv, InputsType, NS, NT
<1>2. /\ todo \subseteq 1..MaxChars /\ text_ptr \in 0..MaxChars
      /\ s_ptr \in 0..NS /\ t_ptr \in 0..NT /\ NS \in Nat /\ NT \in Nat /\ Len(chunks) \in Nat
  BY Numbers
<1>3. Len(chunks) <= NS /\ aligned \in [1..NS -> 0..Len(chunks)] /\ Len(chunks) <= s_ptr
  BY <1>2 DEF IInv, SupervisedWhole
<1>4. fallback \in 0..NS /\ truncated \in BOOLEAN
  <2>1. Truncates \in BOOLEAN
    BY DEF Truncates
  <2>2. fallback = 0 \/ fallback = NS - s_ptr
    BY DEF IInv, EndIsRight
  <2>3. truncated \in BOOLEAN
    BY <2>1 DEF IInv, EndIsRight
  <2> QED BY <1>2, <2>2, <2>3
<1>5. trainable_teacher \in 0..NT
  BY <1>2 DEF IInv
<1>6. row # <<>> => row \in [1..NS + specials -> 0..Len(chunks) \cup {Eos}]
  <2>1. Inf \in 0..Len(chunks)
    BY <1>2 DEF Inf
  <2> QED BY <2>1 DEF IInv, RowIsFilled
<1>7. clipped \in BOOLEAN /\ specials \in 0..2 /\ phase \in {"start", "walk", "clip", "fill", "done"}
  BY DEF IInv, InputsType
<1> QED BY <1>1, <1>2, <1>3, <1>4, <1>5, <1>6, <1>7, CountsFit DEF TypeOK

\* The row supervises whole chunks, agrees with the counts, and is empty when truncated.
LEMMA RowMatches == ASSUME IInv PROVE WholeChunks /\ StatsMatchRow /\ TruncatedIsSkipped
<1>1. NS \in Nat /\ specials \in Nat
  BY Numbers DEF IInv, InputsType
<1>2. CASE phase # "done"
  BY <1>2 DEF WholeChunks, StatsMatchRow, TruncatedIsSkipped
<1>3. CASE phase = "done" /\ truncated
  <2>1. row = [i \in 1..NS + specials |-> Inf] /\ trainable_tokens = 0 /\ trainable_chunks = 0
    BY <1>3 DEF IInv, RowIsFilled
  <2>2. \A i \in 1..NS : row[i] = Inf
    BY <1>1, <2>1
  <2>3. {i \in 1..NS : row[i] # Inf} = {} /\ {row[i] : i \in 1..NS} \ {Inf} = {}
    BY <2>2
  <2>4. StatsMatchRow
    BY <2>1, <2>3, FS_EmptySet DEF StatsMatchRow
  <2> QED BY <2>1, <2>2, <2>4 DEF WholeChunks, TruncatedIsSkipped
<1>4. CASE phase = "done" /\ ~truncated
  <2>1. (\A i \in 1..NS : row[i] = aligned[i]) /\ Counted
    BY <1>4 DEF IInv, RowIsFilled
  <2>2. {i \in 1..NS : row[i] # Inf} = Supervised /\ {row[i] : i \in 1..NS} \ {Inf} = Used
    BY <2>1 DEF Supervised, Used
  <2>3. ASSUME NEW i \in 1..NS, row[i] # Inf
        PROVE  {j \in 1..NS : row[j] = row[i]} = chunks[row[i]].s[1] + 1..chunks[row[i]].s[2]
    <3>1. aligned[i] = row[i] /\ aligned[i] \in 1..Len(chunks)
      BY <2>1, <2>3, SupervisedIsBehind
    <3>2. Link(aligned[i]) /\ chunks[aligned[i]] \in Chunk
      BY <3>1, ElementOfSeq DEF IInv, ChunksLink
    <3> DEFINE a == chunks[aligned[i]].s[1]
               b == chunks[aligned[i]].s[2]
    <3>3. a \in Nat /\ b \in Nat /\ b <= NS
      <4>1. a \in Nat /\ b \in Nat /\ b <= s_ptr
        BY <3>2 DEF Link, Chunk
      <4> QED BY <4>1, Numbers
    <3>4. \A j \in 1..NS : row[j] = row[i] <=> a < j /\ j <= b
      BY <2>1, <2>3, <3>1 DEF IInv, SupervisedWhole
    <3> HIDE DEF a, b
    <3>5. {j \in 1..NS : row[j] = row[i]} = a + 1..b
      BY <1>1, <3>3, <3>4
    <3> QED BY <3>1, <3>5 DEF a, b
  <2>4. ~(NS > 0 /\ (NT = 0 \/ Truncates))
    BY <1>4 DEF IInv, EndIsRight
  <2> QED BY <2>1, <2>2, <2>3, <2>4 DEF WholeChunks, StatsMatchRow, TruncatedIsSkipped, Counted
<1> QED BY <1>2, <1>3, <1>4

\* The row the loss reads supervises a chunk's tokens all or not at all, also when
\* the tail was clipped inside a chunk; the statistics are the row's own, and a
\* response whose teacher was cut short is not supervised.
THEOREM RowSound == Spec => []RowIsSound
<1>1. IInv => RowIsSound
  BY TypesHold, RowMatches DEF RowIsSound
<1> QED BY <1>1, Invariance, PTL
-----------------------------------------------------------------------------
(* The sandbox that scores code: any number of cases, attempts and permits.*)

\* What a thread came to, as its case's result is recorded.
Own(c) == IF thread[c].result = Raised THEN -1 ELSE thread[c].result

OwnStatus(c) == IF thread[c].result = Raised THEN "internal_error" ELSE StatusOf(Own(c))

Uncompiled(c) == thread[c].result = -4

\* Where each thread is, and how often it has called.
ThreadsInv ==
    /\ DOMAIN thread = Cases
    /\ \A c \in Cases :
         /\ DOMAIN thread[c] = {"at", "attempt", "result"}
         /\ thread[c].at \in {"waiting", "calling", "sleeping", "done", "collected"}
         /\ thread[c].attempt \in 1..MAX_RETRIES
         /\ thread[c].at = "sleeping" => thread[c].attempt < MAX_RETRIES

PermitsInv ==
    /\ permits \in Nat /\ others.waiting \in Nat /\ others.calling \in Nat
    /\ DOMAIN others = {"waiting", "calling"}
    /\ PermitsConserved

\* What has been collected of a case is its own.
CollectedInv ==
    /\ DOMAIN results = Cases /\ DOMAIN metadata = Cases
    /\ main = "collecting" =>
         \A c \in Cases : thread[c].at = "collected" =>
             results[c] = Own(c) /\ metadata[c] = OwnStatus(c)

\* The least case, of those collected, that did not compile.
FirstInv ==
    /\ first_compile_error_index = NoIndex =>
         \A c \in Cases : thread[c].at = "collected" => ~Uncompiled(c)
    /\ first_compile_error_index # NoIndex =>
         /\ first_compile_error_index \in Cases
         /\ thread[first_compile_error_index].at = "collected"
         /\ Uncompiled(first_compile_error_index)
         /\ \A c \in Cases : thread[c].at = "collected" /\ Uncompiled(c) =>
              first_compile_error_index <= c

ReturnInv ==
    /\ main \in {"collecting", "returned"}
    /\ main = "returned" => /\ \A c \in Cases : thread[c].at = "collected"
                            /\ ResultsAreOfTheirCases

SandboxInv == ThreadsInv /\ PermitsInv /\ CollectedInv /\ FirstInv /\ ReturnInv

\* The cases are numbers.
LEMMA CaseFacts ==
    ASSUME SandboxAssumption
    PROVE  /\ Cases \subseteq Nat /\ IsFiniteSet(Cases) /\ NoIndex \notin Cases
           /\ MAX_RETRIES \in Nat \ {0} /\ MaxConcurrent \in Nat \ {0} /\ OtherCalls \in Nat
<1>1. Cases = 0..Cardinality(Cases) - 1 /\ IsFiniteSet(Cases)
  BY DEF SandboxAssumption
<1>2. Cardinality(Cases) \in Nat
  BY <1>1, FS_CardinalityType
<1>3. Cases \subseteq Nat
  BY ONLY <1>1, <1>2
<1>4. NoIndex \notin Cases
  BY <1>3 DEF NoIndex
<1> QED  BY <1>1, <1>3, <1>4 DEF SandboxAssumption

\* Where what the invariant is about stands still.
LEMMA SandboxStands ==
    ASSUME SandboxInv, UNCHANGED <<thread, results, metadata, first_compile_error_index, main>>
    PROVE  ThreadsInv' /\ CollectedInv' /\ FirstInv' /\ ReturnInv'
BY DEF SandboxInv, ThreadsInv, CollectedInv, FirstInv, ReturnInv, ResultsAreOfTheirCases,
       Own, OwnStatus, Uncompiled

\* A thread that enters a call, and one that leaves it.
LEMMA InCallMoves ==
    ASSUME SandboxAssumption, NEW c \in Cases, NEW D, D \subseteq Cases
    PROVE  /\ IsFiniteSet(D)
           /\ Cardinality(D) \in Nat
           /\ c \notin D => Cardinality(D \cup {c}) = Cardinality(D) + 1
           /\ c \in D => Cardinality(D \ {c}) = Cardinality(D) - 1
<1>1. IsFiniteSet(D)
  BY CaseFacts, FS_Subset
<1> QED  BY <1>1, FS_CardinalityType, FS_AddElement, FS_RemoveElement

\* A thread that is not done moves on, and nothing is recorded.
LEMMA ThreadMoves ==
    ASSUME SandboxInv, NEW c \in Cases,
           thread[c].at \in {"waiting", "calling", "sleeping"},
           DOMAIN thread' = Cases, \A b \in Cases : b # c => thread'[b] = thread[b],
           DOMAIN thread'[c] = {"at", "attempt", "result"},
           thread'[c].at \in {"calling", "sleeping", "done"},
           thread'[c].attempt \in 1..MAX_RETRIES,
           thread'[c].at = "sleeping" => thread'[c].attempt < MAX_RETRIES,
           UNCHANGED <<results, metadata, first_compile_error_index, main>>
    PROVE  ThreadsInv' /\ CollectedInv' /\ FirstInv' /\ ReturnInv'
<1>1. ThreadsInv'
  BY DEF SandboxInv, ThreadsInv
<1>2. main = "collecting" /\ main' = main
  BY DEF SandboxInv, ReturnInv
<1>3. \A b \in Cases : thread'[b].at = "collected" => b # c /\ thread'[b] = thread[b]
  OBVIOUS
<1>4. CollectedInv'
  BY <1>2, <1>3 DEF SandboxInv, CollectedInv, Own, OwnStatus
<1>5. FirstInv'
  <2>1. first_compile_error_index # NoIndex => first_compile_error_index # c
    BY DEF SandboxInv, FirstInv
  <2> QED  BY <1>3, <2>1 DEF SandboxInv, FirstInv, Uncompiled
<1>6. ReturnInv'
  BY <1>2 DEF ReturnInv
<1> QED  BY <1>1, <1>4, <1>5, <1>6

\* Every step of a thread.
LEMMA ThreadKeeps ==
    ASSUME SandboxAssumption, SandboxInv, NEW c \in Cases, Thread(c)
    PROVE  SandboxInv'
<1>1. /\ DOMAIN thread = Cases /\ DOMAIN thread[c] = {"at", "attempt", "result"}
      /\ thread[c].attempt \in 1..MAX_RETRIES /\ MAX_RETRIES \in Nat
      /\ thread[c].at = "sleeping" => thread[c].attempt < MAX_RETRIES
  BY CaseFacts DEF SandboxInv, ThreadsInv
<1>2. /\ permits \in Nat /\ others.calling \in Nat
      /\ permits + Cardinality(InCall) + others.calling = MaxConcurrent
  BY DEF SandboxInv, PermitsInv, PermitsConserved
<1>3. InCall \subseteq Cases
  BY DEF InCall
<1>4. /\ Cardinality(InCall) \in Nat
      /\ c \notin InCall => Cardinality(InCall \cup {c}) = Cardinality(InCall) + 1
      /\ c \in InCall => Cardinality(InCall \ {c}) = Cardinality(InCall) - 1
  BY <1>3, InCallMoves
<1>5. ASSUME /\ permits' \in Nat /\ UNCHANGED others
             /\ permits' + Cardinality(InCall') = permits + Cardinality(InCall)
             /\ Cardinality(InCall') \in Nat
      PROVE  PermitsInv'
  <2>1. permits' + Cardinality(InCall') + others.calling = MaxConcurrent
    BY ONLY <1>2, <1>4, <1>5
  <2>2. PermitsConserved'
    BY <1>5, <2>1 DEF PermitsConserved
  <2> QED  BY <1>5, <2>2 DEF PermitsInv, SandboxInv
<1>6. CASE Acquire(c)
  <2>1. /\ thread[c].at = "waiting" /\ permits > 0 /\ permits' = permits - 1
        /\ thread' = [thread EXCEPT ![c].at = "calling"]
        /\ UNCHANGED <<says, others, results, metadata, first_compile_error_index, main>>
    BY <1>6 DEF Acquire
  <2>2. /\ DOMAIN thread' = Cases /\ \A b \in Cases : b # c => thread'[b] = thread[b]
        /\ DOMAIN thread'[c] = {"at", "attempt", "result"}
        /\ thread'[c].at = "calling" /\ thread'[c].attempt = thread[c].attempt
    BY <1>1, <2>1
  <2>3. ThreadsInv' /\ CollectedInv' /\ FirstInv' /\ ReturnInv'
    BY <1>1, <2>1, <2>2, ThreadMoves
  <2>4. c \notin InCall /\ InCall' = InCall \cup {c}
    BY <2>1, <2>2 DEF InCall
  <2>5. PermitsInv'
    BY <1>2, <1>4, <1>5, <2>1, <2>4
  <2> QED  BY <2>3, <2>5 DEF SandboxInv
<1>7. ASSUME NEW answer, thread[c].at = "calling", Finish(c, answer) PROVE SandboxInv'
  <2>1. /\ permits' = permits + 1
        /\ thread' = [thread EXCEPT ![c].at = "done", ![c].result = answer]
        /\ UNCHANGED <<says, others, results, metadata, first_compile_error_index, main>>
    BY <1>7 DEF Finish
  <2>2. /\ DOMAIN thread' = Cases /\ \A b \in Cases : b # c => thread'[b] = thread[b]
        /\ DOMAIN thread'[c] = {"at", "attempt", "result"}
        /\ thread'[c].at = "done" /\ thread'[c].attempt = thread[c].attempt
    BY <1>1, <2>1
  <2>3. ThreadsInv' /\ CollectedInv' /\ FirstInv' /\ ReturnInv'
    BY <1>1, <1>7, <2>1, <2>2, ThreadMoves
  <2>4. c \in InCall /\ InCall' = InCall \ {c}
    BY <1>7, <2>2 DEF InCall
  <2>5. PermitsInv'
    <3>1. Cardinality(InCall') \in Nat
      BY <1>3, <2>4, InCallMoves
    <3> QED  BY <1>2, <1>4, <1>5, <2>1, <2>4, <3>1
  <2> QED  BY <2>3, <2>5 DEF SandboxInv
<1>8. ASSUME thread[c].at = "calling", thread[c].attempt < MAX_RETRIES, Retry(c) PROVE SandboxInv'
  <2>1. /\ thread' = [thread EXCEPT ![c].at = "sleeping"]
        /\ UNCHANGED <<says, permits, others, results, metadata, first_compile_error_index, main>>
    BY <1>8 DEF Retry
  <2>2. /\ DOMAIN thread' = Cases /\ \A b \in Cases : b # c => thread'[b] = thread[b]
        /\ DOMAIN thread'[c] = {"at", "attempt", "result"}
        /\ thread'[c].at = "sleeping" /\ thread'[c].attempt = thread[c].attempt
    BY <1>1, <2>1
  <2>3. ThreadsInv' /\ CollectedInv' /\ FirstInv' /\ ReturnInv'
    BY <1>1, <1>8, <2>1, <2>2, ThreadMoves
  <2>4. InCall' = InCall
    BY <1>8, <2>2 DEF InCall
  <2>5. PermitsInv'
    BY <1>2, <1>4, <1>5, <2>1, <2>4
  <2> QED  BY <2>3, <2>5 DEF SandboxInv
<1>9. CASE Wakes(c)
  <2>1. /\ thread[c].at = "sleeping"
        /\ thread' = [thread EXCEPT ![c].at = "calling", ![c].attempt = @ + 1]
        /\ UNCHANGED <<says, permits, others, results, metadata, first_compile_error_index, main>>
    BY <1>9 DEF Wakes
  <2>2. /\ DOMAIN thread' = Cases /\ \A b \in Cases : b # c => thread'[b] = thread[b]
        /\ DOMAIN thread'[c] = {"at", "attempt", "result"}
        /\ thread'[c].at = "calling" /\ thread'[c].attempt = thread[c].attempt + 1
    BY <1>1, <2>1
  <2>3. thread'[c].attempt \in 1..MAX_RETRIES
    BY <1>1, <2>1, <2>2
  <2>4. ThreadsInv' /\ CollectedInv' /\ FirstInv' /\ ReturnInv'
    BY <2>1, <2>2, <2>3, ThreadMoves
  <2>5. InCall' = InCall
    BY <2>1, <2>2 DEF InCall
  <2>6. PermitsInv'
    BY <1>2, <1>4, <1>5, <2>1, <2>5
  <2> QED  BY <2>4, <2>6 DEF SandboxInv
<1>10. CASE Answered(c)
  BY <1>7, <1>10 DEF Answered
<1>11. CASE GatewayTimesOut(c)
  BY <1>7, <1>8, <1>11 DEF GatewayTimesOut
<1>12. CASE RequestFails(c)
  BY <1>7, <1>12 DEF RequestFails
<1> QED  BY <1>6, <1>9, <1>10, <1>11, <1>12 DEF Thread

\* The calls of other responses.
LEMMA OthersKeep ==
    ASSUME SandboxAssumption, SandboxInv, OtherAcquires \/ OtherReleases
    PROVE  SandboxInv'
<1>1. UNCHANGED <<thread, results, metadata, first_compile_error_index, main>>
  BY DEF OtherAcquires, OtherReleases
<1>2. /\ permits \in Nat /\ others.waiting \in Nat /\ others.calling \in Nat
      /\ DOMAIN others = {"waiting", "calling"}
      /\ permits + Cardinality(InCall) + others.calling = MaxConcurrent
  BY DEF SandboxInv, PermitsInv, PermitsConserved
<1>3. InCall' = InCall
  BY <1>1 DEF InCall
<1>4. /\ permits' \in Nat /\ others'.waiting \in Nat /\ others'.calling \in Nat
      /\ DOMAIN others' = {"waiting", "calling"}
      /\ permits' + others'.calling = permits + others.calling
  <2>1. CASE OtherAcquires
    BY <1>2, <2>1 DEF OtherAcquires
  <2>2. CASE OtherReleases
    BY <1>2, <2>2 DEF OtherReleases
  <2> QED  BY <2>1, <2>2
<1> DEFINE n == Cardinality(InCall)
<1>5. permits + n + others.calling = MaxConcurrent /\ Cardinality(InCall') = n
  BY <1>2, <1>3
<1>6. n \in Nat
  <2>1. InCall \subseteq Cases
    BY DEF InCall
  <2> QED  BY <2>1, CaseFacts, FS_Subset, FS_CardinalityType
<1> HIDE DEF n
<1>7. permits' + n + others'.calling = MaxConcurrent
  BY ONLY <1>2, <1>4, <1>5, <1>6
<1> QED  BY <1>1, <1>4, <1>5, <1>7, SandboxStands DEF SandboxInv, PermitsInv, PermitsConserved

\* A result that is collected takes the place of its case, whichever came before it.
LEMMA CollectKeeps ==
    ASSUME SandboxAssumption, SandboxInv, NEW c \in Cases, Collect(c)
    PROVE  SandboxInv'
<1>1. /\ main = "collecting" /\ thread[c].at = "done" /\ main' = main
      /\ thread' = [thread EXCEPT ![c].at = "collected"]
      /\ results' = [results EXCEPT ![c] = Own(c)]
      /\ metadata' = [metadata EXCEPT ![c] = OwnStatus(c)]
      /\ first_compile_error_index' = FirstCompileError(c, thread[c].result)
      /\ UNCHANGED <<says, permits, others>>
  <2>1. thread[c].result # Raised => Own(c) = thread[c].result
    BY DEF Own
  <2> QED  BY <2>1 DEF Collect, Own, OwnStatus
<1>2. /\ DOMAIN thread = Cases /\ DOMAIN thread[c] = {"at", "attempt", "result"}
      /\ DOMAIN results = Cases /\ DOMAIN metadata = Cases
  BY DEF SandboxInv, ThreadsInv, CollectedInv
<1>3. /\ DOMAIN thread' = Cases /\ \A b \in Cases : b # c => thread'[b] = thread[b]
      /\ DOMAIN thread'[c] = {"at", "attempt", "result"} /\ thread'[c].at = "collected"
      /\ thread'[c].attempt = thread[c].attempt /\ thread'[c].result = thread[c].result
  BY <1>1, <1>2
<1>4. ThreadsInv'
  BY <1>3 DEF SandboxInv, ThreadsInv
<1>5. PermitsInv'
  <2>1. InCall' = InCall
    BY <1>1, <1>3 DEF InCall
  <2> QED  BY <1>1, <2>1 DEF SandboxInv, PermitsInv, PermitsConserved
<1>6. ASSUME NEW b \in Cases
      PROVE  Own(b)' = Own(b) /\ OwnStatus(b)' = OwnStatus(b) /\ Uncompiled(b)' = Uncompiled(b)
  <2>1. thread'[b].result = thread[b].result
    BY <1>3
  <2> QED  BY <2>1 DEF Own, OwnStatus, Uncompiled
<1>7. CollectedInv'
  <2>1. DOMAIN results' = Cases /\ DOMAIN metadata' = Cases
    BY <1>1, <1>2
  <2>2. ASSUME NEW b \in Cases, thread'[b].at = "collected"
        PROVE  results'[b] = Own(b)' /\ metadata'[b] = OwnStatus(b)'
    <3>1. CASE b = c
      BY <3>1, <1>1, <1>2, <1>6
    <3>2. CASE b # c
      <4>1. results[b] = Own(b) /\ metadata[b] = OwnStatus(b)
        BY <3>2, <2>2, <1>1, <1>3 DEF SandboxInv, CollectedInv
      <4> QED  BY <3>2, <4>1, <1>1, <1>2, <1>6
    <3> QED  BY <3>1, <3>2
  <2> QED  BY <2>1, <2>2 DEF CollectedInv
<1>8. FirstInv'
  <2> DEFINE f == first_compile_error_index
  <2>1. \A b \in Cases : thread'[b].at = "collected" <=> thread[b].at = "collected" \/ b = c
    BY <1>3
  <2>2. /\ f = NoIndex => \A b \in Cases : thread[b].at = "collected" => ~Uncompiled(b)
        /\ f # NoIndex =>
             /\ f \in Cases /\ thread[f].at = "collected" /\ Uncompiled(f)
             /\ \A b \in Cases : thread[b].at = "collected" /\ Uncompiled(b) => f <= b
    BY DEF SandboxInv, FirstInv
  <2>3. c \in Nat /\ NoIndex \notin Cases /\ Cases \subseteq Nat
    BY CaseFacts
  <2>4. f' = IF Uncompiled(c) /\ (f = NoIndex \/ c < f) THEN c ELSE f
    BY <1>1 DEF FirstCompileError, Uncompiled
  <2> HIDE DEF f
  <2>5. f' = NoIndex => \A b \in Cases : thread'[b].at = "collected" => ~Uncompiled(b)
    BY <2>1, <2>2, <2>3, <2>4
  <2>6. f' # NoIndex =>
             /\ f' \in Cases /\ thread'[f'].at = "collected" /\ Uncompiled(f')
             /\ \A b \in Cases : thread'[b].at = "collected" /\ Uncompiled(b) => f' <= b
    <3>1. CASE Uncompiled(c) /\ (f = NoIndex \/ c < f)
      <4>1. f' = c
        BY <2>4, <3>1
      <4>2. ASSUME NEW b \in Cases, thread[b].at = "collected" /\ Uncompiled(b)
            PROVE  c <= b
        <5>1. f = NoIndex => ~Uncompiled(b)
          BY <2>2, <4>2
        <5>2. f # NoIndex => f \in Cases /\ f <= b
          BY <2>2, <4>2
        <5>3. f # NoIndex /\ c < f
          BY ONLY <3>1, <4>2, <5>1
        <5>4. f \in Nat /\ b \in Nat /\ c \in Nat /\ f <= b
          BY ONLY <2>3, <5>2, <5>3
        <5> QED  BY ONLY <5>3, <5>4
      <4> QED  BY <2>1, <2>3, <3>1, <4>1, <4>2
    <3>2. CASE ~(Uncompiled(c) /\ (f = NoIndex \/ c < f))
      <4>1. f' = f
        BY <2>4, <3>2
      <4>2. f # NoIndex => f \in Cases /\ thread[f].at = "collected" /\ Uncompiled(f)
        BY <2>2
      <4>3. ASSUME f # NoIndex, NEW b \in Cases, thread'[b].at = "collected" /\ Uncompiled(b)
            PROVE  f <= b
        <5>1. CASE b = c
          <6>1. f \in Nat /\ c \in Nat
            BY ONLY <2>3, <4>2, <4>3
          <6>2. ~(c < f)
            BY ONLY <3>2, <4>3, <5>1
          <6> QED  BY ONLY <5>1, <6>1, <6>2
        <5>2. CASE b # c
          BY <2>1, <2>2, <4>3, <5>2
        <5> QED  BY <5>1, <5>2
      <4> QED  BY <2>1, <4>1, <4>2, <4>3
    <3> QED  BY <3>1, <3>2
  <2>7. /\ f' = NoIndex => \A b \in Cases : thread'[b].at = "collected" => ~Uncompiled(b)'
        /\ f' # NoIndex =>
             /\ f' \in Cases /\ thread'[f'].at = "collected" /\ thread'[f'].result = -4
             /\ \A b \in Cases : thread'[b].at = "collected" /\ Uncompiled(b)' => f' <= b
    <3>1. f' \in Cases => thread'[f'].result = thread[f'].result
      BY <1>3
    <3> QED  BY <2>5, <2>6, <1>6, <3>1 DEF Uncompiled
  <2> QED  BY <2>7 DEF FirstInv, f, Uncompiled
<1>9. ReturnInv'
  BY <1>1 DEF ReturnInv
<1> QED  BY <1>4, <1>5, <1>7, <1>8, <1>9 DEF SandboxInv

\* When all threads have ended, what comes after a case that did not compile is skipped.
LEMMA PostProcessKeeps ==
    ASSUME SandboxAssumption, SandboxInv, PostProcess
    PROVE  SandboxInv'
<1> DEFINE f == first_compile_error_index
           skips(c) == f # NoIndex /\ c > f /\ results[c] # -4
           before(c) == \E b \in Cases : b < c /\ thread[b].result = -4
<1>1. /\ main = "collecting" /\ main' = "returned" /\ \A c \in Cases : thread[c].at = "collected"
      /\ results' = [c \in Cases |-> IF skips(c) THEN -4 ELSE results[c]]
      /\ metadata' = [c \in Cases |-> IF skips(c) THEN "compile_error_skipped" ELSE metadata[c]]
      /\ UNCHANGED <<says, thread, permits, others, first_compile_error_index>>
  BY DEF PostProcess
<1>2. ThreadsInv' /\ PermitsInv' /\ FirstInv'
  BY <1>1 DEF SandboxInv, ThreadsInv, PermitsInv, PermitsConserved, InCall, FirstInv, Uncompiled
<1>3. CollectedInv'
  BY <1>1 DEF CollectedInv
<1>4. ASSUME NEW c \in Cases
      PROVE  /\ results'[c] = IF before(c) THEN -4 ELSE Own(c)
             /\ metadata'[c] = IF before(c) /\ Own(c) # -4 THEN "compile_error_skipped" ELSE OwnStatus(c)
  <2>1. results[c] = Own(c) /\ metadata[c] = OwnStatus(c)
    BY <1>1 DEF SandboxInv, CollectedInv
  <2>2. f # NoIndex /\ c > f <=> before(c)
    <3>1. /\ f = NoIndex => \A b \in Cases : thread[b].result # -4
          /\ f # NoIndex => /\ f \in Cases /\ thread[f].result = -4
                            /\ \A b \in Cases : thread[b].result = -4 => f <= b
      BY <1>1 DEF SandboxInv, FirstInv, Uncompiled
    <3>2. Cases \subseteq Nat
      BY CaseFacts
    <3> HIDE DEF f
    <3>3. ASSUME f # NoIndex, c > f  PROVE before(c)
      BY <3>1, <3>3
    <3>4. ASSUME NEW b \in Cases, b < c, thread[b].result = -4  PROVE f # NoIndex /\ c > f
      <4>1. f # NoIndex /\ f \in Cases /\ f <= b
        BY <3>1, <3>4
      <4>2. f \in Nat /\ b \in Nat /\ c \in Nat
        BY <3>2, <4>1
      <4> QED  BY ONLY <4>1, <4>2, <3>4
    <3> QED  BY ONLY <3>3, <3>4
  <2> HIDE DEF f, before
  <2>3. skips(c) <=> before(c) /\ Own(c) # -4
    BY <2>1, <2>2
  <2>4. /\ results'[c] = IF skips(c) THEN -4 ELSE Own(c)
        /\ metadata'[c] = IF skips(c) THEN "compile_error_skipped" ELSE OwnStatus(c)
    BY <1>1, <2>1
  <2> HIDE DEF skips
  <2> QED  BY <2>3, <2>4
<1>5. ReturnInv'
  <2>1. ASSUME NEW c \in Cases
        PROVE  /\ results'[c] = IF before(c) THEN -4 ELSE Own(c)
               /\ metadata'[c] = IF before(c) /\ Own(c) # -4 THEN "compile_error_skipped"
                                 ELSE IF thread[c].result = Raised THEN "internal_error"
                                 ELSE StatusOf(Own(c))
    BY <1>4 DEF OwnStatus
  <2>2. ResultsAreOfTheirCases'
    BY <1>1, <2>1 DEF ResultsAreOfTheirCases, Own
  <2> QED  BY <1>1, <2>2 DEF ReturnInv
<1> QED  BY <1>2, <1>3, <1>5 DEF SandboxInv

\* Nothing has run yet.
LEMMA SandboxBegins == ASSUME SandboxAssumption, SandboxInit PROVE SandboxInv
<1> USE DEF SandboxInit
<1>1. /\ MAX_RETRIES \in Nat \ {0} /\ MaxConcurrent \in Nat \ {0} /\ OtherCalls \in Nat
  BY CaseFacts
<1>2. ThreadsInv
  BY <1>1 DEF ThreadsInv
<1>3. PermitsInv
  <2>1. InCall = {}
    BY DEF InCall
  <2>2. Cardinality(InCall) = 0
    BY <2>1, FS_EmptySet
  <2> QED  BY <1>1, <2>2 DEF PermitsInv, PermitsConserved
<1>4. CollectedInv /\ FirstInv /\ ReturnInv
  BY DEF CollectedInv, FirstInv, ReturnInv
<1> QED  BY <1>2, <1>3, <1>4 DEF SandboxInv

\* The semaphore's permits and the calls in progress, those of this response that wait for their
\* next attempt and those of others included, always add up; and when check_correctness returns,
\* each case has its own result unless the code had not compiled for an earlier one, whichever
\* thread ended first and whatever failed.
THEOREM SandboxResultsAreOwn ==
    ASSUME SandboxAssumption
    PROVE  SandboxSpec => [](SandboxTypeOK /\ PermitsConserved /\ ResultsAreOfTheirCases)
<1>1. SandboxInit => SandboxInv
  BY SandboxBegins
<1>2. SandboxInv /\ [SandboxNext]_sandboxVars => SandboxInv'
  <2> SUFFICES ASSUME SandboxInv, [SandboxNext]_sandboxVars PROVE SandboxInv'
    OBVIOUS
  <2>1. CASE UNCHANGED sandboxVars
    <3>1. PermitsInv'
      BY <2>1 DEF SandboxInv, PermitsInv, PermitsConserved, InCall, sandboxVars
    <3>2. ThreadsInv' /\ CollectedInv' /\ FirstInv' /\ ReturnInv'
      BY <2>1, SandboxStands DEF sandboxVars
    <3> QED  BY <3>1, <3>2 DEF SandboxInv
  <2>2. CASE SandboxNext
    BY <2>2, ThreadKeeps, OthersKeep, CollectKeeps, PostProcessKeeps DEF SandboxNext, Main
  <2> QED  BY <2>1, <2>2
<1>3. SandboxInv => SandboxTypeOK /\ PermitsConserved /\ ResultsAreOfTheirCases
  <2> SUFFICES ASSUME SandboxInv PROVE SandboxTypeOK /\ PermitsConserved /\ ResultsAreOfTheirCases
    OBVIOUS
  <2>1. permits \in 0..MaxConcurrent
    <3>1. InCall \subseteq Cases
      BY DEF InCall
    <3>2. Cardinality(InCall) \in Nat
      BY <3>1, CaseFacts, FS_Subset, FS_CardinalityType
    <3>3. /\ permits \in Nat /\ others.calling \in Nat /\ MaxConcurrent \in Nat
          /\ permits + Cardinality(InCall) + others.calling = MaxConcurrent
      BY CaseFacts DEF SandboxInv, PermitsInv, PermitsConserved
    <3> QED  BY <3>2, <3>3
  <2>2. SandboxTypeOK
    BY <2>1 DEF SandboxInv, ThreadsInv, FirstInv, SandboxTypeOK
  <2>3. ResultsAreOfTheirCases
    BY DEF SandboxInv, ReturnInv, ResultsAreOfTheirCases
  <2> QED  BY <2>2, <2>3 DEF SandboxInv, PermitsInv
<1> QED  BY <1>1, <1>2, <1>3, PTL DEF SandboxSpec

-----------------------------------------------------------------------------
(* Requests of SGLang: what a request is on its way.                       *)

Said == {"p", "g", "a", "t", "u"}
States == {"PENDING", "RUNNING", "TOOL_CALLING", "INTERACTING", "LEFT", "COMPLETED"}
Conversation ==
    [state : States, prompt : Seq(Said), ids : Seq(Said), mask : Seq({0, 1}),
     turns : Nat, userTurns : Nat, finish : {"none", "STOP", "LENGTH", "TOOL_CALL"},
     asked : Seq(Said), tools : {"none", "created", "released"}]

\* The mask has a place for every token, and marks the assistant's.
Marked(q) ==
    /\ q \in Conversation /\ Len(q.mask) = Len(q.ids)
    /\ \A i \in 1..Len(q.ids) : q.mask[i] = 1 <=> q.ids[i] = "a"

\* The prompt and what the engine was shown last are still in front; what a call of tools
\* follows is more than either.
InFront(q) ==
    /\ IsPrefix(q.prompt, q.ids) /\ IsPrefix(q.asked, q.ids)
    /\ q.state = "TOOL_CALLING" => Len(q.ids) > Len(q.prompt) /\ Len(q.ids) > Len(q.asked)

\* All but the tokens and their mask.
Alike(q, s) ==
    /\ s.state = q.state /\ s.prompt = q.prompt /\ s.turns = q.turns /\ s.userTurns = q.userTurns
    /\ s.finish = q.finish /\ s.asked = q.asked /\ s.tools = q.tools

\* A sequence is in front of another if it has no token that the other has not.
LEMMA PrefixFacts ==
  ASSUME NEW S, NEW s \in Seq(S), NEW t \in Seq(S)
  PROVE  IsPrefix(s, t) <=> Len(s) <= Len(t) /\ \A i \in 1..Len(s) : s[i] = t[i]
<1>1. CASE Len(s) <= Len(t)
  <2> DEFINE a == SubSeq(s, 1, Len(s))
             b == SubSeq(t, 1, Len(s))
  <2>1. /\ a \in Seq(S) /\ Len(a) = Len(s) /\ \A i \in 1..Len(s) : a[i] = s[i]
        /\ b \in Seq(S) /\ Len(b) = Len(s) /\ \A i \in 1..Len(s) : b[i] = t[i]
    BY <1>1
  <2>2. IsPrefix(s, t) <=> a = b
    BY <1>1 DEF IsPrefix
  <2> HIDE DEF a, b
  <2>3. a = b <=> \A i \in 1..Len(s) : a[i] = b[i]
    BY <2>1, SeqEqual
  <2> QED  BY <1>1, <2>1, <2>2, <2>3
<1>2. CASE ~(Len(s) <= Len(t))
  BY <1>2 DEF IsPrefix
<1> QED  BY <1>1, <1>2

\* What is in front stays there when more is said, and of two that are in front of the same
\* one is in front of the other.
LEMMA PrefixTwice ==
  ASSUME NEW S, NEW s \in Seq(S), NEW t \in Seq(S), NEW u \in Seq(S)
  PROVE  /\ IsPrefix(s, t) /\ IsPrefix(t, u) => IsPrefix(s, u)
         /\ IsPrefix(s, t) /\ IsPrefix(u, t) => IsPrefix(s, u) \/ IsPrefix(u, s)
         /\ IsPrefix(s, t) /\ IsPrefix(u, t) /\ Len(s) <= Len(u) => IsPrefix(s, u)
<1>1. Len(s) \in Nat /\ Len(t) \in Nat /\ Len(u) \in Nat
  OBVIOUS
<1>2. Len(s) <= Len(u) \/ Len(u) <= Len(s)
  BY ONLY <1>1
<1>3. ASSUME IsPrefix(s, t), IsPrefix(t, u)
      PROVE  IsPrefix(s, u)
  <2>1. Len(s) <= Len(t) /\ Len(t) <= Len(u) /\ Len(s) <= Len(u)
    <3>1. Len(s) <= Len(t) /\ Len(t) <= Len(u)
      BY <1>3, PrefixFacts
    <3> QED  BY ONLY <1>1, <3>1
  <2>2. \A i \in 1..Len(s) : i \in 1..Len(t)
    BY ONLY <1>1, <2>1
  <2> QED  BY <1>3, <2>1, <2>2, PrefixFacts
<1>4. ASSUME NEW v \in Seq(S), NEW w \in Seq(S), IsPrefix(v, t), IsPrefix(w, t), Len(v) <= Len(w)
      PROVE  IsPrefix(v, w)
  <2>1. \A i \in 1..Len(v) : i \in 1..Len(w)
    <3>1. Len(v) \in Nat /\ Len(w) \in Nat
      OBVIOUS
    <3> QED  BY ONLY <1>4, <3>1
  <2> QED  BY <1>4, <2>1, PrefixFacts
<1> QED  BY <1>2, <1>3, <1>4

\* More of a conversation.
LEMMA AddedFacts ==
  ASSUME NEW q, Marked(q), NEW tokens \in Seq(Said), NEW trained \in {0, 1},
         \A i \in 1..Len(tokens) : trained = 1 <=> tokens[i] = "a"
  PROVE  LET s == Added(q, tokens, trained)
         IN /\ Marked(s) /\ Alike(q, s) /\ IsPrefix(q.ids, s.ids)
            /\ Len(s.ids) = Len(q.ids) + Len(tokens)
<1> DEFINE more == Repeat(trained, Len(tokens))
           ids == q.ids \o tokens
           mask == q.mask \o more
           s == Added(q, tokens, trained)
           m == Len(q.ids)
           n == Len(tokens)
<1>1. /\ q \in Conversation /\ q.ids \in Seq(Said) /\ q.mask \in Seq({0, 1})
      /\ m \in Nat /\ n \in Nat /\ Len(q.mask) = m
  BY DEF Marked, Conversation
<1>2. more \in Seq({0, 1}) /\ Len(more) = n /\ \A i \in 1..n : more[i] = trained
  BY <1>1 DEF Repeat
<1> HIDE DEF more
<1>3. /\ ids \in Seq(Said) /\ Len(ids) = m + n
      /\ \A i \in 1..m + n : ids[i] = IF i <= m THEN q.ids[i] ELSE tokens[i - m]
  BY ONLY <1>1, tokens \in Seq(Said), ConcatProperties
<1>4. /\ mask \in Seq({0, 1}) /\ Len(mask) = m + n
      /\ \A i \in 1..m + n : mask[i] = IF i <= m THEN q.mask[i] ELSE more[i - m]
  <2> DEFINE k == Len(q.mask)
             j == Len(more)
  <2>1. /\ mask \in Seq({0, 1}) /\ Len(mask) = k + j
        /\ \A i \in 1..k + j : mask[i] = IF i <= k THEN q.mask[i] ELSE more[i - k]
    <3>1. q.mask \in Seq({0, 1}) /\ more \in Seq({0, 1})
      BY <1>1, <1>2
    <3> QED  BY ONLY <3>1
  <2>2. k = m /\ j = n
    BY <1>1, <1>2
  <2> HIDE DEF k, j, m, n
  <2> QED  BY ONLY <2>1, <2>2
<1> HIDE DEF ids, mask
<1>5. s = [q EXCEPT !.ids = ids, !.mask = mask]
  BY DEF Added, ids, mask, more
<1>6. s \in Conversation /\ s.ids = ids /\ s.mask = mask /\ Alike(q, s)
  BY <1>1, <1>3, <1>4, <1>5 DEF Conversation, Alike
<1> HIDE DEF s, m, n
<1>7. ASSUME NEW i \in 1..m + n PROVE mask[i] = 1 <=> ids[i] = "a"
  <2>1. CASE i <= m
    <3>1. i \in 1..m
      BY ONLY <1>1, <1>7, <2>1
    <3> QED  BY <1>3, <1>4, <2>1, <3>1 DEF Marked, m
  <2>2. CASE ~(i <= m)
    <3> DEFINE j == i - m
    <3>1. j \in 1..n
      BY ONLY <1>1, <1>7, <2>2
    <3>2. mask[i] = more[j] /\ ids[i] = tokens[j]
      BY <1>3, <1>4, <2>2
    <3> HIDE DEF j
    <3> QED  BY <1>2, <3>1, <3>2 DEF n
  <2> QED  BY <2>1, <2>2
<1>8. IsPrefix(q.ids, ids)
  <2>1. m <= m + n /\ \A i \in 1..m : i \in 1..m + n /\ i <= m
    BY ONLY <1>1
  <2> QED  BY <1>1, <1>3, <2>1, PrefixFacts DEF m
<1> QED  BY <1>3, <1>4, <1>6, <1>7, <1>8 DEF Marked, s, m, n

\* The tokens up to one, and the rest.
LEMMA UptoFacts ==
  ASSUME NEW S, NEW list \in Seq(S), NEW n \in Nat
  PROVE  LET u == Upto(list, n) IN
         /\ u \in Seq(S) /\ Len(u) <= n /\ Len(u) <= Len(list) /\ IsPrefix(u, list)
         /\ Len(u) = IF Len(list) < n THEN Len(list) ELSE n
         /\ \A i \in 1..Len(u) : u[i] = list[i]
<1> DEFINE k == IF Len(list) < n THEN Len(list) ELSE n
           u == Upto(list, n)
<1>1. Len(list) \in Nat /\ k \in 0..Len(list) /\ k <= n
  <2>1. Len(list) \in Nat
    OBVIOUS
  <2> QED  BY ONLY <2>1, n \in Nat
<1>2. u = SubSeq(list, 1, k)
  BY DEF Upto
<1> HIDE DEF k, u
<1>3. u \in Seq(S) /\ Len(u) = k /\ \A i \in 1..k : u[i] = list[i]
  BY <1>1, <1>2
<1>4. k <= Len(list)
  BY ONLY <1>1
<1>5. IsPrefix(u, list)
  BY <1>3, <1>4, PrefixFacts
<1> QED  BY <1>1, <1>3, <1>4, <1>5 DEF k, u

\* What is left of a list behind its first tokens.
LEMMA FromFacts ==
  ASSUME NEW S, NEW list \in Seq(S), NEW n \in Nat
  PROVE  LET v == From(list, n) IN
         /\ v \in Seq(S) /\ Len(v) = IF n <= Len(list) THEN Len(list) - n ELSE 0
         /\ \A i \in 1..Len(v) : n + i \in 1..Len(list) /\ v[i] = list[n + i]
<1> DEFINE v == From(list, n)
           l == Len(list)
           a == n + 1
<1>1. l \in Nat /\ a \in Nat
  OBVIOUS
<1>2. v = SubSeq(list, a, l)
  BY DEF From
<1>3. CASE n <= l
  <2>1. a \in 1..l + 1
    BY ONLY <1>1, <1>3, n \in Nat
  <2>2. v \in Seq(S) /\ Len(v) = l - a + 1 /\ \A i \in 1..l - a + 1 : v[i] = list[a + i - 1]
    BY <1>1, <1>2, <2>1
  <2>3. l - a + 1 = l - n /\ \A i \in 1..l - n : n + i \in 1..l /\ a + i - 1 = n + i
    <3> HIDE DEF l
    <3> QED  BY ONLY <1>1, <1>3, n \in Nat DEF a
  <2> HIDE DEF v, l
  <2> QED  BY <1>3, <2>2, <2>3 DEF l, v
<1>4. CASE ~(n <= l)
  <2>1. v = <<>>
    <3>1. a > l
      BY ONLY <1>1, <1>4, n \in Nat
    <3> QED  BY <1>1, <1>2, <3>1, SubSeqEmpty
  <2> HIDE DEF v, l
  <2> QED  BY <1>4, <2>1 DEF l, v
<1> QED  BY <1>3, <1>4

\* A request may lose the generation prompt at its end, and no other token.
LEMMA UnpromptedFacts ==
  ASSUME NEW q, Marked(q)
  PROVE  LET s == Unprompted(q)
         IN /\ Marked(s) /\ Alike(q, s) /\ IsPrefix(s.ids, q.ids)
            /\ Len(s.ids) >= Len(q.ids) - 1
<1> DEFINE s == Unprompted(q)
           l == Len(q.ids)
<1>1. q \in Conversation /\ q.ids \in Seq(Said) /\ q.mask \in Seq({0, 1}) /\ Len(q.mask) = l /\ l \in Nat
  BY DEF Marked, Conversation
<1>2. CASE EndsInPrompt(q)
  <2> DEFINE k == l - 1
             ids == SubSeq(q.ids, 1, k)
             mask == SubSeq(q.mask, 1, k)
  <2>1. l # 0
    BY <1>1, <1>2 DEF EndsInPrompt
  <2>2. k \in Nat /\ k <= l /\ 1..k \subseteq 1..l
    BY ONLY <1>1, <2>1
  <2>3. s = [q EXCEPT !.ids = ids, !.mask = mask]
    BY <1>1, <1>2 DEF Unprompted, Front
  <2> HIDE DEF k, l
  <2>4. /\ ids \in Seq(Said) /\ Len(ids) = k /\ \A i \in 1..k : ids[i] = q.ids[i]
        /\ mask \in Seq({0, 1}) /\ Len(mask) = k /\ \A i \in 1..k : mask[i] = q.mask[i]
    BY <1>1, <2>2 DEF l
  <2> HIDE DEF ids, mask
  <2>5. s \in Conversation /\ s.ids = ids /\ s.mask = mask /\ Alike(q, s)
    BY <1>1, <2>3, <2>4 DEF Conversation, Alike
  <2> HIDE DEF s
  <2>6. Marked(s)
    BY <1>1, <2>2, <2>4, <2>5 DEF Marked, l
  <2>7. IsPrefix(s.ids, q.ids)
    BY <1>1, <2>2, <2>4, <2>5, PrefixFacts DEF l
  <2>8. Len(s.ids) >= l - 1
    <3>1. Len(s.ids) = k /\ k = l - 1
      BY <2>4, <2>5 DEF k
    <3> QED  BY ONLY <1>1, <3>1
  <2> QED  BY <2>5, <2>6, <2>7, <2>8 DEF s, l
<1>3. CASE ~EndsInPrompt(q)
  <2>1. s = q
    BY <1>3 DEF Unprompted
  <2>2. IsPrefix(q.ids, q.ids)
    BY <1>1, PrefixFacts
  <2>3. l >= l - 1
    BY ONLY <1>1
  <2> QED  BY <2>1, <2>2, <2>3 DEF Alike
<1> QED  BY <1>2, <1>3

\* Before the engine is asked a request ends in a generation prompt.
LEMMA PromptedFacts ==
  ASSUME NEW q, Marked(q)
  PROVE  LET s == Prompted(q)
         IN Marked(s) /\ Alike(q, s) /\ IsPrefix(q.ids, s.ids)
<1>1. CASE EndsInPrompt(q)
  <2>1. IsPrefix(q.ids, q.ids)
    BY PrefixFacts DEF Marked, Conversation
  <2> QED  BY <1>1, <2>1 DEF Prompted, Alike
<1>2. CASE ~EndsInPrompt(q)
  <2>1. <<"g">> \in Seq(Said) /\ \A i \in 1..Len(<<"g">>) : 0 = 1 <=> <<"g">>[i] = "a"
    BY DEF Said
  <2>2. Prompted(q) = Added(q, <<"g">>, 0)
    BY <1>2 DEF Prompted
  <2> QED  BY <2>1, <2>2, AddedFacts
<1> QED  BY <1>1, <1>2

\* What tools say is not trained on, and takes no more away than a generation prompt.
LEMMA ToolMessagesFacts ==
  ASSUME NEW q, Marked(q), NEW n \in Nat
  PROVE  LET s == ToolMessages(q, n)
         IN /\ Marked(s) /\ Alike(q, s)
            /\ n = 0 => s = q
            /\ \A p \in Seq(Said) : IsPrefix(p, q.ids) /\ Len(p) < Len(q.ids) => IsPrefix(p, s.ids)
<1> DEFINE s == ToolMessages(q, n)
           u == Unprompted(q)
           said == Repeat("t", n)
<1>1. CASE n = 0
  <2>1. s = q
    BY <1>1 DEF ToolMessages
  <2> QED  BY <2>1 DEF Alike
<1>2. CASE n # 0
  <2>1. s = Added(u, said, 0)
    BY <1>2 DEF ToolMessages
  <2>2. Marked(u) /\ Alike(q, u) /\ IsPrefix(u.ids, q.ids) /\ Len(u.ids) >= Len(q.ids) - 1
    BY UnpromptedFacts
  <2>3. said \in Seq(Said) /\ \A i \in 1..Len(said) : 0 = 1 <=> said[i] = "a"
    <3>1. said \in Seq(Said) /\ Len(said) = n /\ \A i \in 1..n : said[i] = "t"
      BY DEF Repeat, Said
    <3> QED  BY <3>1
  <2> HIDE DEF u, said
  <2>4. Marked(s) /\ Alike(u, s) /\ IsPrefix(u.ids, s.ids)
    BY <2>1, <2>2, <2>3, AddedFacts
  <2> HIDE DEF s
  <2>5. q.ids \in Seq(Said) /\ u.ids \in Seq(Said) /\ s.ids \in Seq(Said)
    BY <2>2, <2>4 DEF Marked, Conversation
  <2>6. ASSUME NEW p \in Seq(Said), IsPrefix(p, q.ids), Len(p) < Len(q.ids)
        PROVE  IsPrefix(p, s.ids)
    <3>1. Len(p) \in Nat /\ Len(q.ids) \in Nat /\ Len(u.ids) \in Nat
      BY <2>5
    <3>2. Len(p) <= Len(u.ids)
      BY ONLY <2>2, <2>6, <3>1
    <3>3. IsPrefix(p, u.ids)
      BY <2>2, <2>5, <2>6, <3>2, PrefixTwice
    <3> QED  BY <2>4, <2>5, <3>3, PrefixTwice
  <2>7. Alike(q, s)
    BY <2>2, <2>4 DEF Alike
  <2> QED  BY <1>2, <2>4, <2>6, <2>7 DEF s
<1> QED  BY <1>1, <1>2

\* The final request is cut to its limit, and complete.
LEMMA FinalFacts ==
  ASSUME RolloutAssumption, NEW q, Marked(q)
  PROVE  LET s == Final(q)
         IN /\ Marked(s) /\ s.state = "COMPLETED" /\ s.prompt = q.prompt /\ s.turns = q.turns
            /\ s.userTurns = q.userTurns /\ s.asked = q.asked /\ s.tools = q.tools
            /\ IsPrefix(s.ids, q.ids)
<1> DEFINE s == Final(q)
           u == Unprompted(q)
           n == PromptLength + ResponseLength
           ids == Upto(u.ids, n)
           mask == Upto(u.mask, n)
<1>1. n \in Nat
  BY DEF RolloutAssumption
<1>2. Marked(u) /\ Alike(q, u) /\ IsPrefix(u.ids, q.ids)
  BY UnpromptedFacts
<1>3. s = [u EXCEPT !.state = "COMPLETED", !.ids = ids, !.mask = mask]
  BY DEF Final
<1> HIDE DEF n, u
<1>4. u \in Conversation /\ u.ids \in Seq(Said) /\ u.mask \in Seq({0, 1}) /\ Len(u.mask) = Len(u.ids)
  BY <1>2 DEF Marked, Conversation
<1>5. /\ ids \in Seq(Said) /\ IsPrefix(ids, u.ids) /\ \A i \in 1..Len(ids) : ids[i] = u.ids[i]
      /\ mask \in Seq({0, 1}) /\ \A i \in 1..Len(mask) : mask[i] = u.mask[i]
      /\ Len(mask) = Len(ids) /\ Len(ids) <= Len(u.ids)
  BY <1>1, <1>4, UptoFacts
<1> HIDE DEF ids, mask
<1>6. /\ s \in Conversation /\ s.ids = ids /\ s.mask = mask /\ s.state = "COMPLETED"
      /\ s.prompt = q.prompt /\ s.turns = q.turns /\ s.userTurns = q.userTurns /\ s.asked = q.asked
      /\ s.tools = q.tools
  BY <1>2, <1>3, <1>4, <1>5 DEF Conversation, States, Alike
<1> HIDE DEF s
<1>7. Marked(s)
  <2>1. 1..Len(ids) \subseteq 1..Len(u.ids)
    <3>1. Len(ids) \in Nat /\ Len(u.ids) \in Nat
      BY <1>4, <1>5
    <3> QED  BY ONLY <1>5, <3>1
  <2> QED  BY <1>2, <1>5, <1>6, <2>1 DEF Marked
<1>8. IsPrefix(s.ids, q.ids)
  <2>1. q.ids \in Seq(Said)
    BY DEF Marked, Conversation
  <2> QED  BY <1>2, <1>4, <1>5, <1>6, <2>1, PrefixTwice
<1> QED  BY <1>6, <1>7, <1>8 DEF s

-----------------------------------------------------------------------------
(* Requests of SGLang: what a coroutine does with its request.             *)

\* A request within its limits: a user answers only where there is a turn left for it.
Bounded(q) ==
    /\ Marked(q) /\ q.turns <= MaxAssistantTurns /\ q.userTurns <= MaxUserTurns
    /\ q.state = "INTERACTING" => q.userTurns < MaxUserTurns

\* A request whose coroutine goes on: it left the loop only with a reason to finish.
Going(q) ==
    /\ Bounded(q) /\ q.state # "COMPLETED" /\ q.tools # "released"
    /\ q.state = "LEFT" => q.finish \in {"STOP", "LENGTH"}

\* A request in another state or with another number of turns.
LEMMA GoingOn ==
  ASSUME NEW q, Marked(q), NEW s \in Conversation, s.ids = q.ids, s.mask = q.mask,
         s.turns <= MaxAssistantTurns, s.userTurns <= MaxUserTurns,
         s.state = "INTERACTING" => s.userTurns < MaxUserTurns,
         s.state # "COMPLETED", s.tools # "released",
         s.state = "LEFT" => s.finish \in {"STOP", "LENGTH"}
  PROVE  Going(s)
BY DEF Going, Bounded, Marked

\* The conversation that is left.
LEMMA LeftFacts ==
  ASSUME NEW q, Marked(q), q.turns <= MaxAssistantTurns, q.userTurns <= MaxUserTurns,
         q.tools # "released", NEW reason \in {"STOP", "LENGTH"}
  PROVE  /\ Going(Left(q, reason))
         /\ Left(q, reason).ids = q.ids /\ Left(q, reason).prompt = q.prompt
         /\ Left(q, reason).asked = q.asked /\ Left(q, reason).state = "LEFT"
<1> DEFINE s == Left(q, reason)
<1>1. q \in Conversation
  BY DEF Marked
<1>2. /\ s \in Conversation /\ s.state = "LEFT" /\ s.finish = reason /\ s.ids = q.ids
      /\ s.mask = q.mask /\ s.turns = q.turns /\ s.userTurns = q.userTurns /\ s.tools = q.tools
      /\ s.prompt = q.prompt /\ s.asked = q.asked
  BY <1>1 DEF Left, Conversation, States
<1> HIDE DEF s
<1>3. Going(s)
  BY <1>2, GoingOn
<1> QED  BY <1>2, <1>3 DEF s

\* No tool says anything when it is created.
Quiet == Tooled => Creations \subseteq {0}

\* The tools are created first.
LEMMA PendingStep ==
  ASSUME RolloutAssumption, NEW r \in Requests, Going(req[r]), Pending(r)
  PROVE  \E s : Goes(r, s) /\ Going(s) /\ (Quiet /\ InFront(req[r]) => InFront(s))
<1>1. PICK n \in IF Tooled THEN Creations ELSE {0} :
        Goes(r, [ToolMessages(req[r], n) EXCEPT
                   !.state = "RUNNING", !.tools = IF Tooled THEN "created" ELSE "none"])
  BY DEF Pending
<1> DEFINE q == req[r]
           m == ToolMessages(q, n)
           s == [m EXCEPT !.state = "RUNNING", !.tools = IF Tooled THEN "created" ELSE "none"]
<1>2. n \in Nat /\ (Quiet => n = 0)
  BY <1>1 DEF RolloutAssumption, Quiet
<1>3. /\ Marked(q) /\ q.turns <= MaxAssistantTurns /\ q.userTurns <= MaxUserTurns
  BY DEF Going, Bounded
<1> HIDE DEF q
<1>4. Marked(m) /\ Alike(q, m) /\ (n = 0 => m = q)
  BY <1>2, <1>3, ToolMessagesFacts
<1> HIDE DEF m
<1>5. Marked(m) /\ m.turns = q.turns /\ m.userTurns = q.userTurns
  BY <1>4 DEF Alike
<1>6. /\ s \in Conversation /\ s.ids = m.ids /\ s.mask = m.mask /\ s.state = "RUNNING"
      /\ s.turns = m.turns /\ s.userTurns = m.userTurns /\ s.tools \in {"created", "none"}
      /\ s.prompt = m.prompt /\ s.asked = m.asked
  BY <1>5 DEF Marked, Conversation, States
<1> HIDE DEF s
<1>7. Going(s)
  BY <1>3, <1>5, <1>6, GoingOn
<1>8. Quiet /\ InFront(q) => InFront(s)
  BY <1>2, <1>4, <1>6 DEF InFront
<1> QED  BY <1>1, <1>7, <1>8 DEF s, m, q

\* A conversation without room ends.
LEMMA NoRoomStep ==
  ASSUME RolloutAssumption, NEW r \in Requests, Going(req[r]), NoRoom(r)
  PROVE  \E s : Goes(r, s) /\ Going(s) /\ (InFront(req[r]) => InFront(s))
<1> DEFINE q == req[r]
           m == Prompted(q)
           s == Left(m, "LENGTH")
<1>1. Goes(r, s)
  BY DEF NoRoom
<1>2. Going(q) /\ Marked(q) /\ q \in Conversation
  BY DEF Going, Bounded, Marked
<1> HIDE DEF q
<1>3. Marked(m) /\ Alike(q, m) /\ IsPrefix(q.ids, m.ids) /\ m \in Conversation
  BY <1>2, PromptedFacts DEF Marked
<1> HIDE DEF m
<1>4. m.turns <= MaxAssistantTurns /\ m.userTurns <= MaxUserTurns /\ m.tools # "released"
  BY <1>2, <1>3 DEF Going, Bounded, Alike
<1>5. Going(s) /\ s.ids = m.ids /\ s.prompt = m.prompt /\ s.asked = m.asked /\ s.state = "LEFT"
  BY <1>3, <1>4, LeftFacts
<1> HIDE DEF s
<1>6. InFront(q) => InFront(s)
  <2>1. /\ q.ids \in Seq(Said) /\ m.ids \in Seq(Said) /\ q.prompt \in Seq(Said) /\ q.asked \in Seq(Said)
        /\ s.ids = m.ids /\ s.prompt = q.prompt /\ s.asked = q.asked
    BY <1>2, <1>3, <1>5 DEF Conversation, Alike
  <2> QED  BY <1>3, <1>5, <2>1, PrefixTwice DEF InFront
<1> QED  BY <1>1, <1>5, <1>6 DEF q

\* The engine answers: at most MaxAssistantTurns times, and a user's turn only where there is one.
LEMMA RunningStep ==
  ASSUME RolloutAssumption, NEW r \in Requests, Going(req[r]), Running(r)
  PROVE  \E s : Goes(r, s) /\ Going(s) /\ (InFront(req[r]) => InFront(s))
<1> DEFINE q0 == req[r]
           q == Prompted(q0)
           heard(n) == [Added(q, Repeat("a", n), 1) EXCEPT !.turns = @ + 1, !.asked = q.ids]
<1>1. /\ q0.turns < MaxAssistantTurns /\ MaxAssistantTurns \in Nat /\ MaxUserTurns \in Nat
      /\ Drift \in Nat
  BY DEF Running, InLoop, RolloutAssumption
<1>2. PICK n \in 1..Room(q.ids), d \in 0..Drift :
        \/ Goes(r, Left(heard(n + d), "LENGTH"))
        \/ \E next \in AfterStop(heard(n + d)) : Goes(r, next)
  BY DEF Running
<1> DEFINE k == n + d
           more == Repeat("a", k)
           m == Added(q, more, 1)
           h == heard(k)
<1>3. k \in Nat /\ k >= 1
  <2>1. n \in Int /\ n >= 1 /\ d \in Nat
    BY <1>1, <1>2
  <2> QED  BY ONLY <2>1
<1>4. Going(q0) /\ Marked(q0) /\ q0 \in Conversation
  BY DEF Going, Bounded, Marked
<1> HIDE DEF q0
<1>5. Marked(q) /\ Alike(q0, q) /\ IsPrefix(q0.ids, q.ids) /\ q \in Conversation
  BY <1>4, PromptedFacts DEF Marked
<1> HIDE DEF q, k
<1>6. more \in Seq(Said) /\ Len(more) = k /\ \A i \in 1..Len(more) : 1 = 1 <=> more[i] = "a"
  <2>1. more \in Seq(Said) /\ Len(more) = k /\ \A i \in 1..k : more[i] = "a"
    BY <1>3 DEF Repeat, Said
  <2> QED  BY <2>1
<1> HIDE DEF more
<1>7. /\ Marked(m) /\ Alike(q, m) /\ IsPrefix(q.ids, m.ids) /\ m \in Conversation
      /\ Len(m.ids) = Len(q.ids) + k
  BY <1>5, <1>6, AddedFacts DEF Marked
<1>8. h = [m EXCEPT !.turns = m.turns + 1, !.asked = q.ids]
  BY DEF more
<1> HIDE DEF m, h
<1>9. /\ h \in Conversation /\ h.ids = m.ids /\ h.mask = m.mask /\ h.turns = q0.turns + 1
      /\ h.asked = q.ids /\ h.userTurns = q0.userTurns /\ h.tools = q0.tools /\ h.prompt = q0.prompt
  <2>1. /\ m.turns = q0.turns /\ m.userTurns = q0.userTurns /\ m.tools = q0.tools
        /\ m.prompt = q0.prompt
    BY <1>5, <1>7 DEF Alike
  <2>2. m.turns \in Nat /\ m.turns + 1 \in Nat /\ q.ids \in Seq(Said)
    <3>1. m.turns \in Nat /\ q.ids \in Seq(Said)
      BY <1>5, <1>7 DEF Conversation
    <3> QED  BY <3>1
  <2>3. /\ h \in Conversation /\ h.ids = m.ids /\ h.mask = m.mask /\ h.turns = m.turns + 1
        /\ h.asked = q.ids /\ h.userTurns = m.userTurns /\ h.tools = m.tools /\ h.prompt = m.prompt
    BY <1>7, <1>8, <2>2 DEF Conversation
  <2> QED  BY ONLY <2>1, <2>3
<1>10. /\ Marked(h) /\ h.turns <= MaxAssistantTurns /\ h.userTurns <= MaxUserTurns
       /\ h.tools # "released"
  <2>1. h.turns <= MaxAssistantTurns
    <3>1. q0.turns \in Nat
      BY <1>4 DEF Conversation
    <3>2. h.turns = q0.turns + 1
      BY <1>9
    <3> QED  BY ONLY <1>1, <3>1, <3>2
  <2> QED  BY <1>4, <1>7, <1>9, <2>1 DEF Marked, Going, Bounded
<1>11. InFront(q0) => /\ IsPrefix(h.prompt, h.ids) /\ IsPrefix(h.asked, h.ids)
                      /\ Len(h.ids) > Len(h.prompt) /\ Len(h.ids) > Len(h.asked)
  <2> SUFFICES ASSUME InFront(q0)
               PROVE  /\ IsPrefix(h.prompt, h.ids) /\ IsPrefix(h.asked, h.ids)
                      /\ Len(h.ids) > Len(h.prompt) /\ Len(h.ids) > Len(h.asked)
    OBVIOUS
  <2>1. /\ q0.prompt \in Seq(Said) /\ q0.ids \in Seq(Said) /\ q.ids \in Seq(Said) /\ m.ids \in Seq(Said)
    BY <1>4, <1>5, <1>7 DEF Conversation
  <2>2. IsPrefix(q0.prompt, q0.ids)
    BY DEF InFront
  <2>3. IsPrefix(q0.prompt, q.ids)
    BY <1>5, <2>1, <2>2, PrefixTwice
  <2>4. IsPrefix(q0.prompt, m.ids) /\ Len(q0.prompt) <= Len(q.ids)
    BY <1>7, <2>1, <2>3, PrefixTwice, PrefixFacts
  <2>5. Len(q0.prompt) \in Nat /\ Len(q.ids) \in Nat
    BY <2>1
  <2>6. Len(m.ids) > Len(q0.prompt) /\ Len(m.ids) > Len(q.ids)
    <3>1. Len(m.ids) = Len(q.ids) + k
      BY <1>7
    <3> QED  BY ONLY <1>3, <2>4, <2>5, <3>1
  <2> QED  BY <1>7, <1>9, <2>4, <2>6
<1>12. ASSUME NEW reason \in {"STOP", "LENGTH"}
       PROVE  Going(Left(h, reason)) /\ (InFront(q0) => InFront(Left(h, reason)))
  BY <1>10, <1>11, LeftFacts DEF InFront
<1>13. Going(CallsTools(h)) /\ (InFront(q0) => InFront(CallsTools(h)))
  <2> DEFINE s == CallsTools(h)
  <2>1. /\ s \in Conversation /\ s.ids = h.ids /\ s.mask = h.mask /\ s.state = "TOOL_CALLING"
        /\ s.turns = h.turns /\ s.userTurns = h.userTurns /\ s.tools = h.tools
        /\ s.prompt = h.prompt /\ s.asked = h.asked
    BY <1>9 DEF CallsTools, Conversation, States
  <2> HIDE DEF s
  <2>2. Going(s)
    BY <1>10, <2>1, GoingOn
  <2>3. InFront(q0) => InFront(s)
    BY <1>11, <2>1 DEF InFront
  <2> QED  BY <2>2, <2>3 DEF s
<1>14. Going(Speaks(h)) /\ (InFront(q0) => InFront(Speaks(h)))
  <2>1. CASE MayInteract(h)
    <3> DEFINE s == [h EXCEPT !.state = "INTERACTING", !.finish = "STOP"]
    <3>1. /\ s \in Conversation /\ s.ids = h.ids /\ s.mask = h.mask /\ s.state = "INTERACTING"
          /\ s.turns = h.turns /\ s.userTurns = h.userTurns /\ s.tools = h.tools
          /\ s.prompt = h.prompt /\ s.asked = h.asked
      BY <1>9 DEF Conversation, States
    <3>2. s.userTurns < MaxUserTurns
      BY <2>1, <3>1 DEF MayInteract
    <3> HIDE DEF s
    <3>3. Going(s)
      BY <1>10, <3>1, <3>2, GoingOn
    <3>4. InFront(q0) => InFront(s)
      BY <1>11, <3>1 DEF InFront
    <3> QED  BY <2>1, <3>3, <3>4 DEF s, Speaks
  <2>2. CASE ~MayInteract(h)
    BY <1>12, <2>2 DEF Speaks
  <2> QED  BY <2>1, <2>2
<1>15. CASE Goes(r, Left(h, "LENGTH"))
  BY <1>12, <1>15 DEF q0
<1>16. CASE \E next \in AfterStop(h) : Goes(r, next)
  <2>1. PICK next \in AfterStop(h) : Goes(r, next)
    BY <1>16
  <2>2. next \in {Speaks(h), CallsTools(h), Left(h, "STOP")}
    BY <2>1 DEF AfterStop
  <2> QED  BY <1>12, <1>13, <1>14, <2>1, <2>2 DEF q0
<1>17. Goes(r, Left(h, "LENGTH")) \/ \E next \in AfterStop(h) : Goes(r, next)
  BY <1>2 DEF h, k
<1> QED  BY <1>15, <1>16, <1>17

\* The tools answer, or end the conversation because there is no room for more.
LEMMA ToolCallingStep ==
  ASSUME RolloutAssumption, NEW r \in Requests, Going(req[r]), ToolCalling(r)
  PROVE  \E s : Goes(r, s) /\ Going(s) /\ (InFront(req[r]) => InFront(s))
<1> DEFINE q0 == req[r]
<1>1. PICK n \in Answers :
        LET q == ToolMessages(q0, n) IN
        Goes(r, IF Len(q.ids) >= MaxModelLen THEN Left(q, "STOP") ELSE [q EXCEPT !.state = "RUNNING"])
  BY DEF ToolCalling
<1> DEFINE q == ToolMessages(q0, n)
<1>2. n \in Nat /\ q0.state = "TOOL_CALLING"
  BY <1>1 DEF RolloutAssumption, ToolCalling
<1>3. Going(q0) /\ Marked(q0) /\ q0 \in Conversation
  BY DEF Going, Bounded, Marked
<1> HIDE DEF q0
<1>4. /\ Marked(q) /\ Alike(q0, q) /\ q \in Conversation
      /\ \A p \in Seq(Said) : IsPrefix(p, q0.ids) /\ Len(p) < Len(q0.ids) => IsPrefix(p, q.ids)
  BY <1>2, <1>3, ToolMessagesFacts DEF Marked
<1>5. Goes(r, IF Len(q.ids) >= MaxModelLen THEN Left(q, "STOP") ELSE [q EXCEPT !.state = "RUNNING"])
  BY <1>1
<1> HIDE DEF q
<1>6. q.turns <= MaxAssistantTurns /\ q.userTurns <= MaxUserTurns /\ q.tools # "released"
  BY <1>3, <1>4 DEF Going, Bounded, Alike
<1>7. InFront(q0) => IsPrefix(q.prompt, q.ids) /\ IsPrefix(q.asked, q.ids)
  <2> SUFFICES ASSUME InFront(q0) PROVE IsPrefix(q.prompt, q.ids) /\ IsPrefix(q.asked, q.ids)
    OBVIOUS
  <2>1. /\ IsPrefix(q0.prompt, q0.ids) /\ IsPrefix(q0.asked, q0.ids)
        /\ Len(q0.ids) > Len(q0.prompt) /\ Len(q0.ids) > Len(q0.asked)
    BY <1>2 DEF InFront
  <2>2. q0.prompt \in Seq(Said) /\ q0.asked \in Seq(Said) /\ q0.ids \in Seq(Said)
    BY <1>3 DEF Conversation
  <2>3. Len(q0.prompt) < Len(q0.ids) /\ Len(q0.asked) < Len(q0.ids)
    BY <2>1, <2>2
  <2>4. q.prompt = q0.prompt /\ q.asked = q0.asked
    BY <1>4 DEF Alike
  <2> QED  BY <1>4, <2>1, <2>2, <2>3, <2>4
<1>8. CASE Len(q.ids) >= MaxModelLen
  <2>1. Going(Left(q, "STOP")) /\ (InFront(q0) => InFront(Left(q, "STOP")))
    BY <1>4, <1>6, <1>7, LeftFacts DEF InFront
  <2> QED  BY <1>5, <1>8, <2>1 DEF q0
<1>9. CASE ~(Len(q.ids) >= MaxModelLen)
  <2> DEFINE s == [q EXCEPT !.state = "RUNNING"]
  <2>1. /\ s \in Conversation /\ s.ids = q.ids /\ s.mask = q.mask /\ s.state = "RUNNING"
        /\ s.turns = q.turns /\ s.userTurns = q.userTurns /\ s.tools = q.tools
        /\ s.prompt = q.prompt /\ s.asked = q.asked
    BY <1>4 DEF Conversation, States
  <2>2. Goes(r, s)
    BY <1>5, <1>9
  <2> HIDE DEF s
  <2>3. Going(s)
    BY <1>4, <1>6, <2>1, GoingOn
  <2>4. InFront(q0) => InFront(s)
    BY <1>7, <2>1 DEF InFront
  <2> QED  BY <2>2, <2>3, <2>4 DEF q0
<1> QED  BY <1>8, <1>9

\* A user answers, or not.
LEMMA InteractingStep ==
  ASSUME RolloutAssumption, NEW r \in Requests, Going(req[r]), Interacting(r)
  PROVE  \E s : Goes(r, s) /\ Going(s) /\ (InFront(req[r]) => InFront(s))
<1> DEFINE q0 == req[r]
           q == [q0 EXCEPT !.userTurns = @ + 1]
<1>1. \/ Goes(r, Left(q, "STOP"))
      \/ \E n \in Answers \ {0} :
           LET said == Added(q, Repeat("u", n), 0) IN
           Goes(r, IF Len(said.ids) >= MaxModelLen
                     THEN Left(said, "STOP") ELSE [said EXCEPT !.state = "RUNNING"])
  BY DEF Interacting
<1>2. Going(q0) /\ Marked(q0) /\ q0 \in Conversation /\ q0.state = "INTERACTING"
  BY DEF Going, Bounded, Marked, Interacting
<1> HIDE DEF q0
<1>3. /\ q \in Conversation /\ q.ids = q0.ids /\ q.mask = q0.mask /\ q.userTurns = q0.userTurns + 1
      /\ q.turns = q0.turns /\ q.tools = q0.tools /\ q.prompt = q0.prompt /\ q.asked = q0.asked
  <2>1. q0.userTurns \in Nat
    BY <1>2 DEF Conversation
  <2>2. q0.userTurns + 1 \in Nat /\ q = [q0 EXCEPT !.userTurns = q0.userTurns + 1]
    BY <2>1
  <2> HIDE DEF q
  <2> QED  BY <1>2, <2>2 DEF Conversation
<1> HIDE DEF q
<1>4. q.userTurns <= MaxUserTurns
  <2>1. q0.userTurns \in Nat /\ q0.userTurns < MaxUserTurns /\ MaxUserTurns \in Nat
    BY <1>2 DEF Going, Bounded, Conversation, RolloutAssumption
  <2> QED  BY ONLY <1>3, <2>1
<1>5. Marked(q) /\ q.turns <= MaxAssistantTurns /\ q.tools # "released"
  BY <1>2, <1>3 DEF Going, Bounded, Marked
<1>6. InFront(q0) => IsPrefix(q.prompt, q.ids) /\ IsPrefix(q.asked, q.ids)
  BY <1>3 DEF InFront
<1>7. CASE Goes(r, Left(q, "STOP"))
  <2>1. Going(Left(q, "STOP")) /\ (InFront(q0) => InFront(Left(q, "STOP")))
    BY <1>4, <1>5, <1>6, LeftFacts DEF InFront
  <2> QED  BY <1>7, <2>1 DEF q0
<1>8. ASSUME NEW n \in Answers \ {0},
             Goes(r, IF Len(Added(q, Repeat("u", n), 0).ids) >= MaxModelLen
                       THEN Left(Added(q, Repeat("u", n), 0), "STOP")
                       ELSE [Added(q, Repeat("u", n), 0) EXCEPT !.state = "RUNNING"])
      PROVE  \E s : Goes(r, s) /\ Going(s) /\ (InFront(q0) => InFront(s))
  <2> DEFINE more == Repeat("u", n)
             m == Added(q, more, 0)
  <2>1. more \in Seq(Said) /\ \A i \in 1..Len(more) : 0 = 1 <=> more[i] = "a"
    <3>1. n \in Nat
      BY <1>8 DEF RolloutAssumption
    <3>2. more \in Seq(Said) /\ Len(more) = n /\ \A i \in 1..n : more[i] = "u"
      BY <3>1 DEF Repeat, Said
    <3> QED  BY <3>2
  <2>2. Goes(r, IF Len(m.ids) >= MaxModelLen THEN Left(m, "STOP") ELSE [m EXCEPT !.state = "RUNNING"])
    BY <1>8
  <2> HIDE DEF more
  <2>3. Marked(m) /\ Alike(q, m) /\ IsPrefix(q.ids, m.ids) /\ m \in Conversation
    BY <1>5, <2>1, AddedFacts DEF Marked
  <2> HIDE DEF m
  <2>4. m.turns <= MaxAssistantTurns /\ m.userTurns <= MaxUserTurns /\ m.tools # "released"
    BY <1>4, <1>5, <2>3 DEF Alike
  <2>5. InFront(q0) => IsPrefix(m.prompt, m.ids) /\ IsPrefix(m.asked, m.ids)
    <3>1. q.ids \in Seq(Said) /\ m.ids \in Seq(Said) /\ q.prompt \in Seq(Said) /\ q.asked \in Seq(Said)
          /\ m.prompt = q.prompt /\ m.asked = q.asked
      BY <1>3, <2>3 DEF Conversation, Alike
    <3> QED  BY <1>6, <2>3, <3>1, PrefixTwice
  <2>6. CASE Len(m.ids) >= MaxModelLen
    <3>1. Going(Left(m, "STOP")) /\ (InFront(q0) => InFront(Left(m, "STOP")))
      BY <2>3, <2>4, <2>5, LeftFacts DEF InFront
    <3> QED  BY <2>2, <2>6, <3>1
  <2>7. CASE ~(Len(m.ids) >= MaxModelLen)
    <3> DEFINE s == [m EXCEPT !.state = "RUNNING"]
    <3>1. /\ s \in Conversation /\ s.ids = m.ids /\ s.mask = m.mask /\ s.state = "RUNNING"
          /\ s.turns = m.turns /\ s.userTurns = m.userTurns /\ s.tools = m.tools
          /\ s.prompt = m.prompt /\ s.asked = m.asked
      BY <2>3 DEF Conversation, States
    <3>2. Goes(r, s)
      BY <2>2, <2>7
    <3> HIDE DEF s
    <3>3. Going(s)
      BY <2>3, <2>4, <3>1, GoingOn
    <3>4. InFront(q0) => InFront(s)
      BY <2>5, <3>1 DEF InFront
    <3> QED  BY <3>2, <3>3, <3>4
  <2> QED  BY <2>6, <2>7
<1> QED  BY <1>1, <1>7, <1>8 DEF q0

\* The request as its row holds it: cut, so that what was in front may now be behind.
Cut(q) ==
    /\ IsPrefix(q.prompt, q.ids) \/ IsPrefix(q.ids, q.prompt)
    /\ IsPrefix(q.asked, q.ids) \/ IsPrefix(q.ids, q.asked)

\* Whatever a coroutine does in its loop, its request stays within its limits.
LEMMA LoopStep ==
  ASSUME RolloutAssumption, NEW r \in Requests, Going(req[r]),
         Pending(r) \/ NoRoom(r) \/ Running(r) \/ ToolCalling(r) \/ Interacting(r)
  PROVE  /\ \E s : Goes(r, s) /\ Going(s) /\ (Quiet /\ InFront(req[r]) => InFront(s))
         /\ DriverIdle
<1>1. DriverIdle
  BY DEF Pending, NoRoom, Running, ToolCalling, Interacting
<1> QED  BY <1>1, PendingStep, NoRoomStep, RunningStep, ToolCallingStep, InteractingStep

\* A coroutine that left its loop has a reason finalize knows: it returns a row, its tools released.
LEMMA FinishStep ==
  ASSUME RolloutAssumption, NEW r \in Requests, Going(req[r]), FinishRequest(r)
  PROVE  \E s : /\ Goes(r, s) /\ Ends(r, RowOf(s)) /\ Bounded(s) /\ s.tools # "created"
                /\ (InFront(req[r]) => Cut(s))
<1> DEFINE q0 == req[r]
           q == [q0 EXCEPT !.finish = FinishReason(q0),
                           !.tools = IF q0.tools = "created" THEN "released" ELSE q0.tools]
           s == Final(q)
<1>1. Runs(r) /\ ~InLoop(r)
  BY DEF FinishRequest
<1>2. IF q.finish \in {"STOP", "LENGTH"}
        THEN Goes(r, Final(q)) /\ Ends(r, RowOf(Final(q)))
        ELSE Goes(r, q) /\ Ends(r, Exception)
  BY DEF FinishRequest
<1>3. q0.state = "LEFT" \/ ~(q0.turns < MaxAssistantTurns)
  BY <1>1 DEF InLoop
<1>4. Going(q0) /\ Marked(q0) /\ q0 \in Conversation
  BY DEF Going, Bounded, Marked
<1> HIDE DEF q0
<1>5. q0.turns \in Nat /\ MaxAssistantTurns \in Nat
  BY <1>4 DEF Conversation, RolloutAssumption
<1>6. q0.turns >= MaxAssistantTurns <=> ~(q0.turns < MaxAssistantTurns)
  BY ONLY <1>5
<1>7. FinishReason(q0) \in {"STOP", "LENGTH"}
  <2>1. CASE q0.turns >= MaxAssistantTurns
    BY <2>1 DEF FinishReason
  <2>2. CASE ~(q0.turns >= MaxAssistantTurns)
    <3>1. q0.state = "LEFT"
      BY <1>3, <1>6, <2>2
    <3> QED  BY <1>4, <2>2, <3>1 DEF FinishReason, Going
  <2> QED  BY <2>1, <2>2
<1>8. /\ q \in Conversation /\ q.ids = q0.ids /\ q.mask = q0.mask /\ q.prompt = q0.prompt
      /\ q.asked = q0.asked /\ q.turns = q0.turns /\ q.userTurns = q0.userTurns
      /\ q.finish \in {"STOP", "LENGTH"} /\ q.tools # "created"
  BY <1>4, <1>7 DEF Conversation
<1> HIDE DEF q
<1>9. Marked(q)
  BY <1>4, <1>8 DEF Marked
<1>10. /\ Marked(s) /\ s.state = "COMPLETED" /\ s.prompt = q.prompt /\ s.turns = q.turns
       /\ s.userTurns = q.userTurns /\ s.asked = q.asked /\ s.tools = q.tools
       /\ IsPrefix(s.ids, q.ids)
  BY <1>9, FinalFacts
<1>11. Goes(r, s) /\ Ends(r, RowOf(s))
  BY <1>2, <1>8
<1> HIDE DEF s
<1>12. Bounded(s) /\ s.tools # "created"
  BY <1>4, <1>8, <1>10 DEF Bounded, Going
<1>13. InFront(q0) => Cut(s)
  <2>1. /\ q0.ids \in Seq(Said) /\ s.ids \in Seq(Said) /\ q0.prompt \in Seq(Said)
        /\ q0.asked \in Seq(Said) /\ IsPrefix(s.ids, q0.ids)
        /\ s.prompt = q0.prompt /\ s.asked = q0.asked
    BY <1>4, <1>8, <1>10 DEF Marked, Conversation
  <2> QED  BY <2>1, PrefixTwice DEF InFront, Cut
<1> QED  BY <1>11, <1>12, <1>13 DEF q0

\* A row holds as much of the response as fits, and of its mask the same.
LEMMA RowFacts ==
  ASSUME RolloutAssumption, NEW q, Marked(q)
  PROVE  LET held == RowOf(q) IN
         /\ held.response \in Seq(Said) /\ Len(held.response) = Len(held.mask)
         /\ Len(held.mask) \in Nat /\ Len(held.mask) <= ResponseLength
         /\ \A i \in 1..Len(held.mask) :
              /\ Len(q.prompt) + i \in 1..Len(q.ids) /\ held.response[i] = q.ids[Len(q.prompt) + i]
              /\ held.mask[i] = 1 <=> held.response[i] = "a"
<1> DEFINE n == Len(q.prompt)
           l == Len(q.ids)
           a == From(q.ids, n)
           b == From(q.mask, n)
           u == Upto(a, ResponseLength)
           v == Upto(b, ResponseLength)
<1>1. /\ q.ids \in Seq(Said) /\ q.mask \in Seq({0, 1}) /\ Len(q.mask) = l /\ n \in Nat /\ l \in Nat
      /\ \A i \in 1..l : q.mask[i] = 1 <=> q.ids[i] = "a"
  BY DEF Marked, Conversation
<1>2. ResponseLength \in Nat
  BY DEF RolloutAssumption
<1>3. RowOf(q).response = u /\ RowOf(q).mask = v
  BY DEF RowOf
<1> HIDE DEF n, l
<1>4. /\ a \in Seq(Said) /\ Len(a) = IF n <= l THEN l - n ELSE 0
      /\ \A i \in 1..Len(a) : n + i \in 1..l /\ a[i] = q.ids[n + i]
  BY <1>1, FromFacts DEF l
<1>5. /\ b \in Seq({0, 1}) /\ Len(b) = IF n <= l THEN l - n ELSE 0
      /\ \A i \in 1..Len(b) : n + i \in 1..l /\ b[i] = q.mask[n + i]
  BY <1>1, FromFacts
<1> HIDE DEF a, b
<1>6. /\ u \in Seq(Said) /\ Len(u) <= ResponseLength /\ Len(u) <= Len(a)
      /\ Len(u) = (IF Len(a) < ResponseLength THEN Len(a) ELSE ResponseLength)
      /\ \A i \in 1..Len(u) : u[i] = a[i]
  BY <1>2, <1>4, UptoFacts
<1>7. /\ v \in Seq({0, 1})
      /\ Len(v) = (IF Len(b) < ResponseLength THEN Len(b) ELSE ResponseLength)
      /\ \A i \in 1..Len(v) : v[i] = b[i]
  BY <1>2, <1>5, UptoFacts
<1> HIDE DEF u, v
<1>8. Len(a) = Len(b) /\ Len(u) = Len(v)
  BY ONLY <1>4, <1>5, <1>6, <1>7
<1>9. Len(u) \in Nat /\ \A i \in 1..Len(u) : i \in 1..Len(a)
  <2>1. Len(u) \in Nat /\ Len(a) \in Nat
    BY <1>4, <1>6
  <2> QED  BY ONLY <1>6, <2>1
<1>10. ASSUME NEW i \in 1..Len(u)
       PROVE  n + i \in 1..l /\ u[i] = q.ids[n + i] /\ (v[i] = 1 <=> u[i] = "a")
  <2>1. i \in 1..Len(a)
    BY <1>9
  <2>2. n + i \in 1..l /\ u[i] = q.ids[n + i] /\ v[i] = q.mask[n + i]
    BY <1>4, <1>5, <1>6, <1>7, <1>8, <2>1
  <2> QED  BY <1>1, <2>2
<1> QED  BY <1>3, <1>6, <1>8, <1>9, <1>10 DEF n, l

\* The row of a request that reads as its conversation reads so too.
LEMMA RowReads ==
  ASSUME RolloutAssumption, NEW q, Marked(q), Cut(q)
  PROVE  IsPrefix(q.prompt \o RowOf(q).response, q.ids) \/ RowOf(q).response = <<>>
<1> DEFINE p == q.prompt
           w == RowOf(q).response
           n == Len(q.prompt)
           k == Len(w)
           c == p \o w
<1>1. /\ w \in Seq(Said) /\ k \in Nat
      /\ \A i \in 1..k : n + i \in 1..Len(q.ids) /\ w[i] = q.ids[n + i]
  BY RowFacts
<1>2. p \in Seq(Said) /\ q.ids \in Seq(Said) /\ n \in Nat /\ Len(q.ids) \in Nat
  BY DEF Marked, Conversation
<1> HIDE DEF w
<1>3. CASE k = 0
  BY <1>1, <1>3 DEF w
<1>4. CASE k # 0
  <2>1. k \in 1..k
    BY ONLY <1>1, <1>4
  <2>2. n + k \in 1..Len(q.ids)
    BY <1>1, <2>1
  <2>3. n + k <= Len(q.ids) /\ n < Len(q.ids)
    <3> HIDE DEF n, k
    <3>1. n \in Nat /\ k \in Nat
      BY <1>1, <1>2
    <3> QED  BY ONLY <1>2, <1>4, <2>2, <3>1
  <2>4. IsPrefix(p, q.ids)
    <3>1. CASE IsPrefix(q.ids, p)
      BY <1>2, <2>3, <3>1, PrefixFacts
    <3> QED  BY <3>1 DEF Cut
  <2>5. \A i \in 1..n : p[i] = q.ids[i]
    BY <1>2, <2>4, PrefixFacts
  <2>6. /\ c \in Seq(Said) /\ Len(c) = n + k
        /\ \A i \in 1..n + k : c[i] = IF i <= n THEN p[i] ELSE w[i - n]
    <3>1. p \in Seq(Said) /\ w \in Seq(Said)
      BY <1>1, <1>2
    <3> QED  BY ONLY <3>1, ConcatProperties
  <2> HIDE DEF c, n, k, p
  <2>7. ASSUME NEW i \in 1..n + k PROVE c[i] = q.ids[i]
    <3>1. CASE i <= n
      <4>1. i \in 1..n
        BY ONLY <1>1, <1>2, <2>7, <3>1
      <4> QED  BY <2>5, <2>6, <3>1, <4>1
    <3>2. CASE ~(i <= n)
      <4> DEFINE j == i - n
      <4>1. j \in 1..k /\ n + j = i
        BY ONLY <1>1, <1>2, <2>7, <3>2
      <4>2. c[i] = w[j]
        BY <2>6, <3>2
      <4> HIDE DEF j
      <4> QED  BY <1>1, <4>1, <4>2
    <3> QED  BY <3>1, <3>2
  <2>8. IsPrefix(c, q.ids)
    BY <1>2, <2>3, <2>6, <2>7, PrefixFacts
  <2> QED  BY <2>8 DEF c, p, w
<1> QED  BY <1>3, <1>4

-----------------------------------------------------------------------------
(* Requests of SGLang: the coroutines and their driver.                    *)

\* What a request is like whose coroutine ended with an exception.
RaisedIn(q) ==
    /\ q.tools # "released"
    /\ q.state \in {"PENDING", "TOOL_CALLING", "INTERACTING"} \/ q.tools = "created"

\* What a coroutine returned is of the request it worked on: its row once the tools are released,
\* an exception of its tools or of its interaction, or padding.
Returned(r) ==
    \/ result[r] = NoRow
    \/ result[r] = Exception /\ RaisedIn(req[r])
    \/ result[r] = RowOf(req[r]) /\ req[r].tools # "created"
    \/ result[r] = PaddingRow(req[r])

CoroutineInv(r) == Bounded(req[r]) /\ (Runs(r) => Going(req[r])) /\ Returned(r)

\* What ended is in the order it ended, each once, and the driver goes on only while what it
\* counted are rows; it waits for nobody afterwards.
DriverInv ==
    /\ finished \in Seq(Requests) /\ counted \in 0..Len(finished) /\ IsInjective(finished)
    /\ \A i \in 1..Len(finished) : result[finished[i]].kind \in {"genuine", "raised"}
    /\ driver \in {"waiting", "gathering", "returned", "raised"}
    /\ driver # "raised" => \A i \in 1..counted : Genuine(finished[i])
    /\ driver # "waiting" => \A r \in Requests : ~Runs(r)
    /\ driver \in {"gathering", "returned"} => counted >= TargetCompletion
    /\ driver = "returned" => \A r \in Requests : result[r].kind # "raised"

RolloutInv ==
    /\ req = [r \in Requests |-> req[r]] /\ result = [r \in Requests |-> result[r]]
    /\ \A r \in Requests : CoroutineInv(r)
    /\ DriverInv

\* A request and its row read as the conversation did.
ReadsOn(r) == (Runs(r) => InFront(req[r])) /\ (Genuine(r) => Cut(req[r]))
ReadInv == \A r \in Requests : ReadsOn(r)

\* The kinds of what a coroutine returns.
LEMMA Kinds ==
  /\ NoRow.kind = "none" /\ Exception.kind = "raised"
  /\ \A q : RowOf(q).kind = "genuine" /\ PaddingRow(q).kind = "padding"
BY DEF NoRow, Exception, RowOf, PaddingRow

\* A request as it is handed in, all of it prompt.
LEMMA NewRequestFacts ==
  ASSUME RolloutAssumption, NEW n \in Prompts
  PROVE  Going(NewRequest(n)) /\ InFront(NewRequest(n))
<1> DEFINE q == NewRequest(n)
           p == PromptOf(n)
           zeros == Repeat(0, n)
<1>1. n \in Nat /\ n # 0 /\ MaxAssistantTurns \in Nat /\ MaxUserTurns \in Nat
  BY DEF RolloutAssumption
<1>2. p \in Seq(Said) /\ Len(p) = n /\ \A i \in 1..n : p[i] # "a"
  <2> DEFINE front == Repeat("p", n - 1)
             m == n - 1
  <2>1. m \in Nat /\ m + 1 = n
    BY ONLY <1>1
  <2>2. front \in Seq({"p"}) /\ Len(front) = m
    <3>1. front = [i \in 1..m |-> "p"]
      BY DEF Repeat
    <3> HIDE DEF front, m
    <3> QED  BY <2>1, <3>1
  <2>3. p = Append(front, "g")
    BY DEF PromptOf
  <2> HIDE DEF front, m
  <2>4. front \in Seq({"p", "g"})
    BY ONLY <2>2
  <2>5. /\ p \in Seq({"p", "g"}) /\ Len(p) = m + 1
    BY ONLY <2>2, <2>3, <2>4
  <2>6. p \in Seq(Said)
    BY ONLY <2>5 DEF Said
  <2>7. ASSUME NEW i \in 1..n PROVE p[i] # "a"
    <3>1. p[i] \in {"p", "g"}
      BY ONLY <2>1, <2>5, <2>7
    <3> QED  BY ONLY <3>1
  <2> QED  BY <2>1, <2>5, <2>6, <2>7
<1>3. zeros \in Seq({0, 1}) /\ Len(zeros) = n /\ \A i \in 1..n : zeros[i] = 0
  BY <1>1 DEF Repeat
<1> HIDE DEF p, zeros
<1>4. <<>> \in Seq(Said) /\ Len(<<>>) = 0
  OBVIOUS
<1>5. /\ q \in Conversation /\ q.ids = p /\ q.mask = zeros /\ q.prompt = p /\ q.asked = <<>>
      /\ q.turns = 0 /\ q.userTurns = 0 /\ q.state = "PENDING" /\ q.tools = "none"
  BY <1>2, <1>3, <1>4 DEF NewRequest, p, zeros, Conversation, States
<1> HIDE DEF q
<1>6. Marked(q)
  BY <1>2, <1>3, <1>5 DEF Marked
<1>7. Going(q)
  BY <1>1, <1>5, <1>6 DEF Going, Bounded
<1>8. InFront(q)
  <2>1. IsPrefix(p, p)
    BY <1>2, PrefixFacts
  <2>2. IsPrefix(<<>>, p)
    <3>1. Len(<<>>) <= Len(p) /\ \A i \in 1..Len(<<>>) : <<>>[i] = p[i]
      BY <1>1, <1>2, <1>4
    <3> QED  BY <1>2, <1>4, <3>1, PrefixFacts
  <2> QED  BY <1>5, <2>1, <2>2 DEF InFront
<1> QED  BY <1>7, <1>8 DEF q

\* At first every request is to be answered, and none is.
LEMMA RolloutInitInv == RolloutAssumption /\ RolloutInit => RolloutInv /\ ReadInv
<1> SUFFICES ASSUME RolloutAssumption, RolloutInit
             PROVE  RolloutInv /\ ReadInv
  OBVIOUS
<1>1. ASSUME NEW r \in Requests PROVE CoroutineInv(r) /\ ReadsOn(r)
  <2>1. result[r] = NoRow
    BY DEF RolloutInit
  <2>2. PICK n \in Prompts : req[r] = NewRequest(n)
    BY DEF RolloutInit
  <2>3. Going(req[r]) /\ InFront(req[r])
    BY <2>2, NewRequestFacts
  <2>4. ~Genuine(r)
    BY <2>1, Kinds DEF Genuine
  <2> QED  BY <2>1, <2>3, <2>4 DEF CoroutineInv, Going, Returned, ReadsOn
<1>2. req = [r \in Requests |-> req[r]] /\ result = [r \in Requests |-> result[r]]
  BY DEF RolloutInit
<1>3. DriverInv
  <2>1. finished = <<>> /\ counted = 0 /\ driver = "waiting"
    BY DEF RolloutInit
  <2>2. finished \in Seq(Requests) /\ Len(finished) = 0 /\ DOMAIN finished = {}
    BY <2>1
  <2> QED  BY <2>1, <2>2 DEF DriverInv, IsInjective
<1> QED  BY <1>1, <1>2, <1>3 DEF RolloutInv, ReadInv

\* What a coroutine does in its loop changes its request and nothing else.
LEMMA LoopInv ==
  ASSUME RolloutAssumption, RolloutInv, NEW r \in Requests, Runs(r), NEW s, Goes(r, s), Going(s),
         DriverIdle
  PROVE  RolloutInv' /\ (ReadInv /\ (InFront(req[r]) => InFront(s)) => ReadInv')
<1>1. /\ req' = [req EXCEPT ![r] = s] /\ req = [t \in Requests |-> req[t]]
      /\ UNCHANGED <<result, finished, counted, driver>>
  BY DEF Goes, DriverIdle, RolloutInv
<1>2. req' = [t \in Requests |-> req'[t]] /\ req'[r] = s /\ \A t \in Requests \ {r} : req'[t] = req[t]
  BY ONLY <1>1, r \in Requests
<1>3. ASSUME NEW t \in Requests PROVE CoroutineInv(t)'
  <2>1. CASE t = r
    <3>1. Bounded(req'[t]) /\ Going(req'[t]) /\ result'[t] = NoRow
      BY <1>1, <1>2, <2>1 DEF Going, Runs
    <3> QED  BY <3>1 DEF CoroutineInv, Returned
  <2>2. CASE t # r
    <3>1. req'[t] = req[t] /\ result'[t] = result[t]
      BY <1>1, <1>2, <2>2
    <3>2. CoroutineInv(t)
      BY DEF RolloutInv
    <3> QED  BY <3>1, <3>2 DEF CoroutineInv, Returned, Runs
  <2> QED  BY <2>1, <2>2
<1>4. DriverInv'
  <2>1. DriverInv
    BY DEF RolloutInv
  <2> QED  BY <1>1, <2>1 DEF DriverInv, Genuine, Runs
<1>5. result' = [t \in Requests |-> result'[t]]
  BY <1>1 DEF RolloutInv
<1>6. ASSUME ReadInv, InFront(req[r]) => InFront(s), NEW t \in Requests
      PROVE  ReadsOn(t)'
  <2>1. result'[t] = result[t] /\ ReadsOn(t) /\ ReadsOn(r)
    BY <1>1, <1>6 DEF ReadInv
  <2>2. CASE t = r
    <3>1. InFront(s) /\ ~Genuine(r)
      BY <1>6, <2>1, Kinds DEF ReadsOn, Runs, Genuine
    <3> QED  BY <1>2, <2>1, <2>2, <3>1 DEF ReadsOn, Genuine, Runs
  <2>3. CASE t # r
    <3>1. req'[t] = req[t]
      BY <1>2, <2>3
    <3> QED  BY <2>1, <3>1 DEF ReadsOn, Genuine, Runs
  <2> QED  BY <2>2, <2>3
<1>7. RolloutInv'
  BY <1>2, <1>3, <1>4, <1>5 DEF RolloutInv
<1>8. ReadInv /\ (InFront(req[r]) => InFront(s)) => ReadInv'
  BY <1>6 DEF ReadInv
<1> QED  BY <1>7, <1>8

\* A coroutine that ends is the next in the order, once.
LEMMA EndsInv ==
  ASSUME RolloutInv, NEW r \in Requests, Runs(r), NEW value, value.kind \in {"genuine", "raised"},
         Ends(r, value)
  PROVE  /\ DriverInv' /\ result' = [t \in Requests |-> result'[t]]
         /\ result'[r] = value /\ \A t \in Requests \ {r} : result'[t] = result[t]
<1> DEFINE n == Len(finished)
<1>1. /\ result' = [result EXCEPT ![r] = value] /\ finished' = Append(finished, r)
      /\ counted' = counted /\ driver' = driver /\ result = [t \in Requests |-> result[t]] /\ DriverInv
  BY DEF Ends, RolloutInv
<1>2. /\ result' = [t \in Requests |-> result'[t]] /\ result'[r] = value
      /\ \A t \in Requests \ {r} : result'[t] = result[t]
  BY ONLY <1>1, r \in Requests
<1>3. finished \in Seq(Requests) /\ n \in Nat /\ counted \in 0..n
  BY <1>1 DEF DriverInv
<1>4. /\ finished' \in Seq(Requests) /\ Len(finished') = n + 1
      /\ finished'[n + 1] = r /\ \A i \in 1..n : finished'[i] = finished[i]
  <2>1. /\ finished' = Append(finished, r) /\ finished \in Seq(Requests)
    BY <1>1, <1>3
  <2> QED  BY ONLY <2>1, r \in Requests, AppendProperties
<1>5. ASSUME NEW i \in 1..n
      PROVE  /\ finished[i] \in Requests /\ finished[i] # r /\ finished'[i] = finished[i]
             /\ result'[finished'[i]] = result[finished[i]]
             /\ result[finished[i]].kind \in {"genuine", "raised"}
  <2>1. finished[i] \in Requests
    BY <1>3
  <2>2. result[finished[i]].kind \in {"genuine", "raised"}
    BY <1>1 DEF DriverInv
  <2>3. finished[i] # r
    BY <2>2, Kinds DEF Runs
  <2> QED  BY <1>2, <1>4, <2>1, <2>2, <2>3
<1> HIDE DEF n
<1>6. 1..n + 1 = 1..n \cup {n + 1} /\ n + 1 \notin 1..n /\ counted \in 0..n + 1 /\ 1..counted \subseteq 1..n
  BY ONLY <1>3
<1>7. IsInjective(finished')
  <2>1. DOMAIN finished = 1..n /\ DOMAIN finished' = 1..n + 1
    <3>1. DOMAIN finished = 1..Len(finished) /\ DOMAIN finished' = 1..Len(finished')
      BY <1>3, <1>4
    <3> QED  BY <1>4, <3>1 DEF n
  <2>2. \A i, j \in 1..n : finished[i] = finished[j] => i = j
    BY <1>1, <2>1 DEF DriverInv, IsInjective
  <2>3. ASSUME NEW i \in 1..n + 1, NEW j \in 1..n + 1, finished'[i] = finished'[j] PROVE i = j
    <3>1. CASE i \in 1..n /\ j \in 1..n
      BY <1>5, <2>2, <2>3, <3>1
    <3>2. CASE i = n + 1 /\ j \in 1..n
      BY <1>4, <1>5, <2>3, <3>2
    <3>3. CASE i \in 1..n /\ j = n + 1
      BY <1>4, <1>5, <2>3, <3>3
    <3>4. CASE i = n + 1 /\ j = n + 1
      BY <3>4
    <3> QED  BY <1>6, <3>1, <3>2, <3>3, <3>4
  <2> QED  BY <2>1, <2>3 DEF IsInjective
<1>8. \A i \in 1..Len(finished') : result'[finished'[i]].kind \in {"genuine", "raised"}
  <2>1. ASSUME NEW i \in 1..n + 1 PROVE result'[finished'[i]].kind \in {"genuine", "raised"}
    <3>1. CASE i \in 1..n
      BY <1>5, <3>1
    <3>2. CASE i = n + 1
      BY <1>2, <1>4, <3>2
    <3> QED  BY <1>6, <3>1, <3>2
  <2> QED  BY <1>4, <2>1
<1>9. driver = "waiting"
  BY <1>1 DEF DriverInv
<1>10. driver' # "raised" => \A i \in 1..counted' : Genuine(finished[i])'
  <2>1. ASSUME NEW i \in 1..counted PROVE result'[finished'[i]].kind = "genuine"
    <3>1. Genuine(finished[i])
      BY <1>1, <1>9 DEF DriverInv
    <3> QED  BY <1>5, <1>6, <3>1 DEF Genuine
  <2> QED  BY <1>1, <2>1 DEF Genuine
<1>11. counted' \in 0..Len(finished') /\ driver' = "waiting"
  BY <1>1, <1>4, <1>6, <1>9
<1>12. DriverInv'
  BY <1>4, <1>7, <1>8, <1>10, <1>11 DEF DriverInv
<1> QED  BY <1>2, <1>12

\* A coroutine that finishes returns the row of its request.
LEMMA FinishInv ==
  ASSUME RolloutAssumption, RolloutInv, NEW r \in Requests, FinishRequest(r)
  PROVE  RolloutInv' /\ (ReadInv => ReadInv')
<1>1. Runs(r) /\ CoroutineInv(r) /\ Going(req[r]) /\ req = [t \in Requests |-> req[t]]
  BY DEF FinishRequest, RolloutInv, CoroutineInv
<1>2. PICK s : /\ Goes(r, s) /\ Ends(r, RowOf(s)) /\ Bounded(s) /\ s.tools # "created"
               /\ (InFront(req[r]) => Cut(s))
  BY <1>1, FinishStep
<1>3. RowOf(s).kind = "genuine"
  BY Kinds
<1>4. /\ DriverInv' /\ result' = [t \in Requests |-> result'[t]]
      /\ result'[r] = RowOf(s) /\ \A t \in Requests \ {r} : result'[t] = result[t]
  BY <1>1, <1>2, <1>3, EndsInv
<1>5. req' = [t \in Requests |-> req'[t]] /\ req'[r] = s /\ \A t \in Requests \ {r} : req'[t] = req[t]
  <2>1. req' = [req EXCEPT ![r] = s]
    BY <1>2 DEF Goes
  <2> QED  BY ONLY <1>1, <2>1, r \in Requests
<1>6. ASSUME NEW t \in Requests PROVE CoroutineInv(t)' /\ (ReadInv => ReadsOn(t)')
  <2>1. CASE t = r
    <3>1. result'[t] = RowOf(req'[t]) /\ req'[t] = s /\ ~Runs(t)' /\ Genuine(t)'
      BY <1>3, <1>4, <1>5, <2>1, Kinds DEF Runs, Genuine
    <3>2. CoroutineInv(t)'
      BY <1>2, <3>1 DEF CoroutineInv, Returned
    <3>3. ReadInv => ReadsOn(t)'
      BY <1>1, <1>2, <3>1 DEF ReadInv, ReadsOn
    <3> QED  BY <3>2, <3>3
  <2>2. CASE t # r
    <3>1. req'[t] = req[t] /\ result'[t] = result[t]
      BY <1>4, <1>5, <2>2
    <3>2. CoroutineInv(t) /\ (ReadInv => ReadsOn(t))
      BY DEF RolloutInv, ReadInv
    <3>3. CoroutineInv(t)'
      BY <3>1, <3>2 DEF CoroutineInv, Returned, Runs
    <3> QED  BY <3>1, <3>2, <3>3 DEF ReadsOn, Runs, Genuine
  <2> QED  BY <2>1, <2>2
<1>7. RolloutInv'
  BY <1>4, <1>5, <1>6 DEF RolloutInv
<1> QED  BY <1>6, <1>7 DEF ReadInv

\* A tool or an interaction that raises ends its coroutine, the request as it stood.
LEMMA RaiseInv ==
  ASSUME RolloutAssumption, RolloutInv, NEW r \in Requests, CallRaises(r)
  PROVE  RolloutInv' /\ (ReadInv => ReadInv')
<1>1. /\ Runs(r) /\ CoroutineInv(r) /\ Going(req[r]) /\ req' = req /\ Ends(r, Exception)
      /\ req = [t \in Requests |-> req[t]]
      /\ req[r].state \in {"PENDING", "TOOL_CALLING", "INTERACTING"} \/ req[r].tools = "created"
  BY DEF CallRaises, InLoop, RolloutInv, CoroutineInv
<1>2. /\ DriverInv' /\ result' = [t \in Requests |-> result'[t]]
      /\ result'[r] = Exception /\ \A t \in Requests \ {r} : result'[t] = result[t]
  BY <1>1, Kinds, EndsInv
<1>3. ASSUME NEW t \in Requests PROVE CoroutineInv(t)' /\ (ReadInv => ReadsOn(t)')
  <2>1. CASE t = r
    <3>1. result'[t] = Exception /\ req'[t] = req[r] /\ ~Runs(t)' /\ ~Genuine(t)'
      BY <1>1, <1>2, <2>1, Kinds DEF Runs, Genuine
    <3>2. Bounded(req'[t]) /\ RaisedIn(req'[t])
      BY <1>1, <3>1 DEF Going, RaisedIn
    <3> QED  BY <3>1, <3>2 DEF CoroutineInv, Returned, ReadsOn
  <2>2. CASE t # r
    <3>1. req'[t] = req[t] /\ result'[t] = result[t]
      BY <1>1, <1>2, <2>2
    <3>2. CoroutineInv(t) /\ (ReadInv => ReadsOn(t))
      BY DEF RolloutInv, ReadInv
    <3>3. CoroutineInv(t)'
      BY <3>1, <3>2 DEF CoroutineInv, Returned, Runs
    <3> QED  BY <3>1, <3>2, <3>3 DEF ReadsOn, Runs, Genuine
  <2> QED  BY <2>1, <2>2
<1>4. RolloutInv'
  BY <1>1, <1>2, <1>3 DEF RolloutInv
<1> QED  BY <1>3, <1>4 DEF ReadInv

\* The driver takes the next that ended; the last it awaits, or one that raised, ends the others.
LEMMA AwaitInv ==
  ASSUME RolloutAssumption, RolloutInv, Await
  PROVE  RolloutInv' /\ (ReadInv => ReadInv')
<1> DEFINE n == Len(finished)
           next == finished[counted + 1]
           raised == result[next] = Exception
<1>1. /\ driver = "waiting" /\ counted < n /\ counted' = counted + 1 /\ req' = req /\ finished' = finished
      /\ DriverInv /\ finished \in Seq(Requests) /\ n \in Nat /\ counted \in 0..n
      /\ result = [r \in Requests |-> result[r]] /\ req = [r \in Requests |-> req[r]]
  BY DEF Await, RolloutInv, DriverInv
<1>2. IF raised \/ counted + 1 >= TargetCompletion
        THEN result' = Cancelled /\ driver' = IF raised THEN "raised" ELSE "gathering"
        ELSE UNCHANGED <<result, driver>>
  BY DEF Await
<1>3. TargetCompletion \in Nat
  <2>1. Cardinality(Requests) \in Nat
    BY FS_CardinalityType DEF RolloutAssumption
  <2> QED  BY <2>1 DEF RolloutAssumption
<1>4. /\ counted + 1 \in 1..n /\ counted + 1 \in 0..n
      /\ \A i \in 1..counted + 1 : i \in 1..n /\ (i \in 1..counted \/ i = counted + 1)
  <2> HIDE DEF n
  <2> QED  BY ONLY <1>1
<1>5. \A i \in 1..n : finished[i] \in Requests /\ result[finished[i]].kind \in {"genuine", "raised"}
  BY <1>1 DEF DriverInv
<1>6. next \in Requests /\ result[next].kind \in {"genuine", "raised"} /\ CoroutineInv(next)
  BY <1>4, <1>5 DEF RolloutInv
<1>7. ~raised => result[next].kind = "genuine"
  BY <1>6, Kinds DEF CoroutineInv, Returned
<1>8. \A i \in 1..counted : result[finished[i]].kind = "genuine"
  BY <1>1 DEF DriverInv, Genuine
<1>9. ~raised => \A i \in 1..counted + 1 : result[finished[i]].kind = "genuine"
  BY <1>4, <1>7, <1>8
<1> HIDE DEF raised, n, next
<1>10. CASE ~(raised \/ counted + 1 >= TargetCompletion)
  <2>1. result' = result /\ driver' = driver
    BY <1>2, <1>10
  <2>2. \A r \in Requests : CoroutineInv(r)'
    BY <1>1, <2>1 DEF RolloutInv, CoroutineInv, Returned, Runs
  <2>3. DriverInv'
    BY <1>1, <1>4, <1>9, <1>10, <2>1 DEF DriverInv, Genuine, n
  <2>4. RolloutInv'
    BY <1>1, <2>1, <2>2, <2>3 DEF RolloutInv
  <2> QED  BY <1>1, <2>1, <2>4 DEF ReadInv, ReadsOn, Runs, Genuine
<1>11. CASE raised \/ counted + 1 >= TargetCompletion
  <2>1. result' = Cancelled /\ driver' = IF raised THEN "raised" ELSE "gathering"
    BY <1>2, <1>11
  <2>2. result' = [r \in Requests |-> result'[r]]
        /\ \A r \in Requests : result'[r] = IF Runs(r) THEN PaddingRow(req[r]) ELSE result[r]
    BY <2>1 DEF Cancelled
  <2>3. ASSUME NEW r \in Requests
        PROVE  CoroutineInv(r)' /\ ~Runs(r)' /\ (ReadInv => ReadsOn(r)')
    <3>1. CoroutineInv(r) /\ req'[r] = req[r] /\ (ReadInv => ReadsOn(r))
      BY <1>1 DEF RolloutInv, ReadInv
    <3>2. CASE Runs(r)
      <4>1. result'[r] = PaddingRow(req'[r]) /\ ~Runs(r)' /\ ~Genuine(r)'
        BY <2>2, <3>1, <3>2, Kinds DEF Runs, Genuine
      <4> QED  BY <3>1, <4>1 DEF CoroutineInv, Returned, ReadsOn
    <3>3. CASE ~Runs(r)
      <4>1. result'[r] = result[r] /\ ~Runs(r)'
        BY <2>2, <3>3 DEF Runs
      <4> QED  BY <3>1, <4>1 DEF CoroutineInv, Returned, ReadsOn, Genuine
    <3> QED  BY <3>2, <3>3
  <2>4. \A i \in 1..n : result'[finished[i]] = result[finished[i]]
    BY <1>5, <2>2, Kinds DEF Runs
  <2>5. DriverInv'
    <3>1. \A i \in 1..Len(finished') : result'[finished'[i]].kind \in {"genuine", "raised"}
      BY <1>1, <1>5, <2>4 DEF n
    <3>2. driver' \in {"waiting", "gathering", "returned", "raised"} /\ driver' # "returned"
      BY <2>1
    <3>3. driver' # "raised" => \A i \in 1..counted' : Genuine(finished[i])'
      BY <1>1, <1>4, <1>9, <2>1, <2>4 DEF Genuine
    <3>4. driver' \in {"gathering", "returned"} => counted' >= TargetCompletion
      BY <1>1, <1>11, <2>1
    <3>5. /\ finished' \in Seq(Requests) /\ counted' \in 0..Len(finished') /\ IsInjective(finished')
      BY <1>1, <1>4 DEF DriverInv, n
    <3> QED  BY <2>3, <3>1, <3>2, <3>3, <3>4, <3>5 DEF DriverInv
  <2>6. RolloutInv'
    BY <1>1, <2>2, <2>3, <2>5 DEF RolloutInv
  <2> QED  BY <2>3, <2>6 DEF ReadInv
<1> QED  BY <1>10, <1>11

\* What was gathered is returned if nothing among it is an exception.
LEMMA GatherInv ==
  ASSUME RolloutInv, Gather
  PROVE  RolloutInv' /\ (ReadInv => ReadInv')
<1>1. /\ driver = "gathering" /\ UNCHANGED <<req, result, finished, counted>>
      /\ driver' = IF \E r \in Requests : result[r] = Exception THEN "raised" ELSE "returned"
  BY DEF Gather
<1>2. \A r \in Requests : CoroutineInv(r) /\ CoroutineInv(r)'
  BY <1>1 DEF RolloutInv, CoroutineInv, Returned, Runs
<1>3. driver' = "returned" => \A r \in Requests : result'[r].kind # "raised"
  <2> SUFFICES ASSUME driver' = "returned", NEW r \in Requests PROVE result[r].kind # "raised"
    BY <1>1
  <2>1. result[r] # Exception
    BY <1>1
  <2> QED  BY <1>2, <2>1, Kinds DEF CoroutineInv, Returned
<1>4. DriverInv'
  BY <1>1, <1>3 DEF RolloutInv, DriverInv, Genuine, Runs
<1>5. RolloutInv'
  BY <1>1, <1>2, <1>4 DEF RolloutInv
<1> QED  BY <1>1, <1>5 DEF ReadInv, ReadsOn, Runs, Genuine

\* Whatever happens, requests, what was returned of them and the driver stay in step; and while
\* no tool speaks when it is created, rows read as their conversations.
LEMMA RolloutNextInv ==
  RolloutAssumption /\ RolloutInv /\ [RolloutNext]_rollout
    => RolloutInv' /\ (Quiet /\ ReadInv => ReadInv')
<1> SUFFICES ASSUME RolloutAssumption, RolloutInv, [RolloutNext]_rollout
             PROVE  RolloutInv' /\ (Quiet /\ ReadInv => ReadInv')
  OBVIOUS
<1>1. ASSUME NEW r \in Requests,
             Pending(r) \/ NoRoom(r) \/ Running(r) \/ ToolCalling(r) \/ Interacting(r)
      PROVE  RolloutInv' /\ (Quiet /\ ReadInv => ReadInv')
  <2>1. Runs(r)
    BY <1>1 DEF Pending, NoRoom, Running, ToolCalling, Interacting, InLoop
  <2>2. Going(req[r])
    BY <2>1 DEF RolloutInv, CoroutineInv
  <2>3. DriverIdle
    BY <1>1, <2>2, LoopStep
  <2>4. PICK s : Goes(r, s) /\ Going(s) /\ (Quiet /\ InFront(req[r]) => InFront(s))
    BY <1>1, <2>2, LoopStep
  <2> QED  BY <2>1, <2>3, <2>4, LoopInv
<1>2. ASSUME NEW r \in Requests, Coroutine(r) \/ CallRaises(r)
      PROVE  RolloutInv' /\ (Quiet /\ ReadInv => ReadInv')
  BY <1>1, <1>2, FinishInv, RaiseInv DEF Coroutine
<1>3. CASE Driver
  BY <1>3, AwaitInv, GatherInv DEF Driver
<1>4. CASE UNCHANGED rollout
  <2>1. UNCHANGED <<req, result, finished, counted, driver>>
    BY <1>4 DEF rollout
  <2>2. \A r \in Requests : CoroutineInv(r)'
    BY <2>1 DEF RolloutInv, CoroutineInv, Returned, Runs
  <2>3. DriverInv'
    BY <2>1 DEF RolloutInv, DriverInv, Genuine, Runs
  <2>4. RolloutInv'
    BY <2>1, <2>2, <2>3 DEF RolloutInv
  <2> QED  BY <2>1, <2>4 DEF ReadInv, ReadsOn, Runs, Genuine
<1> QED  BY <1>2, <1>3, <1>4 DEF RolloutNext

\* A batch that is returned is whole.
LEMMA ReturnedBatch ==
  ASSUME RolloutAssumption, RolloutInv
  PROVE  BatchIsWhole
<1> SUFFICES ASSUME driver = "returned" PROVE BatchIsWhole
  BY DEF BatchIsWhole
<1>1. /\ DriverInv /\ \A r \in Requests : CoroutineInv(r) /\ ~Runs(r) /\ result[r].kind # "raised"
  BY DEF RolloutInv, DriverInv
<1>2. \A r \in Requests : result[r].kind \in {"genuine", "padding"}
  BY <1>1, Kinds DEF CoroutineInv, Returned, Runs
<1>3. Cardinality({r \in Requests : Genuine(r)}) >= TargetCompletion
  <2> DEFINE S == {r \in Requests : Genuine(r)}
             I == 1..counted
             f == [i \in I |-> finished[i]]
  <2>1. IsFiniteSet(S) /\ Cardinality(S) \in Nat
    BY FS_Subset, FS_CardinalityType DEF RolloutAssumption
  <2>2. /\ finished \in Seq(Requests) /\ counted \in 0..Len(finished) /\ IsInjective(finished)
        /\ counted >= TargetCompletion /\ \A i \in I : Genuine(finished[i])
    BY <1>1 DEF DriverInv
  <2>3. counted \in Nat /\ I \subseteq 1..Len(finished)
    <3>1. Len(finished) \in Nat
      BY <2>2
    <3> QED  BY ONLY <2>2, <3>1
  <2>4. \A i \in I : finished[i] \in S
    <3>1. \A i \in I : finished[i] \in Requests
      BY <2>2, <2>3
    <3> QED  BY <2>2, <3>1
  <2>5. \A i, j \in I : finished[i] = finished[j] => i = j
    BY <2>2, <2>3 DEF IsInjective
  <2>6. f \in Injection(I, S)
    <3> HIDE DEF I, S
    <3> QED  BY <2>4, <2>5 DEF Injection, IsInjective
  <2> HIDE DEF S, f
  <2>7. Cardinality(I) <= Cardinality(S)
    BY <2>1, <2>6, FS_Injection
  <2>8. Cardinality(I) = counted
    <3>1. Cardinality(1..counted) = IF 1 > counted THEN 0 ELSE counted - 1 + 1
      BY <2>3, FS_Interval
    <3> QED  BY <2>3, <3>1
  <2>9. TargetCompletion \in Nat
    <3>1. Cardinality(Requests) \in Nat
      BY FS_CardinalityType DEF RolloutAssumption
    <3> QED  BY <3>1 DEF RolloutAssumption
  <2>10. Cardinality(S) >= TargetCompletion
    <3>1. counted <= Cardinality(S)
      BY <2>7, <2>8
    <3> QED  BY ONLY <2>1, <2>2, <2>3, <2>9, <3>1
  <2> QED  BY <2>10 DEF S
<1>4. ASSUME NEW r \in Requests, result[r].kind = "padding", NEW i \in 1..ResponseLength
      PROVE  result[r].mask[i] = 0
  <2>1. result[r] = PaddingRow(req[r])
    BY <1>1, <1>4, Kinds DEF CoroutineInv, Returned
  <2> QED  BY <1>4, <2>1 DEF PaddingRow, Repeat
<1> QED  BY <1>2, <1>3, <1>4 DEF BatchIsWhole

\* The row a coroutine returned is the one of its request.
LEMMA GenuineRow ==
  ASSUME RolloutInv, NEW r \in Requests, Genuine(r)
  PROVE  result[r] = RowOf(req[r]) /\ req[r].tools # "created" /\ Marked(req[r])
BY Kinds DEF RolloutInv, CoroutineInv, Returned, Genuine, Bounded

\* For any number of requests, any limits and whatever tools, users and cancellations do: a row's
\* mask marks what the assistant said and nothing else, a batch that is returned has a row for
\* every request and as many genuine ones as were asked for, no request reaches finalize with a
\* reason it refuses or with its tools unreleased, and nobody takes more turns than there are.
THEOREM SglangRowsAreSound ==
  ASSUME RolloutAssumption
  PROVE  RolloutSpec => [](/\ RolloutTypeOK /\ MaskMarksAssistant /\ BatchIsWhole
                           /\ NothingElseRaises /\ TurnsBounded)
<1>1. RolloutInit => RolloutInv
  BY RolloutInitInv
<1>2. RolloutInv /\ [RolloutNext]_rollout => RolloutInv'
  BY RolloutNextInv
<1>3. RolloutInv => /\ RolloutTypeOK /\ MaskMarksAssistant /\ BatchIsWhole
                    /\ NothingElseRaises /\ TurnsBounded
  <2> SUFFICES ASSUME RolloutInv
               PROVE  /\ RolloutTypeOK /\ MaskMarksAssistant /\ BatchIsWhole
                      /\ NothingElseRaises /\ TurnsBounded
    OBVIOUS
  <2>1. \A r \in Requests : CoroutineInv(r) /\ Bounded(req[r]) /\ Marked(req[r]) /\ Returned(r)
    BY DEF RolloutInv, CoroutineInv, Bounded
  <2>2. RolloutTypeOK
    <3>1. \A r \in Requests : /\ req[r].state \in States /\ req[r].ids \in Seq(Said)
                              /\ Len(req[r].mask) = Len(req[r].ids)
      BY <2>1 DEF Marked, Conversation
    <3>2. counted <= Len(finished) /\ IsInjective(finished)
      <4>1. counted \in 0..Len(finished) /\ finished \in Seq(Requests) /\ IsInjective(finished)
        BY DEF RolloutInv, DriverInv
      <4> QED  BY <4>1
    <3> QED  BY <3>1, <3>2 DEF RolloutTypeOK, States, Said
  <2>3. MaskMarksAssistant
    <3> SUFFICES ASSUME NEW r \in Requests, Genuine(r)
                 PROVE  /\ Len(result[r].response) = Len(result[r].mask)
                        /\ Len(result[r].mask) <= ResponseLength
                        /\ \A i \in 1..Len(result[r].mask) :
                             result[r].mask[i] = 1 <=> result[r].response[i] = "a"
      BY DEF MaskMarksAssistant
    <3>1. result[r] = RowOf(req[r]) /\ Marked(req[r])
      BY GenuineRow
    <3> QED  BY <3>1, RowFacts
  <2>4. BatchIsWhole
    BY ReturnedBatch
  <2>5. NothingElseRaises
    <3>1. \A r \in Requests : Genuine(r) => req[r].tools # "created"
      BY GenuineRow
    <3>2. \A r \in Requests : result[r] = Exception => RaisedIn(req[r])
      BY <2>1, Kinds DEF Returned
    <3> QED  BY <3>1, <3>2 DEF NothingElseRaises, RaisedIn
  <2>6. TurnsBounded
    BY <2>1 DEF Bounded, TurnsBounded
  <2> QED  BY <2>2, <2>3, <2>4, <2>5, <2>6
<1> QED  BY <1>1, <1>2, <1>3, PTL DEF RolloutSpec

\* While no tool says anything when it is created, a row reads as its conversation did: what is
\* trained on follows the very tokens the engine was shown.
THEOREM SglangRowsReadAsConversations ==
  ASSUME RolloutAssumption, Tooled => Creations \subseteq {0}
  PROVE  RolloutSpec => []RowIsConversation
<1> DEFINE Inv == RolloutInv /\ ReadInv
<1>1. RolloutInit => Inv
  BY RolloutInitInv
<1>2. Inv /\ [RolloutNext]_rollout => Inv'
  BY RolloutNextInv DEF Quiet
<1>3. Inv => RowIsConversation
  <2> SUFFICES ASSUME RolloutInv, ReadInv, NEW r \in Requests, Genuine(r)
               PROVE  /\ \/ IsPrefix(result[r].prompt \o result[r].response, req[r].ids)
                         \/ result[r].response = <<>>
                      /\ IsPrefix(req[r].asked, req[r].ids) \/ IsPrefix(req[r].ids, req[r].asked)
    BY DEF RowIsConversation
  <2>1. result[r] = RowOf(req[r]) /\ Marked(req[r]) /\ Cut(req[r])
    BY GenuineRow DEF ReadInv, ReadsOn
  <2>2. RowOf(req[r]).prompt = req[r].prompt
    BY DEF RowOf
  <2> QED  BY <2>1, <2>2, RowReads DEF Cut
<1> QED  BY <1>1, <1>2, <1>3, PTL DEF RolloutSpec
=============================================================================
