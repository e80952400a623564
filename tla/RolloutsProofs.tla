---------------------------- MODULE RolloutsProofs ----------------------------
(***************************************************************************)
(* The interrupted agent loop, for every length of prompts, responses,     *)
(* turns and answers, every limit on turns and any number of               *)
(* interruptions: it does only what the uninterrupted one could do, its    *)
(* lists stay in step, what it returns can be trained on and reports the   *)
(* versions of all tokens.  The uninterrupted one, with tools and a user.  *)
(*                                                                         *)
(* The hybrid engine, for any number of ranks, updates and restarts and    *)
(* for every setup: a rollout runs on the weights the trainer has, no      *)
(* cached prefix outlives them, the cache only gets memory the actor has   *)
(* left, and training draws from its own random stream.                    *)
(***************************************************************************)
EXTENDS PartialToolAgentLoop, HybridEngine, SequenceTheorems, FiniteSetTheorems, TLAPS

-----------------------------------------------------------------------------
(* The inductive invariant of the interrupted loop.                        *)

Token == Generated \cup {"prompt", "tool", "user"}
Logp == Generated \cup {"zero"}

\* ListsAligned of three lists that need not be the variables.
Aligned(p, m, l) ==
    LET before == Len(p) - Len(m) IN
    /\ Len(l) = Len(m) /\ before \in 0..PromptLength
    /\ \A i \in 1..before : p[i] = "prompt"
    /\ \A i \in 1..Len(m) :
         /\ m[i] = 1 <=> p[before + i] \in Generated
         /\ l[i] = IF m[i] = 1 THEN p[before + i] ELSE "zero"

ListInv ==
    /\ prompt \in Seq(Token) /\ mask \in Seq({0, 1}) /\ logps \in Seq(Logp)
    /\ Aligned(prompt, mask, logps)

\* Where the loop stands, and what its lists hold there.
StageInv ==
    /\ state \in {"PENDING", "GENERATING", "PROCESSING_TOOLS", "TERMINATED"}
    /\ running \in BOOLEAN /\ partial \in BOOLEAN /\ asking \in BOOLEAN
    /\ asking => running /\ partial /\ state = "GENERATING"
    /\ state = "PENDING" => prompt = <<>> /\ mask = <<>> /\ logps = <<>>
    /\ state = "GENERATING" => Len(mask) < ResponseLength
    /\ state \in {"PROCESSING_TOOLS", "TERMINATED"} => mask # <<>>

Ends(list, tail) == list = SubSeq(list, 1, Len(list) - Len(tail)) \o tail

\* The unfinished turn is what the lists end with; only a generation that was cancelled leaves one.
PieceInv ==
    /\ piece \in Seq(Generated)
    /\ piece # <<>> => partial /\ state = "GENERATING"
    /\ Len(piece) <= Len(mask) /\ Len(piece) < MaxTurn
    /\ Ends(prompt, piece) /\ Ends(logps, piece) /\ Ends(mask, Repeat(1, Len(piece)))

\* The turns alternate, and a turn that reaches a limit is the last one.
TurnInv ==
    /\ assistantTurns \in Nat /\ userTurns \in Nat
    /\ assistantTurns = userTurns + IF state \in {"PROCESSING_TOOLS", "TERMINATED"} THEN 1 ELSE 0
    /\ MaxAssistantTurns > 0 /\ state # "TERMINATED" => assistantTurns < MaxAssistantTurns
    /\ MaxAssistantTurns > 0 => assistantTurns <= MaxAssistantTurns
    /\ MaxUserTurns > 0 => userTurns <= MaxUserTurns
    /\ MaxUserTurns > 0 /\ state = "PROCESSING_TOOLS" => userTurns < MaxUserTurns

\* A token was generated with weights between those of the first run and those of this one.
VersionInv ==
    /\ version \in Nat /\ runVersion \in Nat /\ first \in Nat
    /\ first <= runVersion /\ runVersion <= version
    /\ tokenVersions \in Seq(Int) /\ Len(tokenVersions) = Len(mask)
    /\ \A i \in 1..Len(mask) : mask[i] = 1 => tokenVersions[i] \in first..runVersion

\* The output is built once, from the lists, by a run that ends with it.
OutputInv ==
    IF output = NoOutput
    THEN span = NoSpan
    ELSE /\ state = "TERMINATED" /\ ~running
         /\ output = Built(Response)
         /\ span = [start |-> first, end |-> runVersion]

Inv ==
    /\ ~Interactive
    /\ ListInv /\ StageInv /\ PieceInv /\ TurnInv /\ VersionInv /\ OutputInv

-----------------------------------------------------------------------------
(* Lists.                                                                  *)

\* What appending one list to another keeps and adds.
LEMMA ConcatFacts ==
    ASSUME NEW S, NEW s \in Seq(S), NEW t \in Seq(S)
    PROVE  /\ s \o t \in Seq(S) /\ Len(s \o t) = Len(s) + Len(t)
           /\ \A i \in 1..Len(s) : (s \o t)[i] = s[i]
           /\ \A i \in 1..Len(t) : (s \o t)[Len(s) + i] = t[i]
<1>1. \A i \in 1..Len(s) + Len(t) : (s \o t)[i] = IF i <= Len(s) THEN s[i] ELSE t[i - Len(s)]
  BY ConcatProperties
<1>2. Len(s) \in Nat /\ Len(t) \in Nat
  OBVIOUS
<1>3. \A i \in 1..Len(t) : Len(s) + i \in 1..Len(s) + Len(t) /\ ~(Len(s) + i <= Len(s)) /\ Len(s) + i - Len(s) = i
  BY <1>2
<1> QED  BY <1>1, <1>2, <1>3, ConcatProperties

\* A list of one element, repeated.
LEMMA RepeatFacts ==
    ASSUME NEW S, NEW x \in S, NEW n \in Nat
    PROVE  /\ Repeat(x, n) \in Seq(S) /\ Len(Repeat(x, n)) = n
           /\ \A i \in 1..n : Repeat(x, n)[i] = x
BY DEF Repeat

\* A generated turn is a list of one to MaxTurn tokens.
LEMMA TurnFacts ==
    ASSUME NEW turn \in Turns
    PROVE  turn \in Seq(Generated) /\ Len(turn) \in 1..MaxTurn
<1>1. PICK n \in 1..MaxTurn : turn \in [1..n -> Generated]
  BY DEF Turns
<1>2. n \in Nat /\ MaxTurn \in Nat
  BY LoopAssumption
<1> QED  BY <1>1, <1>2

\* The lists stay in step when each is extended by what belongs to the same tokens.
LEMMA AlignedGrows ==
    ASSUME NEW p \in Seq(Token), NEW m \in Seq({0, 1}), NEW l \in Seq(Logp), Aligned(p, m, l),
           NEW t \in Seq(Token), NEW bits \in Seq({0, 1}), NEW lps \in Seq(Logp),
           Len(bits) = Len(t), Len(lps) = Len(t),
           \A i \in 1..Len(t) : (bits[i] = 1 <=> t[i] \in Generated)
                                /\ lps[i] = IF bits[i] = 1 THEN t[i] ELSE "zero"
    PROVE  /\ p \o t \in Seq(Token) /\ m \o bits \in Seq({0, 1}) /\ l \o lps \in Seq(Logp)
           /\ Aligned(p \o t, m \o bits, l \o lps)
           /\ Len(m \o bits) = Len(m) + Len(t)
<1>1. /\ p \o t \in Seq(Token) /\ Len(p \o t) = Len(p) + Len(t)
      /\ \A i \in 1..Len(p) : (p \o t)[i] = p[i]
      /\ \A i \in 1..Len(t) : (p \o t)[Len(p) + i] = t[i]
  BY ConcatFacts
<1>2. /\ m \o bits \in Seq({0, 1}) /\ Len(m \o bits) = Len(m) + Len(bits)
      /\ \A i \in 1..Len(m) : (m \o bits)[i] = m[i]
      /\ \A i \in 1..Len(bits) : (m \o bits)[Len(m) + i] = bits[i]
  <2>1. m \in Seq({0, 1}) /\ bits \in Seq({0, 1})
    OBVIOUS
  <2> QED  BY ONLY <2>1, ConcatFacts
<1>3. /\ l \o lps \in Seq(Logp) /\ Len(l \o lps) = Len(l) + Len(lps)
      /\ \A i \in 1..Len(l) : (l \o lps)[i] = l[i]
      /\ \A i \in 1..Len(lps) : (l \o lps)[Len(l) + i] = lps[i]
  <2>1. l \in Seq(Logp) /\ lps \in Seq(Logp)
    OBVIOUS
  <2> QED  BY ONLY <2>1, ConcatFacts
<1> DEFINE before == Len(p) - Len(m)  P == p \o t  M == m \o bits  L == l \o lps
<1>4. /\ Len(l) = Len(m) /\ before \in 0..PromptLength /\ before \in Nat
      /\ \A i \in 1..before : p[i] = "prompt"
      /\ \A i \in 1..Len(m) : (m[i] = 1 <=> p[before + i] \in Generated)
                               /\ l[i] = IF m[i] = 1 THEN p[before + i] ELSE "zero"
  BY DEF Aligned
<1>5. Len(p) \in Nat /\ Len(m) \in Nat /\ Len(t) \in Nat /\ before + Len(m) = Len(p)
  BY <1>4
<1> HIDE DEF P, M, L
<1>6. Len(P) - Len(M) = before /\ Len(L) = Len(M) /\ Len(M) = Len(m) + Len(t)
  BY <1>1, <1>2, <1>3, <1>4, <1>5 DEF P, M, L
<1>7. \A i \in 1..before : P[i] = "prompt"
  <2> SUFFICES ASSUME NEW i \in 1..before PROVE P[i] = "prompt"
    OBVIOUS
  <2>1. i \in 1..Len(p) /\ p[i] = "prompt"
    BY <1>4, <1>5
  <2> QED  BY <2>1, <1>1 DEF P
<1>8. ASSUME NEW i \in 1..Len(M)
      PROVE  (M[i] = 1 <=> P[before + i] \in Generated) /\ L[i] = IF M[i] = 1 THEN P[before + i] ELSE "zero"
  <2>1. CASE i <= Len(m)
    <3>1. i \in 1..Len(m) /\ before + i \in 1..Len(p)
      BY <2>1, <1>4, <1>5
    <3>2. M[i] = m[i] /\ P[before + i] = p[before + i] /\ L[i] = l[i]
      BY <3>1, <1>1, <1>2, <1>3, <1>4 DEF P, M, L
    <3> QED  BY <3>1, <3>2, <1>4
  <2>2. CASE i > Len(m)
    <3>1. PICK j \in 1..Len(t) : i = Len(m) + j
      <4>1. i - Len(m) \in 1..Len(t) /\ i = Len(m) + (i - Len(m))
        BY <2>2, <1>5, <1>6
      <4> QED  BY <4>1
    <3>2. before + i = Len(p) + j
      BY <3>1, <1>4, <1>5
    <3>3. M[i] = bits[j] /\ P[before + i] = t[j] /\ L[i] = lps[j]
      BY <3>1, <3>2, <1>1, <1>2, <1>3, <1>4 DEF P, M, L
    <3> QED  BY <3>1, <3>3
  <2> QED  BY <2>1, <2>2, <1>5, <1>6
<1>9. Aligned(P, M, L)
  <2>1. Len(P) - Len(M) \in 0..PromptLength
    BY <1>4, <1>6
  <2> HIDE DEF before
  <2> QED  BY <2>1, <1>6, <1>7, <1>8 DEF Aligned
<1> QED  BY <1>1, <1>2, <1>3, <1>6, <1>9 DEF P, M, L

\* By generated tokens, each with a one and its own log-probability.
LEMMA AlignedByTokens ==
    ASSUME NEW p \in Seq(Token), NEW m \in Seq({0, 1}), NEW l \in Seq(Logp), Aligned(p, m, l),
           NEW t \in Seq(Generated)
    PROVE  /\ p \o t \in Seq(Token) /\ m \o Repeat(1, Len(t)) \in Seq({0, 1}) /\ l \o t \in Seq(Logp)
           /\ Aligned(p \o t, m \o Repeat(1, Len(t)), l \o t)
           /\ Len(m \o Repeat(1, Len(t))) = Len(m) + Len(t)
<1> DEFINE ones == Repeat(1, Len(t))
<1>1. t \in Seq(Token) /\ t \in Seq(Logp) /\ Len(t) \in Nat
  BY DEF Token, Logp
<1>2. ones \in Seq({0, 1}) /\ Len(ones) = Len(t) /\ \A i \in 1..Len(t) : ones[i] = 1
  BY <1>1, RepeatFacts
<1> HIDE DEF ones
<1>3. \A i \in 1..Len(t) : (ones[i] = 1 <=> t[i] \in Generated)
                           /\ t[i] = IF ones[i] = 1 THEN t[i] ELSE "zero"
  BY <1>2
<1>4. /\ p \o t \in Seq(Token) /\ m \o ones \in Seq({0, 1}) /\ l \o t \in Seq(Logp)
      /\ Aligned(p \o t, m \o ones, l \o t) /\ Len(m \o ones) = Len(m) + Len(t)
  BY <1>1, <1>2, <1>3, AlignedGrows
<1> QED  BY <1>4 DEF ones

\* By an answer that was not generated, with a zero in the mask and for each log-probability.
LEMMA AlignedByAnswer ==
    ASSUME NEW p \in Seq(Token), NEW m \in Seq({0, 1}), NEW l \in Seq(Logp), Aligned(p, m, l),
           NEW word \in {"tool", "user"}, NEW n \in Nat
    PROVE  /\ p \o Repeat(word, n) \in Seq(Token) /\ m \o Repeat(0, n) \in Seq({0, 1})
           /\ l \o Repeat("zero", n) \in Seq(Logp)
           /\ Aligned(p \o Repeat(word, n), m \o Repeat(0, n), l \o Repeat("zero", n))
           /\ Len(m \o Repeat(0, n)) = Len(m) + n
<1> DEFINE t == Repeat(word, n)  none == Repeat(0, n)  zeros == Repeat("zero", n)
<1>1. t \in Seq(Token) /\ Len(t) = n /\ \A i \in 1..n : t[i] = word
  <2>1. word \in Token
    BY DEF Token
  <2> QED  BY <2>1, RepeatFacts
<1>2. none \in Seq({0, 1}) /\ Len(none) = n /\ \A i \in 1..n : none[i] = 0
  BY RepeatFacts
<1>3. zeros \in Seq(Logp) /\ Len(zeros) = n /\ \A i \in 1..n : zeros[i] = "zero"
  BY RepeatFacts, "zero" \in Logp DEF Logp
<1> HIDE DEF t, none, zeros
<1>4. \A i \in 1..Len(t) : (none[i] = 1 <=> t[i] \in Generated)
                           /\ zeros[i] = IF none[i] = 1 THEN t[i] ELSE "zero"
  BY <1>1, <1>2, <1>3 DEF Generated
<1>5. /\ p \o t \in Seq(Token) /\ m \o none \in Seq({0, 1}) /\ l \o zeros \in Seq(Logp)
      /\ Aligned(p \o t, m \o none, l \o zeros) /\ Len(m \o none) = Len(m) + Len(t)
    <2>1. Len(none) = Len(t) /\ Len(zeros) = Len(t)
    BY <1>1, <1>2, <1>3
  <2>2. /\ p \in Seq(Token) /\ m \in Seq({0, 1}) /\ l \in Seq(Logp) /\ Aligned(p, m, l)
        /\ t \in Seq(Token) /\ none \in Seq({0, 1}) /\ zeros \in Seq(Logp)
    BY <1>1, <1>2, <1>3
  <2> QED  BY ONLY <2>1, <2>2, <1>4, AlignedGrows
<1> QED  BY <1>1, <1>5 DEF t, none, zeros

\* A first prompt is in step with empty lists.
LEMMA AlignedAtFirst ==
    ASSUME NEW n \in 1..PromptLength
    PROVE  Repeat("prompt", n) \in Seq(Token) /\ Aligned(Repeat("prompt", n), <<>>, <<>>)
<1> DEFINE p == Repeat("prompt", n)
<1>1. p \in Seq(Token) /\ Len(p) = n /\ \A i \in 1..n : p[i] = "prompt"
  <2>1. n \in Nat /\ "prompt" \in Token
    BY LoopAssumption DEF Token
  <2> QED  BY <2>1, RepeatFacts
<1> HIDE DEF p
<1>2. Len(p) - Len(<<>>) = n /\ Len(<<>>) = 0
  BY <1>1
<1>3. Aligned(p, <<>>, <<>>)
  BY <1>1, <1>2 DEF Aligned
<1> QED  BY <1>1, <1>3 DEF p

\* What new tokens of a mask are given as their versions keeps every version in the span.
LEMMA VersionsGrow ==
    ASSUME NEW m \in Seq({0, 1}), NEW v \in Seq(Int), Len(v) = Len(m), NEW lo \in Nat, NEW hi \in Nat,
           \A i \in 1..Len(m) : m[i] = 1 => v[i] \in lo..hi,
           NEW longer \in Seq({0, 1}), NEW w \in Seq(Int), Len(longer) = Len(m) + Len(w),
           \A i \in 1..Len(m) : longer[i] = m[i],
           \A i \in 1..Len(w) : longer[Len(m) + i] = 1 => w[i] \in lo..hi
    PROVE  /\ v \o w \in Seq(Int) /\ Len(v \o w) = Len(longer)
           /\ \A i \in 1..Len(longer) : longer[i] = 1 => (v \o w)[i] \in lo..hi
<1>1. /\ v \o w \in Seq(Int) /\ Len(v \o w) = Len(v) + Len(w)
      /\ \A i \in 1..Len(v) : (v \o w)[i] = v[i]
      /\ \A i \in 1..Len(w) : (v \o w)[Len(v) + i] = w[i]
  <2>1. v \in Seq(Int) /\ w \in Seq(Int)
    OBVIOUS
  <2> QED  BY ONLY <2>1, ConcatFacts
<1> DEFINE V == v \o w
<1> HIDE DEF V
<1>2. ASSUME NEW i \in 1..Len(longer), longer[i] = 1
      PROVE  V[i] \in lo..hi
  <2>1. Len(m) \in Nat /\ Len(w) \in Nat
    OBVIOUS
  <2>2. CASE i <= Len(m)
    <3>1. i \in 1..Len(m) /\ V[i] = v[i] /\ m[i] = 1
      BY <2>2, <1>1, <1>2 DEF V
    <3> QED  BY <3>1
  <2>3. CASE i > Len(m)
    <3>1. PICK j \in 1..Len(w) : i = Len(m) + j
      <4>1. i - Len(m) \in 1..Len(w) /\ i = Len(m) + (i - Len(m))
        BY <2>1, <2>3
      <4> QED  BY <4>1
    <3>2. V[i] = w[j] /\ longer[Len(m) + j] = 1
      BY <3>1, <1>1, <1>2 DEF V
    <3> QED  BY <3>2
  <2> QED  BY <2>1, <2>2, <2>3
<1> QED  BY <1>1, <1>2 DEF V

\* Every list ends with the empty one.
LEMMA EndsEmpty == ASSUME NEW S, NEW list \in Seq(S) PROVE Ends(list, <<>>)
<1>1. SubSeq(list, 1, Len(list)) = list
  BY SubSeqFull
<1>2. Len(list) - Len(<<>>) = Len(list)
  OBVIOUS
<1> QED  BY <1>1, <1>2, ConcatEmptySeq DEF Ends

\* What is appended to a list and to its end leaves the same part before the end.
LEMMA EndsGrow ==
    ASSUME NEW S, NEW list \in Seq(S), NEW tail \in Seq(S), NEW tokens \in Seq(S),
           Len(tail) <= Len(list), Ends(list, tail)
    PROVE  /\ Ends(list \o tokens, tail \o tokens)
           /\ SubSeq(list \o tokens, 1, Len(list \o tokens) - Len(tail \o tokens))
                = SubSeq(list, 1, Len(list) - Len(tail))
<1> DEFINE n == Len(list) - Len(tail)  before == SubSeq(list, 1, n)
<1>1. Len(list) \in Nat /\ Len(tail) \in Nat /\ Len(tokens) \in Nat /\ n \in Nat /\ n <= Len(list)
  OBVIOUS
<1>2. /\ list \o tokens \in Seq(S) /\ Len(list \o tokens) = Len(list) + Len(tokens)
      /\ \A i \in 1..Len(list) : (list \o tokens)[i] = list[i]
  BY ConcatFacts
<1>3. tail \o tokens \in Seq(S) /\ Len(tail \o tokens) = Len(tail) + Len(tokens)
  BY ConcatFacts
<1>4. Len(list \o tokens) - Len(tail \o tokens) = n
  BY <1>1, <1>2, <1>3
<1>5. before \in Seq(S) /\ Len(before) = n /\ \A i \in 1..n : before[i] = list[i]
  <2>1. \A i \in 1..n : list[i] \in S
    BY <1>1
  <2> QED  BY <1>1, <2>1, SubSeqProperties
<1>6. SubSeq(list \o tokens, 1, n) = before
  <2> DEFINE other == SubSeq(list \o tokens, 1, n)
  <2>1. \A i \in 1..n : (list \o tokens)[i] = list[i]
    BY <1>1, <1>2
  <2>2. other \in Seq(S) /\ Len(other) = n /\ \A i \in 1..n : other[i] = (list \o tokens)[i]
    <3>1. \A i \in 1..n : (list \o tokens)[i] \in S
      BY <1>1, <2>1
    <3>2. n \in Int /\ 1 \in Int
      BY <1>1
    <3>3. /\ other \in Seq(S) /\ Len(other) = IF 1 <= n THEN n - 1 + 1 ELSE 0
          /\ \A i \in 1..n - 1 + 1 : other[i] = (list \o tokens)[1 + i - 1]
      BY <3>1, <3>2, SubSeqProperties
    <3> HIDE DEF other, n
    <3>4. Len(other) = n
      BY <1>1, <3>3
    <3>5. \A i \in 1..n : i \in 1..n - 1 + 1 /\ 1 + i - 1 = i
      BY <1>1
    <3> QED  BY <3>3, <3>4, <3>5
  <2> HIDE DEF n, before, other
  <2>3. other = before
    BY <1>5, <2>1, <2>2, SeqEqual
  <2> QED  BY <2>3 DEF other
<1>7. list = before \o tail
  BY DEF Ends
<1>8. list \o tokens = before \o (tail \o tokens)
  <2> HIDE DEF before
  <2> QED  BY <1>5, <1>7, ConcatAssociative
<1> HIDE DEF n, before
<1> QED  BY <1>4, <1>6, <1>8 DEF Ends, before, n

\* Two stretches of the same element make one.
LEMMA RepeatTwice ==
    ASSUME NEW x, NEW m \in Nat, NEW n \in Nat
    PROVE  Repeat(x, m) \o Repeat(x, n) = Repeat(x, m + n)
BY DEF Repeat

-----------------------------------------------------------------------------
(* The invariant.                                                          *)

\* A turn that is over leaves no piece.
LEMMA PieceDone == ASSUME ListInv', piece' = <<>> PROVE PieceInv'
<1>1. /\ prompt' \in Seq(Token) /\ mask' \in Seq({0, 1}) /\ logps' \in Seq(Logp)
  BY DEF ListInv
<1>2. Ends(prompt', <<>>) /\ Ends(logps', <<>>) /\ Ends(mask', <<>>)
  BY <1>1, EndsEmpty
<1>3. Repeat(1, Len(<<>>)) = <<>> /\ Len(<<>>) = 0 /\ <<>> \in Seq(Generated)
  BY DEF Repeat
<1>4. Len(mask') >= 0 /\ 0 < MaxTurn
  BY <1>1, LoopAssumption
<1> QED  BY <1>2, <1>3, <1>4 DEF PieceInv, Ends

\* An interrupted generation makes the piece longer and leaves what was before it.
LEMMA PieceGrows ==
    ASSUME ListInv, PieceInv, NEW tokens \in Seq(Generated)
    PROVE  LET longer == piece \o tokens
               ones == mask \o Repeat(1, Len(tokens)) IN
           /\ Ends(prompt \o tokens, longer) /\ Ends(logps \o tokens, longer)
           /\ Ends(ones, Repeat(1, Len(longer)))
           /\ SubSeq(prompt \o tokens, 1, Len(prompt \o tokens) - Len(longer)) = Settled(prompt)
           /\ SubSeq(logps \o tokens, 1, Len(logps \o tokens) - Len(longer)) = Settled(logps)
           /\ SubSeq(ones, 1, Len(ones) - Len(longer)) = Settled(mask)
<1> DEFINE old == Repeat(1, Len(piece))  new == Repeat(1, Len(tokens))
<1>1. prompt \in Seq(Token) /\ mask \in Seq({0, 1}) /\ logps \in Seq(Logp)
  BY DEF ListInv
<1>2. /\ piece \in Seq(Generated) /\ Len(piece) \in Nat /\ Len(tokens) \in Nat /\ Len(piece) <= Len(mask)
      /\ Ends(prompt, piece) /\ Ends(logps, piece) /\ Ends(mask, old)
  BY DEF PieceInv
<1>3. /\ piece \in Seq(Token) /\ tokens \in Seq(Token) /\ piece \in Seq(Logp) /\ tokens \in Seq(Logp)
  BY <1>2 DEF Token, Logp
<1>4. Len(piece) <= Len(prompt) /\ Len(piece) <= Len(logps)
  <2>1. Len(logps) = Len(mask) /\ Len(prompt) - Len(mask) \in Nat
    BY LoopAssumption DEF ListInv, Aligned
  <2> QED  BY <1>1, <1>2, <2>1
<1>5. /\ old \in Seq({0, 1}) /\ Len(old) = Len(piece) /\ new \in Seq({0, 1}) /\ Len(new) = Len(tokens)
  <2>1. 1 \in {0, 1}
    OBVIOUS
  <2> QED  BY ONLY <1>2, <2>1, RepeatFacts
<1>6. Len(piece \o tokens) = Len(piece) + Len(tokens)
  BY ONLY <1>3, ConcatFacts
<1>7. old \o new = Repeat(1, Len(piece \o tokens)) /\ Len(old \o new) = Len(piece \o tokens)
  <2>1. old \o new = Repeat(1, Len(piece) + Len(tokens))
    BY ONLY <1>2, RepeatTwice
  <2>2. Len(old \o new) = Len(old) + Len(new)
    BY ONLY <1>5, ConcatFacts
  <2> QED  BY <1>5, <1>6, <2>1, <2>2
<1> HIDE DEF old, new
<1>8. /\ Ends(prompt \o tokens, piece \o tokens)
      /\ SubSeq(prompt \o tokens, 1, Len(prompt \o tokens) - Len(piece \o tokens)) = Settled(prompt)
  BY ONLY <1>1, <1>2, <1>3, <1>4, EndsGrow DEF Settled
<1>9. /\ Ends(logps \o tokens, piece \o tokens)
      /\ SubSeq(logps \o tokens, 1, Len(logps \o tokens) - Len(piece \o tokens)) = Settled(logps)
  BY ONLY <1>1, <1>2, <1>3, <1>4, EndsGrow DEF Settled
<1>10. /\ Ends(mask \o new, old \o new)
       /\ SubSeq(mask \o new, 1, Len(mask \o new) - Len(old \o new)) = SubSeq(mask, 1, Len(mask) - Len(old))
  <2>1. Len(old) <= Len(mask)
    BY <1>2, <1>5
  <2> QED  BY ONLY <1>1, <1>2, <1>5, <2>1, EndsGrow
<1>11. /\ Ends(mask \o new, Repeat(1, Len(piece \o tokens)))
       /\ SubSeq(mask \o new, 1, Len(mask \o new) - Len(piece \o tokens)) = Settled(mask)
  BY <1>5, <1>7, <1>10 DEF Settled
<1> QED  BY <1>8, <1>9, <1>11 DEF new

\* Nothing has run yet.
LEMMA InitInv == ASSUME PartialInit PROVE Inv
<1> USE DEF PartialInit, Init
<1>1. ListInv
  BY LoopAssumption DEF ListInv, Aligned, Token, Logp
<1>2. StageInv
  BY DEF StageInv
<1>5. PieceInv
  <2>1. Ends(<<>>, <<>>)
    <3>1. <<>> \in Seq({})
      OBVIOUS
    <3> QED  BY <3>1, EndsEmpty
  <2>2. Repeat(1, Len(<<>>)) = <<>> /\ Len(<<>>) = 0 /\ <<>> \in Seq(Generated)
    BY DEF Repeat
  <2> QED  BY <2>1, <2>2, LoopAssumption DEF PieceInv
<1>3. TurnInv
  BY LoopAssumption DEF TurnInv
<1>4. VersionInv /\ OutputInv
  BY VersionAssumption DEF VersionInv, OutputInv
<1> QED  BY <1>1, <1>2, <1>3, <1>4, <1>5 DEF Inv

\* Generated tokens are appended to all lists, and the versions with them.
LEMMA TokensReceived ==
    ASSUME ListInv, VersionInv, NEW tokens \in Seq(Generated), Extend(tokens),
           UNCHANGED <<version, runVersion, first>>,
           \/ tokenVersions' = tokenVersions \o Repeat(runVersion, Len(tokens))
           \/ tokenVersions' = tokenVersions \o
                [i \in 1..Len(mask') - Len(mask) |-> IF mask'[Len(mask) + i] = 1 THEN runVersion ELSE -1]
    PROVE  /\ ListInv' /\ VersionInv' /\ Len(mask') = Len(mask) + Len(tokens)
           /\ \A i \in 1..Len(mask) : mask'[i] = mask[i]
           /\ \A i \in 1..Len(tokens) : mask'[Len(mask) + i] = 1
<1> DEFINE ones == Repeat(1, Len(tokens))
<1>1. prompt' = prompt \o tokens /\ mask' = mask \o ones /\ logps' = logps \o tokens
  BY DEF Extend
<1>2. prompt \in Seq(Token) /\ mask \in Seq({0, 1}) /\ logps \in Seq(Logp) /\ Aligned(prompt, mask, logps)
  BY DEF ListInv
<1>3. /\ prompt \o tokens \in Seq(Token) /\ mask \o ones \in Seq({0, 1}) /\ logps \o tokens \in Seq(Logp)
      /\ Aligned(prompt \o tokens, mask \o ones, logps \o tokens)
      /\ Len(mask \o ones) = Len(mask) + Len(tokens)
  BY <1>2, AlignedByTokens
<1>4. Len(tokens) \in Nat /\ ones \in Seq({0, 1}) /\ Len(ones) = Len(tokens) /\ \A i \in 1..Len(tokens) : ones[i] = 1
  <2>1. Len(tokens) \in Nat /\ 1 \in {0, 1}
    OBVIOUS
  <2> QED  BY ONLY <2>1, RepeatFacts
<1> HIDE DEF ones
<1>5. /\ \A i \in 1..Len(mask) : (mask \o ones)[i] = mask[i]
      /\ \A i \in 1..Len(ones) : (mask \o ones)[Len(mask) + i] = ones[i]
  BY ONLY <1>2, <1>4, ConcatFacts
<1>6. ListInv'
  BY <1>1, <1>3 DEF ListInv, Aligned
<1>7. /\ mask' \in Seq({0, 1}) /\ Len(mask') = Len(mask) + Len(tokens)
      /\ \A i \in 1..Len(mask) : mask'[i] = mask[i]
      /\ \A i \in 1..Len(tokens) : mask'[Len(mask) + i] = 1
  BY <1>1, <1>3, <1>4, <1>5
<1>8. VersionInv'
  <2>1. /\ version \in Nat /\ runVersion \in Nat /\ first \in Nat
        /\ first <= runVersion /\ runVersion <= version
        /\ tokenVersions \in Seq(Int) /\ Len(tokenVersions) = Len(mask)
        /\ \A i \in 1..Len(mask) : mask[i] = 1 => tokenVersions[i] \in first..runVersion
    BY DEF VersionInv
  <2>2. PICK w \in Seq(Int) : /\ Len(w) = Len(tokens) /\ \A i \in 1..Len(w) : w[i] = runVersion
                              /\ tokenVersions' = tokenVersions \o w
    <3>1. ASSUME tokenVersions' = tokenVersions \o Repeat(runVersion, Len(tokens))
          PROVE  \E w \in Seq(Int) : /\ Len(w) = Len(tokens) /\ \A i \in 1..Len(w) : w[i] = runVersion
                                     /\ tokenVersions' = tokenVersions \o w
      <4>1. /\ Repeat(runVersion, Len(tokens)) \in Seq(Int) /\ Len(Repeat(runVersion, Len(tokens))) = Len(tokens)
            /\ \A i \in 1..Len(tokens) : Repeat(runVersion, Len(tokens))[i] = runVersion
        <5>1. runVersion \in Int /\ Len(tokens) \in Nat
          BY <1>4, <2>1
        <5> QED  BY ONLY <5>1, RepeatFacts
      <4> QED  BY <4>1, <3>1
    <3>2. CASE tokenVersions' = tokenVersions \o
                [i \in 1..Len(mask') - Len(mask) |-> IF mask'[Len(mask) + i] = 1 THEN runVersion ELSE -1]
      <4> DEFINE w == [i \in 1..Len(mask') - Len(mask) |-> IF mask'[Len(mask) + i] = 1 THEN runVersion ELSE -1]
      <4>1. Len(mask') - Len(mask) = Len(tokens)
        BY <1>2, <1>4, <1>7
      <4>2. w = Repeat(runVersion, Len(tokens))
        BY <4>1, <1>7 DEF Repeat
      <4>3. tokenVersions' = tokenVersions \o w
        BY <3>2
      <4> HIDE DEF w
      <4> QED  BY <4>2, <4>3, <3>1
    <3> QED  BY <3>1, <3>2
  <2>3. \A i \in 1..Len(w) : mask'[Len(mask) + i] = 1 => w[i] \in first..runVersion
    BY <2>1, <2>2
  <2>4. Len(mask') = Len(mask) + Len(w)
    BY <1>7, <2>2
  <2>5. /\ tokenVersions \o w \in Seq(Int) /\ Len(tokenVersions \o w) = Len(mask')
        /\ \A i \in 1..Len(mask') : mask'[i] = 1 => (tokenVersions \o w)[i] \in first..runVersion
    <3>1. w \in Seq(Int) /\ mask \in Seq({0, 1})
      BY <1>2, <2>2
    <3> QED  BY ONLY <3>1, <1>7, <2>1, <2>3, <2>4, VersionsGrow
  <2> QED  BY <2>1, <2>2, <2>5 DEF VersionInv
<1> QED  BY <1>6, <1>7, <1>8

\* Steps that leave the trajectory alone.
LEMMA ControlStep ==
    ASSUME Inv,
           Run \/ Interrupt \/ Ask \/ Rollouter \/ UNCHANGED partialVars
    PROVE  Inv'
<1> USE DEF Inv
<1>1. UNCHANGED <<agent, piece, tokenVersions, partial>>
  BY DEF Run, Interrupt, Ask, Rollouter, Pause, CancelServer, CancelWorker, Synchronize, ResumeServer,
         ResumeWorker, partialVars, control
<1>2. ListInv' /\ PieceInv' /\ TurnInv'
  BY <1>1 DEF ListInv, PieceInv, TurnInv, Aligned, agent
<1>3. StageInv'
  <2>1. CASE Run
    BY <1>1, <2>1 DEF Run, StageInv, agent
  <2>2. CASE Interrupt
    BY <1>1, <2>2 DEF Interrupt, StageInv, agent
  <2>3. CASE Ask
    BY <1>1, <2>3 DEF Ask, StageInv, agent
  <2>4. CASE Rollouter \/ UNCHANGED partialVars
    <3>1. UNCHANGED <<running, asking>>
      BY <2>4 DEF Rollouter, Pause, CancelServer, CancelWorker, Synchronize, ResumeServer, ResumeWorker,
                  partialVars, control
    <3> QED  BY <1>1, <3>1 DEF StageInv, agent
  <2> QED  BY <2>1, <2>2, <2>3, <2>4
<1>4. VersionInv'
  <2>1. CASE Run
    <3>1. runVersion' = version /\ version' = version
      BY <2>1 DEF Run
    <3>2. CASE state = "PENDING" /\ prompt = <<>>
      <4>1. first' = version /\ mask = <<>>
        BY <2>1, <3>2 DEF Run, StageInv
      <4>2. version \in Nat
        BY DEF VersionInv
      <4> QED  BY <1>1, <3>1, <4>1, <4>2 DEF VersionInv, agent
    <3>3. CASE ~(state = "PENDING" /\ prompt = <<>>)
      <4>1. first' = first
        BY <2>1, <3>3 DEF Run
      <4>2. \A i \in 1..Len(mask) : mask[i] = 1 => tokenVersions[i] \in first..version
        BY DEF VersionInv
      <4>3. version \in Nat /\ first <= version
        BY DEF VersionInv
      <4> QED  BY <1>1, <3>1, <4>1, <4>2, <4>3 DEF VersionInv, agent
    <3> QED  BY <3>2, <3>3
  <2>2. CASE Synchronize
    <3>1. UNCHANGED <<runVersion, first>> /\ version' = version + 1
      BY <2>2 DEF Synchronize
    <3> QED  BY <1>1, <3>1 DEF VersionInv, agent
  <2>3. CASE ~Run /\ ~Synchronize
    <3>1. UNCHANGED <<version, runVersion, first>>
      BY <2>3 DEF Interrupt, Ask, Rollouter, Pause, CancelServer, CancelWorker, ResumeServer,
                  ResumeWorker, partialVars, control
    <3> QED  BY <1>1, <3>1 DEF VersionInv, agent
  <2> QED  BY <2>1, <2>2, <2>3
<1>5. OutputInv'
  <2>1. span' = span
    BY DEF Run, Interrupt, Ask, Rollouter, Pause, CancelServer, CancelWorker, Synchronize, ResumeServer,
           ResumeWorker, partialVars, control
  <2>2. CASE output = NoOutput
    BY <1>1, <2>1, <2>2 DEF OutputInv, agent
  <2>3. CASE output # NoOutput
    <3>1. ~running /\ state = "TERMINATED"
      BY <2>3 DEF OutputInv
    <3>2. UNCHANGED <<running, first, runVersion>>
      BY <2>3, <3>1 DEF Run, Interrupt, Ask, Rollouter, Pause, CancelServer, CancelWorker, Synchronize,
                        ResumeServer, ResumeWorker, partialVars, control
    <3> QED  BY <1>1, <2>1, <2>3, <3>1, <3>2 DEF OutputInv, agent, Built, Response, Cut
  <2> QED  BY <2>2, <2>3
<1> QED  BY <1>2, <1>3, <1>4, <1>5

\* While a run goes on there is no output.
LEMMA NoOutputYet ==
    ASSUME OutputInv, running, UNCHANGED <<output, span>>
    PROVE  output = NoOutput /\ OutputInv'
<1>1. output = NoOutput
  BY DEF OutputInv
<1> QED  BY <1>1 DEF OutputInv

\* The end of a turn: the trajectory is over, or its tools are called.
LEMMA TurnEnds ==
    ASSUME ~Interactive, ListInv', TurnInv, state = "GENERATING", Len(mask') > 0,
           NEW seen, EndTurn(seen)
    PROVE  /\ TurnInv' /\ state' \in {"PROCESSING_TOOLS", "TERMINATED"} /\ mask' # <<>>
           /\ output' = output
<1>1. assistantTurns' = assistantTurns + 1 /\ userTurns' = userTurns /\ output' = output
  BY DEF EndTurn
<1>2. state' \in {"PROCESSING_TOOLS", "TERMINATED"}
  BY DEF EndTurn
<1>3. state' # "TERMINATED" => ~TurnsUsedUp
  BY DEF EndTurn
<1>4. /\ assistantTurns \in Nat /\ userTurns \in Nat /\ assistantTurns = userTurns
      /\ MaxAssistantTurns > 0 => assistantTurns < MaxAssistantTurns
      /\ MaxUserTurns > 0 => userTurns <= MaxUserTurns
      /\ MaxAssistantTurns \in Nat /\ MaxUserTurns \in Nat
  BY LoopAssumption DEF TurnInv
<1>5. MaxAssistantTurns > 0 => assistantTurns + 1 <= MaxAssistantTurns
  BY <1>4
<1>6. state' # "TERMINATED" => /\ MaxAssistantTurns > 0 => assistantTurns + 1 < MaxAssistantTurns
                               /\ MaxUserTurns > 0 => userTurns < MaxUserTurns
  BY <1>1, <1>3, <1>4 DEF TurnsUsedUp
<1>7. TurnInv'
  BY <1>1, <1>2, <1>4, <1>5, <1>6 DEF TurnInv
<1>8. mask' # <<>>
  OBVIOUS
<1> QED  BY <1>1, <1>2, <1>7, <1>8

\* The first prompt.
LEMMA PendingStep ==
    ASSUME Inv, Turn(Pending)
    PROVE  Inv'
<1> USE DEF Inv
<1>1. /\ running /\ ~asking /\ UNCHANGED <<control, piece>>
      /\ state = "PENDING" /\ state' = "GENERATING"
      /\ UNCHANGED <<mask, logps, calls, userTurns, assistantTurns, messages, output>>
  BY DEF Turn, Pending
<1>2. PICK n \in 1..PromptLength : prompt' = Repeat("prompt", n)
  BY DEF Turn, Pending
<1>3. mask = <<>> /\ logps = <<>> /\ piece = <<>>
  BY <1>1 DEF StageInv, PieceInv
<1>4. ListInv'
  <2>1. Repeat("prompt", n) \in Seq(Token) /\ Aligned(Repeat("prompt", n), <<>>, <<>>)
    BY AlignedAtFirst, LoopAssumption
  <2>2. prompt' \in Seq(Token) /\ Aligned(prompt', mask', logps')
    BY <2>1, <1>1, <1>2, <1>3
  <2>3. mask' \in Seq({0, 1}) /\ logps' \in Seq(Logp)
    BY <1>1, <1>3
  <2> QED  BY <2>2, <2>3 DEF ListInv, Aligned
<1>5. StageInv'
  <2>1. Len(mask') < ResponseLength
    BY <1>1, <1>3, LoopAssumption
  <2> QED  BY <2>1, <1>1 DEF StageInv, control
<1>6. PieceInv' /\ TurnInv'
  BY <1>1, <1>3, <1>4, PieceDone DEF TurnInv
<1>7. VersionInv'
  <2>1. tokenVersions' = tokenVersions \o
         [i \in 1..Len(mask') - Len(mask) |-> IF mask'[Len(mask) + i] = 1 THEN runVersion ELSE -1]
    BY DEF Turn
  <2>2. Len(mask') - Len(mask) = 0
    BY <1>1, <1>3
  <2>3. [i \in 1..Len(mask') - Len(mask) |-> IF mask'[Len(mask) + i] = 1 THEN runVersion ELSE -1] = <<>>
    BY <2>2
  <2>4. tokenVersions' = tokenVersions
    BY <2>1, <2>3, ConcatEmptySeq DEF VersionInv
  <2> QED  BY <1>1, <2>4 DEF VersionInv, control
<1>8. OutputInv'
  BY <1>1, NoOutputYet DEF control
<1> QED  BY <1>4, <1>5, <1>6, <1>7, <1>8

\* The answer of a tool, or the end of a trajectory it does not fit into.
LEMMA ToolsStep ==
    ASSUME Inv, Turn(ProcessingTools)
    PROVE  Inv'
<1> USE DEF Inv
<1>1. /\ running /\ ~asking /\ UNCHANGED <<control, piece>>
      /\ state = "PROCESSING_TOOLS" /\ UNCHANGED <<calls, assistantTurns, output>>
  BY DEF Turn, ProcessingTools
<1>2. piece = <<>> /\ mask # <<>> /\ Len(logps) = Len(mask)
  BY <1>1 DEF StageInv, PieceInv, ListInv, Aligned
<1>3. OutputInv'
  BY <1>1, NoOutputYet DEF control
<1>4. tokenVersions' = tokenVersions \o
         [i \in 1..Len(mask') - Len(mask) |-> IF mask'[Len(mask) + i] = 1 THEN runVersion ELSE -1]
  BY DEF Turn
<1>5. prompt \in Seq(Token) /\ mask \in Seq({0, 1}) /\ logps \in Seq(Logp) /\ Aligned(prompt, mask, logps)
  BY DEF ListInv
<1>6. CASE /\ state' = "TERMINATED" /\ UNCHANGED <<prompt, mask, logps, userTurns>>
  <2>1. ListInv'
    BY <1>6 DEF ListInv, Aligned
  <2>2. StageInv'
    BY <1>1, <1>2, <1>6 DEF StageInv, control
  <2>3. PieceInv'
    BY <1>1, <1>2, <1>6 DEF PieceInv, control
  <2>4. TurnInv'
    BY <1>1, <1>6 DEF TurnInv
  <2>5. [i \in 1..Len(mask') - Len(mask) |-> IF mask'[Len(mask) + i] = 1 THEN runVersion ELSE -1] = <<>>
    <3>1. Len(mask') - Len(mask) = 0
      BY <1>5, <1>6
    <3> QED  BY <3>1
  <2>6. tokenVersions' = tokenVersions
    BY <1>4, <2>5, ConcatEmptySeq DEF VersionInv
  <2> QED  BY <1>1, <1>3, <1>6, <2>1, <2>2, <2>3, <2>4, <2>6 DEF VersionInv, control
<1>7. ASSUME NEW n \in Answers, Len(mask) + n < ResponseLength,
             ExtendByAnswer(Repeat("tool", n)), userTurns' = userTurns + 1, state' = "GENERATING"
      PROVE  Inv'
  <2>1. n \in Nat
    BY LoopAssumption
  <2> DEFINE t == Repeat("tool", n)  none == Repeat(0, n)  zeros == Repeat("zero", n)
  <2>2. Len(t) = n
    <3>1. "tool" \in Token
      BY DEF Token
    <3> QED  BY <2>1, <3>1, RepeatFacts
  <2>3. prompt' = prompt \o t /\ mask' = mask \o none /\ logps' = logps \o zeros
    <3>1. logps # <<>>
      <4>1. Len(mask) > 0
        BY <1>2, <1>5
      <4> QED  BY <4>1, <1>2
    <3> QED  BY <1>7, <2>2, <3>1 DEF ExtendByAnswer
  <2>4. none \in Seq({0, 1}) /\ Len(none) = n /\ \A i \in 1..n : none[i] = 0
    <3>1. 0 \in {0, 1}
      OBVIOUS
    <3> QED  BY ONLY <2>1, <3>1, RepeatFacts
  <2>5. /\ prompt \o t \in Seq(Token) /\ mask \o none \in Seq({0, 1}) /\ logps \o zeros \in Seq(Logp)
        /\ Aligned(prompt \o t, mask \o none, logps \o zeros) /\ Len(mask \o none) = Len(mask) + n
    BY ONLY <1>5, <2>1, "tool" \in {"tool", "user"}, AlignedByAnswer
  <2> HIDE DEF t, none, zeros
  <2>6. ListInv'
    BY <2>3, <2>5 DEF ListInv, Aligned
  <2>7. /\ \A i \in 1..Len(mask) : (mask \o none)[i] = mask[i]
        /\ \A i \in 1..Len(none) : (mask \o none)[Len(mask) + i] = none[i]
    BY ONLY <1>5, <2>4, ConcatFacts
  <2>8. /\ mask' \in Seq({0, 1}) /\ Len(mask') = Len(mask) + n
        /\ \A i \in 1..Len(mask) : mask'[i] = mask[i]
        /\ \A i \in 1..n : mask'[Len(mask) + i] = 0
    BY <2>3, <2>4, <2>5, <2>7
  <2>9. StageInv'
    <3>1. Len(mask') < ResponseLength
      BY <1>7, <2>8
    <3> QED  BY <3>1, <1>1, <1>7 DEF StageInv, control
  <2>10. PieceInv'
    BY <1>1, <1>2, <2>6, PieceDone
  <2>11. TurnInv'
    <3>1. /\ assistantTurns \in Nat /\ userTurns \in Nat /\ assistantTurns = userTurns + 1
          /\ MaxAssistantTurns > 0 => assistantTurns < MaxAssistantTurns
          /\ MaxUserTurns > 0 => userTurns < MaxUserTurns
          /\ MaxAssistantTurns \in Nat /\ MaxUserTurns \in Nat
      BY <1>1, LoopAssumption DEF TurnInv
    <3>2. userTurns + 1 \in Nat /\ (MaxUserTurns > 0 => userTurns + 1 <= MaxUserTurns)
      BY <3>1
    <3>3. assistantTurns' = assistantTurns
      BY <1>1
    <3> QED  BY <3>1, <3>2, <3>3, <1>7 DEF TurnInv
  <2>12. VersionInv'
    <3>1. /\ version \in Nat /\ runVersion \in Nat /\ first \in Nat
          /\ first <= runVersion /\ runVersion <= version
          /\ tokenVersions \in Seq(Int) /\ Len(tokenVersions) = Len(mask)
          /\ \A i \in 1..Len(mask) : mask[i] = 1 => tokenVersions[i] \in first..runVersion
      BY DEF VersionInv
    <3> DEFINE w == [i \in 1..Len(mask') - Len(mask) |-> IF mask'[Len(mask) + i] = 1 THEN runVersion ELSE -1]
    <3>2. Len(mask') - Len(mask) = n
      BY <1>5, <2>1, <2>8
    <3>3. w = Repeat(-1, n)
      BY <3>2, <2>8 DEF Repeat
    <3>4. w \in Seq(Int) /\ Len(w) = n
      <4>1. -1 \in Int
        OBVIOUS
      <4>2. Repeat(-1, n) \in Seq(Int) /\ Len(Repeat(-1, n)) = n
        BY ONLY <4>1, <2>1, RepeatFacts
      <4> QED  BY <3>3, <4>2
    <3>5. tokenVersions' = tokenVersions \o w
      BY <1>4
    <3> HIDE DEF w
    <3>6. Len(mask') = Len(mask) + Len(w) /\ \A i \in 1..Len(w) : mask'[Len(mask) + i] = 1 => w[i] \in first..runVersion
      <4>1. Len(mask') = Len(mask) + Len(w) /\ 1..Len(w) = 1..n
        BY <2>8, <3>4
      <4>2. \A i \in 1..n : mask'[Len(mask) + i] # 1
        BY <2>8
      <4> QED  BY <4>1, <4>2
    <3>7. /\ tokenVersions \o w \in Seq(Int) /\ Len(tokenVersions \o w) = Len(mask')
          /\ \A i \in 1..Len(mask') : mask'[i] = 1 => (tokenVersions \o w)[i] \in first..runVersion
      BY ONLY <1>5, <2>8, <3>1, <3>4, <3>6, VersionsGrow
    <3>8. UNCHANGED <<version, runVersion, first>>
      BY <1>1 DEF control
    <3> QED  BY <3>1, <3>5, <3>7, <3>8 DEF VersionInv
  <2> QED  BY <1>3, <2>6, <2>9, <2>10, <2>11, <2>12
<1>8. \/ state' = "TERMINATED" /\ UNCHANGED <<prompt, mask, logps, userTurns>>
      \/ \E n \in Answers : /\ ~(Len(mask) + n >= ResponseLength) /\ ExtendByAnswer(Repeat("tool", n))
                            /\ userTurns' = userTurns + 1 /\ state' = "GENERATING"
  BY DEF Turn, ProcessingTools
<1>9. \A n \in Answers : ~(Len(mask) + n >= ResponseLength) => Len(mask) + n < ResponseLength
  BY <1>5, LoopAssumption
<1> QED  BY <1>6, <1>7, <1>8, <1>9

\* What a generation returns, whether it ends the turn, the trajectory or neither.
LEMMA TokensStep ==
    ASSUME Inv, running, state = "GENERATING",
           NEW tokens \in Seq(Generated), Extend(tokens),
           \/ tokenVersions' = tokenVersions \o Repeat(runVersion, Len(tokens))
           \/ tokenVersions' = tokenVersions \o
                [i \in 1..Len(mask') - Len(mask) |-> IF mask'[Len(mask) + i] = 1 THEN runVersion ELSE -1],
           UNCHANGED <<running, partial, version, runVersion, first, span, userTurns, output>>,
           asking' = FALSE,
           \/ Len(tokens) > 0 /\ piece' = <<>> /\ \E seen \in Seq(Generated) : EndTurn(seen)
           \/ /\ Len(mask') >= ResponseLength /\ piece' = <<>>
              /\ assistantTurns' = assistantTurns + 1 /\ state' = "TERMINATED"
           \/ /\ Len(mask') < ResponseLength /\ Len(piece) + Len(tokens) < MaxTurn
              /\ piece' = piece \o tokens /\ partial /\ UNCHANGED <<assistantTurns, state>>
    PROVE  Inv'
<1> USE DEF Inv
<1>1. /\ ListInv' /\ VersionInv' /\ Len(mask') = Len(mask) + Len(tokens)
      /\ \A i \in 1..Len(mask) : mask'[i] = mask[i]
      /\ \A i \in 1..Len(tokens) : mask'[Len(mask) + i] = 1
  BY TokensReceived
<1>2. OutputInv'
  BY NoOutputYet
<1>3. mask \in Seq({0, 1}) /\ mask' \in Seq({0, 1}) /\ Len(mask) \in Nat /\ Len(mask') \in Nat /\ Len(tokens) \in Nat
  BY <1>1 DEF ListInv
<1>4. /\ running \in BOOLEAN /\ partial \in BOOLEAN /\ ResponseLength \in Nat \ {0} /\ MaxTurn \in Nat \ {0}
  BY LoopAssumption DEF StageInv
<1>5. ASSUME piece' = <<>> PROVE PieceInv'
  BY <1>1, <1>5, PieceDone
<1>6. CASE Len(tokens) > 0 /\ piece' = <<>> /\ \E seen \in Seq(Generated) : EndTurn(seen)
  <2>1. PICK seen \in Seq(Generated) : EndTurn(seen)
    BY <1>6
  <2>2. Len(mask') > 0
    BY <1>1, <1>3, <1>6
  <2>3. TurnInv' /\ state' \in {"PROCESSING_TOOLS", "TERMINATED"} /\ mask' # <<>>
    BY <1>1, <2>1, <2>2, TurnEnds
  <2>4. StageInv'
    BY <1>4, <2>3 DEF StageInv
  <2> QED  BY <1>1, <1>2, <1>5, <1>6, <2>3, <2>4
<1>7. CASE /\ Len(mask') >= ResponseLength /\ piece' = <<>>
           /\ assistantTurns' = assistantTurns + 1 /\ state' = "TERMINATED"
  <2>1. mask' # <<>>
    BY <1>3, <1>4, <1>7
  <2>2. StageInv'
    BY <1>4, <1>7, <2>1 DEF StageInv
  <2>3. /\ assistantTurns \in Nat /\ userTurns \in Nat /\ assistantTurns = userTurns
        /\ MaxAssistantTurns > 0 => assistantTurns < MaxAssistantTurns
        /\ MaxUserTurns > 0 => userTurns <= MaxUserTurns
        /\ MaxAssistantTurns \in Nat /\ MaxUserTurns \in Nat
    BY LoopAssumption DEF TurnInv
  <2>4. MaxAssistantTurns > 0 => assistantTurns + 1 <= MaxAssistantTurns
    BY <2>3
  <2>5. TurnInv'
    BY <1>7, <2>3, <2>4 DEF TurnInv
  <2> QED  BY <1>1, <1>2, <1>5, <1>7, <2>2, <2>5
<1>8. CASE /\ Len(mask') < ResponseLength /\ Len(piece) + Len(tokens) < MaxTurn
           /\ piece' = piece \o tokens /\ partial /\ UNCHANGED <<assistantTurns, state>>
  <2>1. StageInv'
    BY <1>4, <1>8 DEF StageInv
  <2>2. TurnInv'
    BY <1>8 DEF TurnInv
  <2>3. piece \in Seq(Generated) /\ Len(piece) \in Nat /\ Len(piece) <= Len(mask)
    BY DEF PieceInv
  <2>4. piece' \in Seq(Generated) /\ Len(piece') = Len(piece) + Len(tokens)
    <3>1. piece \in Seq(Generated) /\ tokens \in Seq(Generated)
      BY <2>3
    <3> QED  BY ONLY <1>8, <3>1, ConcatFacts
  <2>5. Len(piece') <= Len(mask') /\ Len(piece') < MaxTurn
    BY <1>1, <1>3, <1>8, <2>3, <2>4
  <2>6. Ends(prompt', piece') /\ Ends(logps', piece') /\ Ends(mask', Repeat(1, Len(piece')))
    BY <1>8, <2>4, PieceGrows DEF Extend
  <2>7. PieceInv'
    BY <1>8, <2>4, <2>5, <2>6 DEF PieceInv
  <2> QED  BY <1>1, <1>2, <2>1, <2>2, <2>7
<1> QED  BY <1>6, <1>7, <1>8

\* A generation in one call.
LEMMA WholeStep ==
    ASSUME Inv, GenerateWhole
    PROVE  Inv'
<1>1. /\ running /\ ~asking /\ ~partial /\ state = "GENERATING" /\ UNCHANGED <<control, piece>>
      /\ tokenVersions' = tokenVersions \o
         [i \in 1..Len(mask') - Len(mask) |-> IF mask'[Len(mask) + i] = 1 THEN runVersion ELSE -1]
  BY DEF GenerateWhole, Turn, Generating
<1>2. PICK turn \in Turns : Extend(turn) /\ \E seen \in Seen(turn) : EndTurn(seen)
  BY DEF GenerateWhole, Turn, Generating
<1>3. turn \in Seq(Generated) /\ Len(turn) > 0
  BY TurnFacts
<1>4. \E seen \in Seq(Generated) : EndTurn(seen)
  <2>1. ASSUME NEW i \in 1..Len(turn) PROVE SubSeq(turn, i, Len(turn)) \in Seq(Generated)
    <3>1. \A j \in i..Len(turn) : turn[j] \in Generated
      BY <1>3
    <3>2. i \in Int /\ Len(turn) \in Int
      BY <1>3
    <3> QED  BY ONLY <3>1, <3>2, SubSeqProperties
  <2>2. Seen(turn) \subseteq Seq(Generated)
    BY <1>3, <2>1 DEF Seen
  <2> QED  BY <1>2, <2>2
<1>5. piece' = <<>> /\ UNCHANGED <<running, partial, version, runVersion, first, span>> /\ asking' = FALSE
  BY <1>1 DEF Inv, PieceInv, StageInv, control
<1>6. UNCHANGED <<userTurns, output>>
  BY <1>4 DEF EndTurn
<1> QED  BY <1>1, <1>2, <1>3, <1>4, <1>5, <1>6, TokensStep

\* A generation that the cancel interrupts.
LEMMA InterruptedStep ==
    ASSUME Inv, Interrupted
    PROVE  Inv'
<1>1. asking /\ running /\ partial /\ state = "GENERATING" /\ UNCHANGED <<calls, userTurns, messages, output>>
  BY DEF Interrupted, Inv, StageInv
<1>2. PICK tokens \in Turns \cup {<<>>} :
         /\ Received(tokens)
         /\ IF Len(mask') >= ResponseLength
              THEN assistantTurns' = assistantTurns + 1 /\ state' = "TERMINATED" /\ piece' = <<>>
              ELSE /\ Len(piece) + Len(tokens) < MaxTurn
                   /\ piece' = piece \o tokens
                   /\ UNCHANGED <<assistantTurns, state>>
  BY DEF Interrupted
<1>3. tokens \in Seq(Generated)
  <2>1. CASE tokens \in Turns
    BY <2>1, TurnFacts
  <2>2. CASE tokens = <<>>
    BY <2>2
  <2> QED  BY <2>1, <2>2
<1>4. /\ asking' = FALSE /\ Extend(tokens) /\ tokenVersions' = tokenVersions \o Repeat(runVersion, Len(tokens))
      /\ UNCHANGED <<running, partial, version, runVersion, first, span>>
  BY <1>2 DEF Received
<1>5. ~(Len(mask') >= ResponseLength) => Len(mask') < ResponseLength
  <2>1. ListInv' /\ Len(mask') = Len(mask) + Len(tokens)
    BY <1>3, <1>4, TokensReceived DEF Inv
  <2> QED  BY <2>1, LoopAssumption DEF ListInv
<1> QED  BY <1>1, <1>2, <1>3, <1>4, <1>5, TokensStep

\* A generation that ends by itself.
LEMMA CompletedStep ==
    ASSUME Inv, Completed
    PROVE  Inv'
<1>1. asking /\ running /\ state = "GENERATING" /\ piece' = <<>>
  BY DEF Completed, Inv, StageInv
<1>2. PICK tokens \in Turns : Received(tokens) /\ EndTurn(tokens)
  BY DEF Completed
<1>3. tokens \in Seq(Generated) /\ Len(tokens) > 0
  BY TurnFacts
<1>4. /\ asking' = FALSE /\ Extend(tokens) /\ tokenVersions' = tokenVersions \o Repeat(runVersion, Len(tokens))
      /\ UNCHANGED <<running, partial, version, runVersion, first, span>>
  BY <1>2 DEF Received
<1>5. UNCHANGED <<userTurns, output>>
  BY <1>2 DEF EndTurn
<1> QED  BY <1>1, <1>2, <1>3, <1>4, <1>5, TokensStep

\* The output is built.
LEMMA FinishStep ==
    ASSUME Inv, FinishRun
    PROVE  Inv'
<1> USE DEF Inv
<1>1. /\ state = "TERMINATED" /\ output = NoOutput /\ output' = Built(Response) /\ running' = FALSE
      /\ UNCHANGED <<state, prompt, mask, logps, calls, userTurns, assistantTurns, messages>>
      /\ UNCHANGED <<partial, asking, version, runVersion, first, piece, tokenVersions>>
      /\ span' = [start |-> first, end |-> runVersion]
  BY DEF FinishRun, Finish
<1>2. ListInv' /\ PieceInv' /\ TurnInv' /\ VersionInv'
  BY <1>1 DEF ListInv, Aligned, PieceInv, TurnInv, VersionInv, FinishRun
<1>3. StageInv'
  BY <1>1 DEF StageInv
<1>4. OutputInv'
  <2>1. Built(Response) # NoOutput
    <3>1. DOMAIN Built(Response) # DOMAIN NoOutput
      BY DEF Built, NoOutput
    <3> QED  BY <3>1
  <2> QED  BY <1>1, <2>1 DEF OutputInv, Built, Response, Cut
<1> QED  BY <1>2, <1>3, <1>4

\* No step leaves the invariant.
LEMMA StepInv ==
    ASSUME Inv, [PartialNext]_partialVars
    PROVE  Inv'
<1>1. CASE Run \/ Interrupt \/ Ask \/ Rollouter \/ UNCHANGED partialVars
  BY <1>1, ControlStep
<1>2. CASE Turn(Pending)
  BY <1>2, PendingStep
<1>3. CASE Turn(ProcessingTools)
  BY <1>3, ToolsStep
<1>4. CASE GenerateWhole
  BY <1>4, WholeStep
<1>5. CASE Interrupted
  BY <1>5, InterruptedStep
<1>6. CASE Completed
  BY <1>6, CompletedStep
<1>7. CASE FinishRun
  BY <1>7, FinishStep
<1> QED  BY <1>1, <1>2, <1>3, <1>4, <1>5, <1>6, <1>7 DEF PartialNext, Loop

\* The invariant holds of every behaviour.
LEMMA Invariant == PartialSpec => []Inv
<1>1. PartialInit => Inv
  BY InitInv
<1>2. Inv /\ [PartialNext]_partialVars => Inv'
  BY StepInv
<1> QED  BY <1>1, <1>2, PTL DEF PartialSpec

-----------------------------------------------------------------------------
(* What the invariant says of a run.                                       *)

\* The part of a list that is kept for the output.
LEMMA CutFacts ==
    ASSUME NEW S, NEW list \in Seq(S)
    PROVE  /\ Cut(list) \in Seq(S)
           /\ Len(Cut(list)) = IF Len(list) < ResponseLength THEN Len(list) ELSE ResponseLength
           /\ Len(Cut(list)) <= Len(list)
           /\ \A i \in 1..Len(Cut(list)) : Cut(list)[i] = list[i]
<1> DEFINE n == IF Len(list) < ResponseLength THEN Len(list) ELSE ResponseLength
<1>1. n \in Nat /\ n <= Len(list)
  BY LoopAssumption
<1>2. \A i \in 1..n : list[i] \in S
  BY <1>1
<1>3. Cut(list) = SubSeq(list, 1, n)
  BY DEF Cut
<1> HIDE DEF n
<1>4. /\ SubSeq(list, 1, n) \in Seq(S) /\ Len(SubSeq(list, 1, n)) = IF 1 <= n THEN n - 1 + 1 ELSE 0
      /\ \A i \in 1..n - 1 + 1 : SubSeq(list, 1, n)[i] = list[1 + i - 1]
  BY <1>1, <1>2, SubSeqProperties
<1>5. Len(SubSeq(list, 1, n)) = n /\ n - 1 + 1 = n /\ \A i \in 1..n : 1 + i - 1 = i
  BY <1>1, <1>4
<1>6. Cut(list) \in Seq(S) /\ Len(Cut(list)) = n /\ \A i \in 1..n : Cut(list)[i] = list[i]
  BY <1>3, <1>4, <1>5
<1> QED  BY <1>1, <1>6 DEF n

\* The response is the part of the prompt that the mask stands for.
LEMMA ResponseFacts ==
    ASSUME ListInv, mask # <<>>
    PROVE  /\ Response \in Seq(Token) /\ Len(Response) = Len(mask)
           /\ \A i \in 1..Len(mask) : Response[i] = prompt[Len(prompt) - Len(mask) + i]
<1>1. prompt \in Seq(Token) /\ mask \in Seq({0, 1}) /\ Len(prompt) - Len(mask) \in Nat
  BY LoopAssumption DEF ListInv, Aligned
<1> DEFINE from == Len(prompt) - Len(mask) + 1  to == Len(prompt)
<1>2. from \in 1..to + 1 /\ to \in Nat /\ to - from + 1 = Len(mask) /\ Len(mask) \in Nat /\ Len(mask) > 0
  BY <1>1
<1>3. Response = SubSeq(prompt, from, to)
  BY DEF Response
<1>4. \A i \in from..to : prompt[i] \in Token
  BY <1>1, <1>2
<1>5. \A i \in 1..Len(mask) : from + i - 1 = Len(prompt) - Len(mask) + i
  BY <1>1
<1> HIDE DEF from, to
<1>6. /\ SubSeq(prompt, from, to) \in Seq(Token)
      /\ Len(SubSeq(prompt, from, to)) = IF from <= to THEN to - from + 1 ELSE 0
      /\ \A i \in 1..to - from + 1 : SubSeq(prompt, from, to)[i] = prompt[from + i - 1]
  BY <1>2, <1>4, SubSeqProperties
<1>7. Len(SubSeq(prompt, from, to)) = Len(mask)
  BY <1>2, <1>6
<1>8. \A i \in 1..Len(mask) : SubSeq(prompt, from, to)[i] = prompt[Len(prompt) - Len(mask) + i]
  BY <1>2, <1>5, <1>6
<1> QED  BY <1>3, <1>6, <1>7, <1>8

\* What comes out can be trained on.
LEMMA Trainable ==
    ASSUME ListInv, output # NoOutput => mask # <<>> /\ output = Built(Response)
    PROVE  OutputTrainable
<1> SUFFICES ASSUME output # NoOutput
             PROVE  /\ Len(output.response) = Len(output.mask) /\ Len(output.logps) = Len(output.mask)
                    /\ Len(output.mask) \in 1..ResponseLength
                    /\ \A i \in 1..Len(output.mask) :
                         output.logps[i] = IF output.mask[i] = 1 THEN output.response[i] ELSE "zero"
  BY DEF OutputTrainable
<1>1. mask # <<>> /\ output = Built(Response)
  OBVIOUS
<1>2. output.response = Cut(Response) /\ output.mask = Cut(mask) /\ output.logps = Cut(logps)
  BY <1>1 DEF Built
<1>3. /\ Response \in Seq(Token) /\ Len(Response) = Len(mask)
      /\ \A i \in 1..Len(mask) : Response[i] = prompt[Len(prompt) - Len(mask) + i]
  BY <1>1, ResponseFacts
<1>4. /\ mask \in Seq({0, 1}) /\ logps \in Seq(Logp) /\ Len(logps) = Len(mask)
      /\ \A i \in 1..Len(mask) : logps[i] = IF mask[i] = 1 THEN prompt[Len(prompt) - Len(mask) + i] ELSE "zero"
  BY DEF ListInv, Aligned
<1>5. Len(mask) \in Nat /\ Len(mask) > 0 /\ ResponseLength \in Nat \ {0}
  BY <1>1, <1>4, LoopAssumption
<1>6. /\ Len(Cut(mask)) = IF Len(mask) < ResponseLength THEN Len(mask) ELSE ResponseLength
      /\ \A i \in 1..Len(Cut(mask)) : Cut(mask)[i] = mask[i]
  BY <1>4, CutFacts
<1>7. /\ Len(Cut(logps)) = IF Len(logps) < ResponseLength THEN Len(logps) ELSE ResponseLength
      /\ \A i \in 1..Len(Cut(logps)) : Cut(logps)[i] = logps[i]
  <2>1. logps \in Seq(Logp)
    BY <1>4
  <2> QED  BY ONLY <2>1, CutFacts
<1>8. /\ Len(Cut(Response)) = IF Len(Response) < ResponseLength THEN Len(Response) ELSE ResponseLength
      /\ \A i \in 1..Len(Cut(Response)) : Cut(Response)[i] = Response[i]
  <2>1. Response \in Seq(Token)
    BY <1>3
  <2> QED  BY ONLY <2>1, CutFacts
<1>9. /\ Len(Cut(Response)) = Len(Cut(mask)) /\ Len(Cut(logps)) = Len(Cut(mask))
      /\ Len(Cut(mask)) \in 1..ResponseLength /\ Len(Cut(mask)) <= Len(mask)
  BY <1>3, <1>4, <1>5, <1>6, <1>7, <1>8
<1>10. ASSUME NEW i \in 1..Len(Cut(mask))
       PROVE  Cut(logps)[i] = IF Cut(mask)[i] = 1 THEN Cut(Response)[i] ELSE "zero"
  <2>1. i \in 1..Len(mask) /\ i \in 1..Len(Cut(logps)) /\ i \in 1..Len(Cut(Response))
    BY <1>5, <1>9
  <2>2. Cut(logps)[i] = logps[i] /\ Cut(mask)[i] = mask[i] /\ Cut(Response)[i] = Response[i]
    BY <2>1, <1>6, <1>7, <1>8
  <2> QED  BY <2>1, <2>2, <1>3, <1>4
<1> QED  BY <1>2, <1>9, <1>10

\* The versions it reports enclose those of its tokens.
LEMMA SpanCovers == ASSUME Inv PROVE SpanCoversTokens
<1> SUFFICES ASSUME output # NoOutput, NEW i \in 1..Len(output.mask), output.mask[i] = 1
             PROVE  tokenVersions[i] \in span.start..span.end
  BY DEF SpanCoversTokens
<1>1. output = Built(Response) /\ span = [start |-> first, end |-> runVersion]
  BY DEF Inv, OutputInv
<1>2. output.mask = Cut(mask) /\ span.start = first /\ span.end = runVersion
  BY <1>1 DEF Built
<1>3. mask \in Seq({0, 1})
  BY DEF Inv, ListInv
<1>4. Len(Cut(mask)) <= Len(mask) /\ \A k \in 1..Len(Cut(mask)) : Cut(mask)[k] = mask[k]
  BY ONLY <1>3, CutFacts
<1>5. Len(Cut(mask)) \in Nat
  BY ONLY <1>3, CutFacts
<1>6. i \in 1..Len(mask) /\ mask[i] = 1
  BY <1>2, <1>3, <1>4, <1>5
<1> QED  BY <1>2, <1>6 DEF Inv, VersionInv

\* The limits on turns hold.
LEMMA TurnsAreBounded == ASSUME Inv PROVE TurnsBounded
<1>1. TurnInv
  BY DEF Inv
<1>2. assistantTurns - userTurns \in {0, 1}
  BY <1>1 DEF TurnInv
<1> QED  BY <1>1, <1>2 DEF TurnInv, TurnsBounded

\* The lists are in step.
LEMMA InStep == ASSUME ListInv PROVE ListsAligned
BY DEF ListInv, Aligned, ListsAligned

\* However often it is interrupted, a run's lists are in step at every moment and what it returns
\* can be trained on, within the limits on turns, and reports the versions of all its tokens.
THEOREM ResumedRunsAreSound == PartialSpec => []ResumedIsSound
<1>1. Inv => ResumedIsSound
  BY Trainable, SpanCovers, TurnsAreBounded, InStep DEF ResumedIsSound, Inv, OutputInv, StageInv
<1> QED  BY <1>1, Invariant, PTL

\* And an output has its versions: nothing leaves the loop without them.
THEOREM OutputsAreSound ==
    PartialSpec => [](OutputTrainable /\ TurnsBounded /\ SpanCoversTokens /\ RoomToGenerate)
<1>1. Inv => RoomToGenerate
  <2> SUFFICES ASSUME Inv, state = "GENERATING" PROVE Len(prompt) < MaxModelLen
    BY DEF RoomToGenerate
  <2>1. Len(prompt) - Len(mask) \in 0..PromptLength /\ prompt \in Seq(Token) /\ mask \in Seq({0, 1})
    BY DEF Inv, ListInv, Aligned
  <2>2. Len(mask) < ResponseLength
    BY DEF Inv, StageInv
  <2> QED  BY <2>1, <2>2, LoopAssumption DEF MaxModelLen
<1>2. Inv => OutputTrainable /\ TurnsBounded /\ SpanCoversTokens
  BY Trainable, SpanCovers, TurnsAreBounded DEF Inv, OutputInv, StageInv
<1> QED  BY <1>1, <1>2, Invariant, PTL

-----------------------------------------------------------------------------
(* The uninterrupted loop, with or without an interaction.                 *)

\* Where it stands. Only without an interaction is a generation known to have room: nothing
\* measures a user's answer.
WholeStageInv ==
    /\ state \in State /\ calls \in Nat
    /\ state = "PENDING" => prompt = <<>> /\ mask = <<>> /\ logps = <<>>
    /\ state = "GENERATING" /\ ~Interactive => Len(mask) < ResponseLength
    /\ state \in {"PROCESSING_TOOLS", "INTERACTING", "TERMINATED"} => mask # <<>>
    /\ state = "INTERACTING" => Interactive

\* The turns alternate, except that a user's answer may be the last turn.
WholeTurnInv ==
    /\ assistantTurns \in Nat /\ userTurns \in Nat
    /\ state \in {"PENDING", "GENERATING", "raised"} => assistantTurns = userTurns
    /\ state \in {"PROCESSING_TOOLS", "INTERACTING"} => assistantTurns = userTurns + 1
    /\ state = "TERMINATED" => assistantTurns = userTurns \/ assistantTurns = userTurns + 1
    /\ MaxAssistantTurns > 0 /\ state # "TERMINATED" => assistantTurns < MaxAssistantTurns
    /\ MaxAssistantTurns > 0 => assistantTurns <= MaxAssistantTurns
    /\ MaxUserTurns > 0 => userTurns <= MaxUserTurns
    /\ MaxUserTurns > 0 /\ state \in {"PROCESSING_TOOLS", "INTERACTING"} => userTurns < MaxUserTurns

WholeOutputInv ==
    output # NoOutput => state = "TERMINATED" /\ output = Built(Response)

WholeInv == ListInv /\ WholeStageInv /\ WholeTurnInv /\ WholeOutputInv

\* Nothing has run yet.
LEMMA WholeInitInv == ASSUME Init PROVE WholeInv
<1> USE DEF Init
<1>1. ListInv
  BY LoopAssumption DEF ListInv, Aligned, Token, Logp
<1>2. WholeStageInv
  BY DEF WholeStageInv, State
<1>3. WholeTurnInv
  BY LoopAssumption DEF WholeTurnInv
<1> QED  BY <1>1, <1>2, <1>3 DEF WholeInv, WholeOutputInv

\* The calls found in a turn are counted.
LEMMA ToolCallsAreCounted ==
    ASSUME NEW turn \in Seq(Generated)
    PROVE  ToolCalls(turn) \in Nat
<1> DEFINE Begins(k) == /\ turn[k] = "open" /\ turn[k + 1] = "close"
                        /\ \A j \in 1..k - 1 :
                             turn[j] = "open" => \E e \in j + 1..k - 1 : turn[e] = "close"
           found == {k \in 1..Len(turn) - 1 : Begins(k)}
<1>1. IsFiniteSet(1..Len(turn) - 1)
  BY FS_Interval
<1>2. found \subseteq 1..Len(turn) - 1
  OBVIOUS
<1>3. ToolCalls(turn) = Cardinality(found)
  BY DEF ToolCalls
<1> HIDE DEF found
<1>4. IsFiniteSet(found)
  BY <1>1, <1>2, FS_Subset
<1> QED  BY <1>3, <1>4, FS_CardinalityType

\* Every part of a turn that the parser may be shown is a list of generated tokens.
LEMMA SeenFacts ==
    ASSUME NEW turn \in Seq(Generated), NEW seen \in Seen(turn)
    PROVE  seen \in Seq(Generated)
<1>1. ASSUME NEW i \in 1..Len(turn) PROVE SubSeq(turn, i, Len(turn)) \in Seq(Generated)
  <2>1. \A j \in i..Len(turn) : turn[j] \in Generated
    OBVIOUS
  <2>2. i \in Int /\ Len(turn) \in Int
    OBVIOUS
  <2> QED  BY ONLY <2>1, <2>2, SubSeqProperties
<1> QED  BY <1>1 DEF Seen

\* As long as there is no output, it is not built by the end of a turn or an answer.
LEMMA StillNoOutput ==
    ASSUME WholeOutputInv, state # "TERMINATED", output' = output
    PROVE  WholeOutputInv'
BY DEF WholeOutputInv

\* The first prompt.
LEMMA WholePendingStep == ASSUME WholeInv, Pending PROVE WholeInv'
<1> USE DEF WholeInv
<1>1. /\ state = "PENDING" /\ state' = "GENERATING"
      /\ UNCHANGED <<mask, logps, calls, userTurns, assistantTurns, messages, output>>
  BY DEF Pending
<1>2. PICK n \in 1..PromptLength : prompt' = Repeat("prompt", n)
  BY DEF Pending
<1>3. mask = <<>> /\ logps = <<>>
  BY <1>1 DEF WholeStageInv
<1>4. ListInv'
  <2>1. Repeat("prompt", n) \in Seq(Token) /\ Aligned(Repeat("prompt", n), <<>>, <<>>)
    BY AlignedAtFirst, LoopAssumption
  <2>2. prompt' \in Seq(Token) /\ Aligned(prompt', mask', logps')
    BY <2>1, <1>1, <1>2, <1>3
  <2>3. mask' \in Seq({0, 1}) /\ logps' \in Seq(Logp)
    BY <1>1, <1>3
  <2> QED  BY <2>2, <2>3 DEF ListInv, Aligned
<1>5. WholeStageInv'
  <2>1. Len(mask') < ResponseLength
    BY <1>1, <1>3, LoopAssumption
  <2> QED  BY <2>1, <1>1 DEF WholeStageInv, State
<1>6. WholeTurnInv'
  BY <1>1 DEF WholeTurnInv
<1>7. WholeOutputInv'
  BY <1>1, StillNoOutput
<1> QED  BY <1>4, <1>5, <1>6, <1>7

\* A generation, and the end of its turn.
LEMMA WholeGeneratingStep == ASSUME WholeInv, Generating PROVE WholeInv'
<1> USE DEF WholeInv
<1>1. PICK turn \in Turns : Extend(turn) /\ \E seen \in Seen(turn) : EndTurn(seen)
  BY DEF Generating
<1>2. turn \in Seq(Generated) /\ Len(turn) \in 1..MaxTurn
  BY TurnFacts
<1>3. PICK seen \in Seq(Generated) : EndTurn(seen)
  BY <1>1, <1>2, SeenFacts
<1>4. state = "GENERATING"
  BY DEF Generating
<1>5. assistantTurns' = assistantTurns + 1 /\ userTurns' = userTurns /\ output' = output
  BY <1>3 DEF EndTurn
<1>6. \/ /\ Len(mask') >= ResponseLength \/ TurnsUsedUp
         /\ state' = "TERMINATED" /\ calls' = calls
      \/ /\ ~(Len(mask') >= ResponseLength \/ TurnsUsedUp)
         /\ calls' = ToolCalls(seen)
         /\ state' \in {"PROCESSING_TOOLS", "INTERACTING", "TERMINATED"}
         /\ state' = "INTERACTING" => Interactive
  BY <1>3 DEF EndTurn
<1>7. calls' \in Nat
  BY <1>6, ToolCallsAreCounted DEF WholeStageInv
<1>8. prompt' = prompt \o turn /\ mask' = mask \o Repeat(1, Len(turn)) /\ logps' = logps \o turn
  BY <1>1 DEF Extend
<1>9. prompt \in Seq(Token) /\ mask \in Seq({0, 1}) /\ logps \in Seq(Logp) /\ Aligned(prompt, mask, logps)
  BY DEF ListInv
<1>10. /\ prompt' \in Seq(Token) /\ mask' \in Seq({0, 1}) /\ logps' \in Seq(Logp)
       /\ Aligned(prompt', mask', logps') /\ Len(mask') = Len(mask) + Len(turn)
  BY <1>2, <1>8, <1>9, AlignedByTokens
<1>11. ListInv'
  BY <1>10 DEF ListInv, Aligned
<1>12. mask' # <<>>
  <2>1. Len(mask') > 0
    BY <1>2, <1>9, <1>10, LoopAssumption
  <2> QED  BY <2>1
<1>13. WholeStageInv'
  BY <1>6, <1>7, <1>12 DEF WholeStageInv, State
<1>14. /\ assistantTurns \in Nat /\ userTurns \in Nat /\ assistantTurns = userTurns
       /\ MaxAssistantTurns > 0 => assistantTurns < MaxAssistantTurns
       /\ MaxUserTurns > 0 => userTurns <= MaxUserTurns
       /\ MaxAssistantTurns \in Nat /\ MaxUserTurns \in Nat
  BY <1>4, LoopAssumption DEF WholeTurnInv
<1>15. MaxAssistantTurns > 0 => assistantTurns + 1 <= MaxAssistantTurns
  BY <1>14
<1>16. state' # "TERMINATED" => /\ MaxAssistantTurns > 0 => assistantTurns + 1 < MaxAssistantTurns
                                /\ MaxUserTurns > 0 => userTurns < MaxUserTurns
  <2>1. ~TurnsUsedUp => /\ MaxAssistantTurns > 0 => assistantTurns + 1 < MaxAssistantTurns
                        /\ MaxUserTurns > 0 => userTurns < MaxUserTurns
    BY <1>5, <1>14 DEF TurnsUsedUp
  <2> QED  BY <1>6, <2>1
<1>17. state' \in {"PROCESSING_TOOLS", "INTERACTING", "TERMINATED"}
  BY <1>6
<1>18. WholeTurnInv'
  BY <1>5, <1>14, <1>15, <1>16, <1>17 DEF WholeTurnInv
<1>19. WholeOutputInv'
  BY <1>4, <1>5, StillNoOutput
<1> QED  BY <1>11, <1>13, <1>18, <1>19

\* An answer extends the lists by tokens that were not generated.
LEMMA AnswerExtends ==
    ASSUME ListInv, mask # <<>>, NEW word \in {"tool", "user"}, NEW n \in Answers,
           ExtendByAnswer(Repeat(word, n))
    PROVE  /\ ListInv' /\ mask' # <<>> /\ Len(mask') = Len(mask) + n
<1>1. n \in Nat
  BY LoopAssumption
<1>2. prompt \in Seq(Token) /\ mask \in Seq({0, 1}) /\ logps \in Seq(Logp) /\ Aligned(prompt, mask, logps)
  BY DEF ListInv
<1>3. logps # <<>>
  <2>1. Len(mask) > 0 /\ Len(logps) = Len(mask)
    BY <1>2 DEF Aligned
  <2> QED  BY <2>1
<1>4. Len(Repeat(word, n)) = n
  <2>1. word \in Token
    BY DEF Token
  <2> QED  BY <1>1, <2>1, RepeatFacts
<1>5. /\ prompt' = prompt \o Repeat(word, n) /\ mask' = mask \o Repeat(0, n)
      /\ logps' = logps \o Repeat("zero", n)
  BY <1>3, <1>4 DEF ExtendByAnswer
<1>6. /\ prompt' \in Seq(Token) /\ mask' \in Seq({0, 1}) /\ logps' \in Seq(Logp)
      /\ Aligned(prompt', mask', logps') /\ Len(mask') = Len(mask) + n
  BY <1>1, <1>2, <1>5, AlignedByAnswer
<1>7. mask' # <<>>
  <2>1. Len(mask') > 0
    BY <1>1, <1>2, <1>6
  <2> QED  BY <2>1
<1> QED  BY <1>6, <1>7 DEF ListInv, Aligned

\* The answers of tools, or the end of a trajectory they do not fit into.
LEMMA WholeToolsStep == ASSUME WholeInv, ProcessingTools PROVE WholeInv'
<1> USE DEF WholeInv
<1>1. state = "PROCESSING_TOOLS" /\ UNCHANGED <<calls, assistantTurns, output>>
  BY DEF ProcessingTools
<1>2. mask # <<>>
  BY <1>1 DEF WholeStageInv
<1>3. WholeOutputInv'
  BY <1>1, StillNoOutput
<1>4. CASE state' = "TERMINATED" /\ UNCHANGED <<prompt, mask, logps, userTurns>>
  <2>1. ListInv'
    BY <1>4 DEF ListInv, Aligned
  <2>2. WholeStageInv'
    BY <1>1, <1>2, <1>4 DEF WholeStageInv, State
  <2>3. WholeTurnInv'
    BY <1>1, <1>4 DEF WholeTurnInv
  <2> QED  BY <1>3, <2>1, <2>2, <2>3
<1>5. ASSUME NEW n \in Answers, ~(Len(mask) + n >= ResponseLength),
             ExtendByAnswer(Repeat("tool", n)), userTurns' = userTurns + 1, state' = "GENERATING"
      PROVE  WholeInv'
  <2>1. ListInv' /\ mask' # <<>> /\ Len(mask') = Len(mask) + n
    BY <1>2, <1>5, AnswerExtends
  <2>2. Len(mask') < ResponseLength
    <3>1. n \in Nat /\ ResponseLength \in Nat /\ Len(mask) \in Nat
      BY LoopAssumption DEF ListInv
    <3> QED  BY <1>5, <2>1, <3>1
  <2>3. WholeStageInv'
    BY <1>1, <1>5, <2>2 DEF WholeStageInv, State
  <2>4. WholeTurnInv'
    BY <1>1, <1>5, LoopAssumption DEF WholeTurnInv
  <2> QED  BY <1>3, <2>1, <2>3, <2>4
<1>6. \/ state' = "TERMINATED" /\ UNCHANGED <<prompt, mask, logps, userTurns>>
      \/ \E n \in Answers : /\ ~(Len(mask) + n >= ResponseLength) /\ ExtendByAnswer(Repeat("tool", n))
                            /\ userTurns' = userTurns + 1 /\ state' = "GENERATING"
  BY DEF ProcessingTools
<1> QED  BY <1>4, <1>5, <1>6

\* The answer of a user, however long.
LEMMA WholeInteractingStep == ASSUME WholeInv, Interacting PROVE WholeInv'
<1> USE DEF WholeInv
<1>1. /\ state = "INTERACTING" /\ Interactive /\ mask # <<>>
      /\ userTurns' = userTurns + 1 /\ state' \in {"TERMINATED", "GENERATING"}
      /\ UNCHANGED <<calls, assistantTurns, output>>
  BY DEF Interacting, WholeStageInv
<1>2. PICK n \in Answers : ExtendByAnswer(Repeat("user", n))
  BY DEF Interacting
<1>3. ListInv' /\ mask' # <<>>
  BY <1>1, <1>2, AnswerExtends
<1>4. WholeStageInv'
  BY <1>1, <1>3 DEF WholeStageInv, State
<1>5. WholeTurnInv'
  BY <1>1, LoopAssumption DEF WholeTurnInv
<1>6. WholeOutputInv'
  BY <1>1, StillNoOutput
<1> QED  BY <1>3, <1>4, <1>5, <1>6

\* A server that raises, and the output that is built.
LEMMA WholeEndStep == ASSUME WholeInv, NoRoom \/ Finish \/ UNCHANGED agent PROVE WholeInv'
<1> USE DEF WholeInv
<1>1. UNCHANGED <<prompt, mask, logps, calls, userTurns, assistantTurns>>
  BY DEF NoRoom, Finish, agent
<1>2. ListInv'
  BY <1>1 DEF ListInv, Aligned
<1>3. CASE NoRoom
  <2>1. state = "GENERATING" /\ state' = "raised" /\ output' = output
    BY <1>3 DEF NoRoom
  <2>2. WholeOutputInv'
    BY <2>1, StillNoOutput
  <2> QED  BY <1>1, <1>2, <2>1, <2>2 DEF WholeStageInv, WholeTurnInv, State
<1>4. CASE Finish
  <2>1. state = "TERMINATED" /\ state' = state /\ output' = Built(Response)
    BY <1>4 DEF Finish
  <2>2. WholeOutputInv'
    BY <1>1, <2>1 DEF WholeOutputInv, Built, Response, Cut
  <2> QED  BY <1>1, <1>2, <2>1, <2>2 DEF WholeStageInv, WholeTurnInv
<1>5. CASE UNCHANGED agent
  BY <1>2, <1>5 DEF agent, WholeStageInv, WholeTurnInv, WholeOutputInv, Built, Response, Cut
<1> QED  BY <1>3, <1>4, <1>5

\* The invariant holds of every behaviour of the uninterrupted loop.
LEMMA WholeInvariant == Spec => []WholeInv
<1>1. Init => WholeInv
  BY WholeInitInv
<1>2. WholeInv /\ [Next]_agent => WholeInv'
  BY WholePendingStep, WholeGeneratingStep, WholeToolsStep, WholeInteractingStep, WholeEndStep
     DEF Next
<1> QED  BY <1>1, <1>2, PTL DEF Spec

\* ToolAgentLoop.run, with tools, with a user or with both, for every length and every limit: the
\* lists its handlers extend on their own stay in step, its output can be trained on position by
\* position, and the limits on turns hold.
THEOREM TrajectoriesAreSound ==
    Spec => [](TypeOK /\ ListsAligned /\ OutputTrainable /\ TurnsBounded)
<1>1. WholeInv => TypeOK
  BY DEF WholeInv, ListInv, WholeStageInv, WholeTurnInv, WholeOutputInv, TypeOK, Token, Logp
<1>2. WholeInv => ListsAligned
  BY InStep DEF WholeInv
<1>3. WholeInv => OutputTrainable
  BY Trainable DEF WholeInv, WholeOutputInv, WholeStageInv
<1>4. WholeInv => TurnsBounded
  BY DEF WholeInv, WholeTurnInv, WholeStageInv, TurnsBounded, State
<1> QED  BY <1>1, <1>2, <1>3, <1>4, WholeInvariant, PTL

\* Without an interaction the server is always asked with room for a token.
THEOREM ToolsLeaveRoom ==
    ASSUME ~Interactive
    PROVE  Spec => []RoomToGenerate
<1>1. WholeInv => RoomToGenerate
  <2> SUFFICES ASSUME WholeInv, state = "GENERATING" PROVE Len(prompt) < MaxModelLen
    BY DEF RoomToGenerate
  <2>1. Len(prompt) - Len(mask) \in 0..PromptLength /\ prompt \in Seq(Token) /\ mask \in Seq({0, 1})
    BY DEF WholeInv, ListInv, Aligned
  <2>2. Len(mask) < ResponseLength
    BY DEF WholeInv, WholeStageInv
  <2> QED  BY <2>1, <2>2, LoopAssumption DEF MaxModelLen
<1> QED  BY <1>1, WholeInvariant, PTL

-----------------------------------------------------------------------------
(* The interrupted loop implements the uninterrupted one.                  *)

\* Without a piece the lists are what the uninterrupted loop would have.
LEMMA NothingPending ==
    ASSUME NEW S, NEW list \in Seq(S)
    PROVE  SubSeq(list, 1, Len(list) - Len(<<>>)) = list
<1>1. Len(list) - Len(<<>>) = Len(list)
  OBVIOUS
<1> QED  BY <1>1, SubSeqFull

\* In a step between two states without a piece.
LEMMA AllSettled ==
    ASSUME Inv, Inv', piece = <<>>, piece' = <<>>
    PROVE  /\ Settled(prompt) = prompt /\ Settled(mask) = mask /\ Settled(logps) = logps
           /\ SubSeq(prompt', 1, Len(prompt') - Len(piece')) = prompt'
           /\ SubSeq(mask', 1, Len(mask') - Len(piece')) = mask'
           /\ SubSeq(logps', 1, Len(logps') - Len(piece')) = logps'
BY NothingPending DEF Inv, ListInv, Settled

\* Both loops find the same tool calls in what they look at.
LEMMA SameCalls == ASSUME NEW turn PROVE Uninterrupted!ToolCalls(turn) = ToolCalls(turn)
BY DEF ToolCalls, Uninterrupted!ToolCalls, Cardinality, Uninterrupted!Cardinality

\* A whole turn of the uninterrupted loop: the piece and what the last call returned, of which the
\* parser is shown a part that ends with it.
LEMMA GeneratingMaps ==
    ASSUME Inv, Inv', state = "GENERATING", piece' = <<>>,
           NEW tokens \in Seq(Generated), Extend(tokens),
           Len(piece) + Len(tokens) \in 1..MaxTurn, Len(prompt) + Len(tokens) <= MaxModelLen,
           NEW i \in 1..Len(piece \o tokens),
           EndTurn(SubSeq(piece \o tokens, i, Len(piece \o tokens)))
    PROVE  Uninterrupted!Generating
<1> DEFINE turn == piece \o tokens  seen == SubSeq(turn, i, Len(turn))
           P == Settled(prompt)  M == Settled(mask)  L == Settled(logps)
<1>1. /\ prompt \in Seq(Token) /\ mask \in Seq({0, 1}) /\ logps \in Seq(Logp)
      /\ prompt' \in Seq(Token) /\ mask' \in Seq({0, 1}) /\ logps' \in Seq(Logp)
      /\ Len(logps) = Len(mask) /\ Len(prompt) - Len(mask) \in Nat
  BY LoopAssumption DEF Inv, ListInv, Aligned
<1>2. /\ piece \in Seq(Generated) /\ Len(piece) \in Nat /\ Len(tokens) \in Nat /\ Len(piece) <= Len(mask)
  BY DEF Inv, PieceInv
<1>3. turn \in Seq(Generated) /\ Len(turn) = Len(piece) + Len(tokens)
  <2>1. piece \in Seq(Generated) /\ tokens \in Seq(Generated)
    BY <1>2
  <2> QED  BY ONLY <2>1, ConcatFacts
<1>4. turn \in Uninterrupted!Turns
  <2>0. turn \in Seq(Generated) /\ Len(turn) \in 1..MaxTurn
    BY <1>3
  <2> HIDE DEF turn
  <2>1. turn \in [1..Len(turn) -> Generated] /\ Len(turn) \in 1..MaxTurn
    BY <2>0, LenProperties
  <2>2. Uninterrupted!Turns = UNION {[1..n -> Generated] : n \in 1..MaxTurn}
    BY DEF Uninterrupted!Turns, Uninterrupted!Generated, Generated
  <2> QED  BY <2>1, <2>2
<1>5. Len(P) = Len(prompt) - Len(piece)
  <2>1. \A k \in 1..Len(prompt) - Len(piece) : prompt[k] \in Token
    BY <1>1, <1>2
  <2>2. Len(prompt) - Len(piece) \in Nat
    BY <1>1, <1>2
  <2>3. Len(SubSeq(prompt, 1, Len(prompt) - Len(piece)))
          = IF 1 <= Len(prompt) - Len(piece) THEN Len(prompt) - Len(piece) - 1 + 1 ELSE 0
    BY <2>1, <2>2, SubSeqProperties
  <2> QED  BY <2>2, <2>3 DEF Settled
<1>6. Len(P) < MaxModelLen /\ Len(P) + Len(turn) <= MaxModelLen
  <2>1. MaxModelLen \in Nat
    BY LoopAssumption DEF MaxModelLen
  <2> HIDE DEF P, turn
  <2> QED  BY <1>1, <1>2, <1>3, <1>5, <2>1
<1>7. /\ SubSeq(prompt', 1, Len(prompt') - Len(piece')) = prompt'
      /\ SubSeq(mask', 1, Len(mask') - Len(piece')) = mask'
      /\ SubSeq(logps', 1, Len(logps') - Len(piece')) = logps'
  BY <1>1, NothingPending
<1>8. prompt' = P \o turn /\ logps' = L \o turn
  <2>1. prompt = P \o piece /\ logps = L \o piece
    BY DEF Inv, PieceInv, Ends, Settled
  <2>2. prompt' = prompt \o tokens /\ logps' = logps \o tokens
    BY DEF Extend
  <2>3. P \in Seq(Token)
    <3>1. \A k \in 1..Len(prompt) - Len(piece) : prompt[k] \in Token
      BY <1>1, <1>2
    <3>2. Len(prompt) - Len(piece) \in Int
      BY <1>1, <1>2
    <3> QED  BY ONLY <3>1, <3>2, SubSeqProperties DEF Settled
  <2>4. L \in Seq(Logp)
    <3>1. \A k \in 1..Len(logps) - Len(piece) : logps[k] \in Logp
      BY <1>1, <1>2
    <3>2. Len(logps) - Len(piece) \in Int
      BY <1>1, <1>2
    <3> QED  BY ONLY <3>1, <3>2, SubSeqProperties DEF Settled
  <2>5. /\ piece \in Seq(Token) /\ tokens \in Seq(Token) /\ piece \in Seq(Logp) /\ tokens \in Seq(Logp)
    BY <1>2 DEF Token, Logp
  <2> HIDE DEF P, L
  <2>6. (P \o piece) \o tokens = P \o (piece \o tokens)
    <3>1. piece \in Seq(Token) /\ tokens \in Seq(Token)
      BY ONLY <2>5
    <3> QED  BY ONLY <2>3, <3>1, ConcatAssociative, SMTT(30)
  <2>7. (L \o piece) \o tokens = L \o (piece \o tokens)
    <3>1. piece \in Seq(Logp) /\ tokens \in Seq(Logp)
      BY ONLY <2>5
    <3> QED  BY ONLY <2>4, <3>1, ConcatAssociative, SMTT(30)
  <2> QED  BY <2>1, <2>2, <2>6, <2>7
<1>9. mask' = M \o Repeat(1, Len(turn))
  <2>1. mask = M \o Repeat(1, Len(piece))
    <3>1. Len(Repeat(1, Len(piece))) = Len(piece)
      BY <1>2, RepeatFacts
    <3> QED  BY <3>1 DEF Inv, PieceInv, Ends, Settled
  <2>2. mask' = mask \o Repeat(1, Len(tokens))
    BY DEF Extend
  <2>3. M \in Seq({0, 1})
    <3>1. \A k \in 1..Len(mask) - Len(piece) : mask[k] \in {0, 1}
      BY <1>1, <1>2
    <3>2. Len(mask) - Len(piece) \in Int
      BY <1>1, <1>2
    <3> QED  BY ONLY <3>1, <3>2, SubSeqProperties DEF Settled
  <2>4. Repeat(1, Len(piece)) \in Seq({0, 1}) /\ Repeat(1, Len(tokens)) \in Seq({0, 1})
    <3>1. 1 \in {0, 1}
      OBVIOUS
    <3> QED  BY ONLY <3>1, <1>2, RepeatFacts
  <2> HIDE DEF M
  <2>5. (M \o Repeat(1, Len(piece))) \o Repeat(1, Len(tokens))
          = M \o (Repeat(1, Len(piece)) \o Repeat(1, Len(tokens)))
    BY ONLY <2>3, <2>4, ConcatAssociative, SMTT(30)
  <2>6. Repeat(1, Len(piece)) \o Repeat(1, Len(tokens)) = Repeat(1, Len(turn))
    BY <1>2, <1>3, RepeatTwice
  <2> QED  BY <2>1, <2>2, <2>5, <2>6
<1>10. Uninterrupted!Extend(turn)
  <2> HIDE DEF turn
  <2>1. prompt' = P \o turn /\ logps' = L \o turn /\ mask' = M \o [k \in 1..Len(turn) |-> 1]
    BY <1>8, <1>9 DEF Repeat
  <2> HIDE DEF P, M, L
  <2>2. /\ Settled(prompt)' = prompt' /\ Settled(mask)' = mask' /\ Settled(logps)' = logps'
    BY <1>7 DEF Settled
  <2> QED  BY <2>1, <2>2 DEF Uninterrupted!Extend, Uninterrupted!Repeat, P, M, L
<1>11. Uninterrupted!EndTurn(seen)
  <2> HIDE DEF seen
  <2>1. EndTurn(seen)
    BY DEF seen
  <2>2. Settled(mask)' = mask'
    BY <1>7 DEF Settled
  <2>3. Uninterrupted!ToolCalls(seen) = ToolCalls(seen)
    BY SameCalls
  <2>4. Uninterrupted!TurnsUsedUp <=> TurnsUsedUp
    BY DEF TurnsUsedUp, Uninterrupted!TurnsUsedUp
  <2> QED  BY <2>1, <2>2, <2>3, <2>4 DEF EndTurn, Uninterrupted!EndTurn
<1>12. seen \in Uninterrupted!Seen(turn)
  BY DEF Uninterrupted!Seen
<1>13. Len(P) < Uninterrupted!MaxModelLen /\ Len(P) + Len(turn) <= Uninterrupted!MaxModelLen
  BY <1>6 DEF MaxModelLen, Uninterrupted!MaxModelLen
<1> HIDE DEF turn, seen
<1> QED  BY <1>4, <1>10, <1>11, <1>12, <1>13 DEF Uninterrupted!Generating

\* The uninterrupted loop begins where this one does.
LEMMA InitMaps == PartialInit => Uninterrupted!Init
<1> SUFFICES ASSUME PartialInit PROVE Uninterrupted!Init
  OBVIOUS
<1>1. /\ prompt = <<>> /\ mask = <<>> /\ logps = <<>> /\ piece = <<>>
      /\ state = "PENDING" /\ calls = 0 /\ userTurns = 0 /\ assistantTurns = 0
      /\ messages = <<>> /\ output = NoOutput
  BY DEF PartialInit, Init
<1>2. SubSeq(<<>>, 1, Len(<<>>) - Len(<<>>)) = <<>>
  OBVIOUS
<1> QED  BY <1>1, <1>2 DEF Uninterrupted!Init, Settled, Uninterrupted!NoOutput, NoOutput

\* A run's handler that is not interrupted is a handler of the uninterrupted loop.
LEMMA TurnMaps ==
    ASSUME Inv, Inv', Turn(Pending) \/ Turn(ProcessingTools) \/ FinishRun
    PROVE  Uninterrupted!Next
<1>1. piece = <<>> /\ piece' = <<>>
  BY DEF Inv, PieceInv, Turn, Pending, ProcessingTools, FinishRun, Finish
<1>2. /\ Settled(prompt) = prompt /\ Settled(mask) = mask /\ Settled(logps) = logps
      /\ Settled(prompt)' = prompt' /\ Settled(mask)' = mask' /\ Settled(logps)' = logps'
  BY <1>1, AllSettled DEF Settled
<1>3. CASE Turn(Pending)
  <2>1. Pending
    BY <1>3 DEF Turn
  <2>2. Uninterrupted!Pending
    BY <1>2, <2>1 DEF Pending, Repeat, Uninterrupted!Pending, Uninterrupted!Repeat
  <2> QED  BY <2>2 DEF Uninterrupted!Next
<1>4. CASE Turn(ProcessingTools)
  <2>1. ProcessingTools
    BY <1>4 DEF Turn
  <2>2. \A tokens : ExtendByAnswer(tokens) => Uninterrupted!ExtendByAnswer(tokens)
    BY <1>2 DEF ExtendByAnswer, Repeat, Uninterrupted!ExtendByAnswer, Uninterrupted!Repeat
  <2>3. \A x, n : Repeat(x, n) = Uninterrupted!Repeat(x, n)
    BY DEF Repeat, Uninterrupted!Repeat
  <2>4. Uninterrupted!ProcessingTools
    BY <1>2, <2>1, <2>2, <2>3 DEF ProcessingTools, Uninterrupted!ProcessingTools
  <2> QED  BY <2>4 DEF Uninterrupted!Next
<1>5. CASE FinishRun
  <2>1. Finish
    BY <1>5 DEF FinishRun
  <2>2. Uninterrupted!Built(Uninterrupted!Response) = Built(Response)
    BY <1>2 DEF Built, Response, Cut, Uninterrupted!Built, Uninterrupted!Response, Uninterrupted!Cut
  <2>3. Uninterrupted!Finish
    BY <1>2, <2>1, <2>2 DEF Finish, Uninterrupted!Finish, NoOutput, Uninterrupted!NoOutput
  <2> QED  BY <2>3 DEF Uninterrupted!Next
<1> QED  BY <1>3, <1>4, <1>5

\* An interruption that does not end the trajectory is none for the uninterrupted loop.
LEMMA InterruptionIsSilent ==
    ASSUME Inv, Inv', Interrupted, ~(Len(mask') >= ResponseLength)
    PROVE  UNCHANGED Uninterrupted!agent
<1>1. PICK tokens \in Turns \cup {<<>>} :
         Extend(tokens) /\ piece' = piece \o tokens /\ UNCHANGED <<assistantTurns, state>>
  BY DEF Interrupted, Received
<1>2. tokens \in Seq(Generated)
  <2>1. CASE tokens \in Turns
    BY <2>1, TurnFacts
  <2>2. CASE tokens = <<>>
    BY <2>2
  <2> QED  BY <2>1, <2>2
<1>3. prompt' = prompt \o tokens /\ mask' = mask \o Repeat(1, Len(tokens)) /\ logps' = logps \o tokens
  BY <1>1 DEF Extend
<1>4. /\ SubSeq(prompt', 1, Len(prompt') - Len(piece')) = Settled(prompt)
      /\ SubSeq(logps', 1, Len(logps') - Len(piece')) = Settled(logps)
      /\ SubSeq(mask', 1, Len(mask') - Len(piece')) = Settled(mask)
  BY <1>1, <1>2, <1>3, PieceGrows DEF Inv
<1>5. Settled(prompt)' = Settled(prompt) /\ Settled(mask)' = Settled(mask) /\ Settled(logps)' = Settled(logps)
  BY <1>4 DEF Settled
<1>6. UNCHANGED <<calls, userTurns, messages, output>>
  BY DEF Interrupted
<1> QED  BY <1>1, <1>5, <1>6 DEF Uninterrupted!agent

\* One that does, and a generation that ends by itself, is the generation of a whole turn.
LEMMA TurnsMap ==
    ASSUME Inv, Inv', (Interrupted /\ Len(mask') >= ResponseLength) \/ Completed \/ GenerateWhole
    PROVE  Uninterrupted!Next
<1>1. /\ piece \in Seq(Generated) /\ Len(piece) \in Nat /\ MaxTurn \in Nat
      /\ prompt \in Seq(Token) /\ MaxModelLen \in Nat /\ mask \in Seq({0, 1})
  BY LoopAssumption DEF Inv, PieceInv, ListInv, MaxModelLen
<1>2. CASE Interrupted /\ Len(mask') >= ResponseLength
  <2>1. state = "GENERATING" /\ Len(mask) < ResponseLength
    BY <1>2 DEF Interrupted, Inv, StageInv
  <2>2. PICK tokens \in Turns \cup {<<>>} :
           /\ Fits(tokens) /\ Extend(tokens)
           /\ assistantTurns' = assistantTurns + 1 /\ state' = "TERMINATED" /\ piece' = <<>>
    BY <1>2 DEF Interrupted, Received
  <2>3. tokens \in Seq(Generated)
    <3>1. CASE tokens \in Turns
      BY <3>1, TurnFacts
    <3>2. CASE tokens = <<>>
      BY <3>2
    <3> QED  BY <2>2, <3>1, <3>2
  <2>4. Len(tokens) \in Nat /\ Len(mask') = Len(mask) + Len(tokens)
    <3>1. mask' = mask \o Repeat(1, Len(tokens)) /\ Len(tokens) \in Nat
      BY <2>2, <2>3 DEF Extend
    <3>2. Repeat(1, Len(tokens)) \in Seq({0, 1}) /\ Len(Repeat(1, Len(tokens))) = Len(tokens)
      <4>1. 1 \in {0, 1}
        OBVIOUS
      <4> QED  BY ONLY <3>1, <4>1, RepeatFacts
    <3>3. mask \in Seq({0, 1})
      BY <1>1
    <3>4. Len(mask \o Repeat(1, Len(tokens))) = Len(mask) + Len(Repeat(1, Len(tokens)))
      BY ONLY <3>2, <3>3, ConcatFacts
    <3> QED  BY <3>1, <3>2, <3>4
  <2>5. Len(tokens) > 0
    BY <1>1, <1>2, <2>1, <2>4, LoopAssumption
  <2>6. Len(piece) + Len(tokens) \in 1..MaxTurn /\ Len(prompt) + Len(tokens) <= MaxModelLen
    BY <1>1, <2>2, <2>4, <2>5 DEF Fits
  <2>7. Len(piece \o tokens) = Len(piece) + Len(tokens)
    BY ONLY <1>1, <2>3, ConcatFacts
  <2>8. 1 \in 1..Len(piece \o tokens)
    BY <2>6, <2>7
  <2>9. \A seen : EndTurn(seen)
    <3>1. UNCHANGED <<calls, userTurns, messages, output>>
      BY <1>2 DEF Interrupted
    <3> QED  BY <1>2, <2>2, <3>1 DEF EndTurn
  <2>10. Uninterrupted!Generating
    BY <2>1, <2>2, <2>3, <2>6, <2>8, <2>9, GeneratingMaps
  <2> QED  BY <2>10 DEF Uninterrupted!Next
<1>3. CASE Completed
  <2>1. PICK tokens \in Turns : Fits(tokens) /\ Extend(tokens) /\ EndTurn(tokens)
    BY <1>3 DEF Completed, Received
  <2>2. state = "GENERATING" /\ piece' = <<>>
    BY <1>3 DEF Completed, Inv, StageInv
  <2>3. tokens \in Seq(Generated) /\ Len(tokens) \in Nat /\ Len(tokens) > 0
    BY TurnFacts
  <2>4. Len(piece) + Len(tokens) \in 1..MaxTurn /\ Len(prompt) + Len(tokens) <= MaxModelLen
    BY <1>1, <2>1, <2>3 DEF Fits
  <2>5. Len(piece \o tokens) = Len(piece) + Len(tokens)
    BY ONLY <1>1, <2>3, ConcatFacts
  <2>6. Len(piece) + 1 \in 1..Len(piece \o tokens)
    BY <1>1, <2>3, <2>5
  <2>7. SubSeq(piece \o tokens, Len(piece) + 1, Len(piece \o tokens)) = tokens
    BY ONLY <1>1, <2>3, <2>5, SubSeqOfConcat2
  <2>8. EndTurn(SubSeq(piece \o tokens, Len(piece) + 1, Len(piece \o tokens)))
    BY <2>1, <2>7
  <2>9. Uninterrupted!Generating
    BY <2>1, <2>2, <2>3, <2>4, <2>6, <2>8, GeneratingMaps
  <2> QED  BY <2>9 DEF Uninterrupted!Next
<1>4. CASE GenerateWhole
  <2>1. piece = <<>> /\ piece' = <<>> /\ state = "GENERATING"
    BY <1>4 DEF GenerateWhole, Turn, Generating, Inv, PieceInv
  <2>2. PICK turn \in Turns : /\ Len(prompt) + Len(turn) <= MaxModelLen /\ Extend(turn)
                              /\ \E seen \in Seen(turn) : EndTurn(seen)
    BY <1>4 DEF GenerateWhole, Turn, Generating
  <2>3. turn \in Seq(Generated) /\ Len(turn) \in 1..MaxTurn
    BY TurnFacts
  <2>4. <<>> \o turn = turn /\ SubSeq(turn, 1, Len(turn)) = turn
    BY <2>3, ConcatEmptySeq, SubSeqFull
  <2>5. PICK i \in 1..Len(turn) : EndTurn(SubSeq(turn, i, Len(turn)))
    <3>1. 1 \in 1..Len(turn)
      BY <2>3
    <3> QED  BY <2>2, <2>4, <3>1 DEF Seen
  <2>6. piece \o turn = turn /\ Len(piece) + Len(turn) \in 1..MaxTurn
    BY <1>1, <2>1, <2>3, <2>4
  <2>7. i \in 1..Len(piece \o turn) /\ EndTurn(SubSeq(piece \o turn, i, Len(piece \o turn)))
    BY <2>5, <2>6
  <2>8. Uninterrupted!Generating
    BY <2>1, <2>2, <2>3, <2>6, <2>7, GeneratingMaps
  <2> QED  BY <2>8 DEF Uninterrupted!Next
<1> QED  BY <1>2, <1>3, <1>4

\* Every step is one of the uninterrupted loop, or none; what is not a run's changes nothing.
LEMMA StepMaps ==
    ASSUME Inv, Inv', [PartialNext]_partialVars
    PROVE  /\ [Uninterrupted!Next]_(Uninterrupted!agent)
           /\ ~running => UNCHANGED Uninterrupted!agent
<1>1. CASE Run \/ Interrupt \/ Ask \/ Rollouter \/ UNCHANGED partialVars
  <2>1. UNCHANGED <<agent, piece>>
    BY <1>1 DEF Run, Interrupt, Ask, Rollouter, Pause, CancelServer, CancelWorker, Synchronize,
                ResumeServer, ResumeWorker, partialVars
  <2> QED  BY <2>1 DEF agent, Uninterrupted!agent, Settled
<1>2. CASE Turn(Pending) \/ Turn(ProcessingTools) \/ FinishRun
  <2>1. running
    BY <1>2 DEF Turn, FinishRun
  <2> QED  BY <1>2, <2>1, TurnMaps
<1>3. CASE Interrupted \/ Completed \/ GenerateWhole
  <2>1. running
    BY <1>3 DEF Interrupted, Completed, GenerateWhole, Turn, Inv, StageInv
  <2> QED  BY <1>3, <2>1, TurnsMap, InterruptionIsSilent
<1> QED  BY <1>1, <1>2, <1>3 DEF PartialNext, Loop

\* However often and wherever a run is interrupted, what it does to a trajectory is what
\* ToolAgentLoop.run could have done in one go.
THEOREM ResumedRunsImplementOne == PartialSpec => Implements
<1>1. PartialInit => Uninterrupted!Init
  BY InitMaps
<1>2. Inv /\ Inv' /\ [PartialNext]_partialVars => [running => Uninterrupted!Next]_(Uninterrupted!agent)
  BY StepMaps
<1> QED  BY <1>1, <1>2, Invariant, PTL DEF PartialSpec, Implements

\* And nothing but a run touches it: the whole of PartialSpec is the uninterrupted loop's.
THEOREM PartialRefinesWhole ==
    PartialSpec => Uninterrupted!Init /\ [][Uninterrupted!Next]_(Uninterrupted!agent)
<1>1. PartialInit => Uninterrupted!Init
  BY InitMaps
<1>2. Inv /\ Inv' /\ [PartialNext]_partialVars => [Uninterrupted!Next]_(Uninterrupted!agent)
  BY StepMaps
<1> QED  BY <1>1, <1>2, Invariant, PTL DEF PartialSpec

-----------------------------------------------------------------------------
(* The engine's invariant.  The ranks change their mode one by one, while   *)
(* the trainer waits for all: each part says what holds of a rank for the  *)
(* step of the change it is in.                                            *)

Awaited == {"built", "load", "train", "updating"}

\* Outside the changes all ranks are in the mode the trainer relies on.
ModeInv ==
    /\ engine_phase \in Awaited => mode = Everywhere("train")
    /\ engine_phase = "rollout" => mode = Everywhere("rollout")
    /\ engine_phase \in {"settling", "sleeping"} =>
         \A r \in EngineRanks : mode[r] \in {"train", "rollout"}
    /\ engine_phase = "settling" => setup.free_cache
    /\ engine_phase \in {"built", "settling", "load"} => actor = 0
    /\ engine_phase = "updating" => actor < MaxUpdates

\* An actor is only on the GPU while it trains or is collected.
ParamsInv ==
    \A r \in EngineRanks :
        params[r] = IF engine_phase = "updating" \/ mode[r] = "on_gpu" THEN "gpu" ELSE AtRest

\* What was released is back when its rank has resumed it.
MemoryInv ==
    \A r \in EngineRanks :
        LET kept == ~setup.free_cache \/ engine_phase = "built" IN
        /\ weights[r] <=> kept \/ mode[r] \in {"resumed", "updated", "rollout"}
        /\ kv[r] <=> kept \/ mode[r] = "rollout"

\* What a rank was sent for this rollout.
Sent(r) ==
    IF setup.lora
      THEN base[r] = 0 /\ (adapter[r] = actor \/ (adapter[r] = None /\ ~setup.preloaded))
      ELSE base[r] = actor

\* An engine that has its base keeps it at sleep level 1; one that has not holds no adapter.
SentInv ==
    \A r \in EngineRanks :
        /\ ~base_sync_done[r] => adapter[r] = None /\ ~setup.preloaded
        /\ setup.lora /\ setup.sleep_level = 1 /\ base_sync_done[r] => base[r] = 0
        /\ engine_phase \in {"waking", "rollout"} /\ mode[r] \in {"updated", "rollout"} => Sent(r)

PrefixInv == prefixes \subseteq IF engine_phase = "rollout" THEN {actor} ELSE {}

\* The training stream is in use or stored; that of the rollouts is never lost by an engine that
\* was not put to sleep before it was first used.
RandomInv ==
    \A r \in EngineRanks :
        /\ torch_random_states[r] = Train(r)
        /\ mode[r] # "rollout" => rng[r] = Train(r)
        /\ ~setup.free_cache =>
             IF mode[r] = "rollout" THEN rng[r] = Gen ELSE gen_random_states[r] = Gen

EngineInv ==
    /\ EngineTypeOK
    /\ ModeInv /\ ParamsInv /\ MemoryInv /\ SentInv /\ PrefixInv /\ RandomInv

-----------------------------------------------------------------------------
(* It holds initially, again after a restart, and every step keeps it.     *)

\* A job begins in it.
LEMMA EngineInitInv == EngineInit => EngineInv
<1> SUFFICES ASSUME EngineInit PROVE EngineInv
    OBVIOUS
<1> USE EngineAssumption DEF EngineInit, Setup, Everywhere, AtRest, AsBuilt, Seeded
<1>1. EngineTypeOK
    BY DEF EngineTypeOK, EnginePhases, ModeSteps, Streams, None, Dummy
<1>2. ModeInv /\ ParamsInv /\ MemoryInv
    BY DEF ModeInv, ParamsInv, MemoryInv
<1>3. SentInv /\ PrefixInv /\ RandomInv
    BY DEF SentInv, PrefixInv, RandomInv, Sent
<1> QED
    BY <1>1, <1>2, <1>3 DEF EngineInv

\* A restart builds everything anew, except what the checkpoint holds.
LEMMA RestartInv == EngineInv /\ Restart => EngineInv'
<1> SUFFICES ASSUME EngineInv, Restart PROVE EngineInv'
    OBVIOUS
<1> USE EngineAssumption DEF EngineInv, EngineTypeOK, Restart, Setup, Everywhere, AtRest, AsBuilt, Seeded
<1>1. EngineTypeOK'
    BY DEF EnginePhases, ModeSteps, Streams, None, Dummy
<1>2. ModeInv' /\ ParamsInv' /\ MemoryInv'
    BY DEF ModeInv, ParamsInv, MemoryInv
<1>3. SentInv' /\ PrefixInv' /\ RandomInv'
    BY DEF SentInv, PrefixInv, RandomInv, Sent
<1> QED
    BY <1>1, <1>2, <1>3

\* What the trainer and the servers do together.
LEMMA TrainerInv == EngineInv /\ Trainer => EngineInv'
<1> SUFFICES ASSUME EngineInv, Trainer PROVE EngineInv'
    OBVIOUS
<1> USE EngineAssumption DEF EngineInv, EngineTypeOK, Setup, Everywhere, AtRest, EnginePhases, ModeSteps,
        engine, random, Awaited
<1>1. CASE LoadCheckpoint
    <2>1. EngineTypeOK' /\ ModeInv' /\ ParamsInv'
        BY <1>1 DEF LoadCheckpoint, ModeInv, ParamsInv
    <2>2. MemoryInv' /\ SentInv' /\ PrefixInv' /\ RandomInv'
        BY <1>1 DEF LoadCheckpoint, MemoryInv, SentInv, PrefixInv, RandomInv, Sent
    <2> QED
        BY <2>1, <2>2
<1>2. CASE UpdateBegins
    <2>1. EngineTypeOK' /\ ModeInv' /\ ParamsInv'
        BY <1>2 DEF UpdateBegins, ModeInv, ParamsInv
    <2>2. MemoryInv' /\ SentInv' /\ PrefixInv' /\ RandomInv'
        BY <1>2 DEF UpdateBegins, MemoryInv, SentInv, PrefixInv, RandomInv, Sent
    <2> QED
        BY <2>1, <2>2
<1>3. CASE UpdateEnds
    <2>1. EngineTypeOK' /\ ModeInv' /\ ParamsInv'
        BY <1>3 DEF UpdateEnds, ModeInv, ParamsInv
    <2>2. MemoryInv' /\ SentInv' /\ PrefixInv' /\ RandomInv'
        BY <1>3 DEF UpdateEnds, MemoryInv, SentInv, PrefixInv, RandomInv, Sent
    <2> QED
        BY <2>1, <2>2
<1>4. CASE Save
    <2>1. EngineTypeOK' /\ ModeInv' /\ ParamsInv'
        BY <1>4 DEF Save, ModeInv, ParamsInv
    <2>2. MemoryInv' /\ SentInv' /\ PrefixInv' /\ RandomInv'
        BY <1>4 DEF Save, MemoryInv, SentInv, PrefixInv, RandomInv, Sent
    <2> QED
        BY <2>1, <2>2
<1>5. CASE WakeUp
    <2>1. EngineTypeOK' /\ ModeInv' /\ ParamsInv'
        BY <1>5 DEF WakeUp, ModeInv, ParamsInv
    <2>2. MemoryInv' /\ SentInv' /\ PrefixInv' /\ RandomInv'
        BY <1>5 DEF WakeUp, ModeInv, MemoryInv, SentInv, PrefixInv, RandomInv, Sent
    <2> QED
        BY <2>1, <2>2
<1>6. CASE Generate
    <2>1. EngineTypeOK' /\ ModeInv' /\ ParamsInv'
        BY <1>6 DEF Generate, ModeInv, ParamsInv
    <2>2. MemoryInv' /\ SentInv' /\ PrefixInv' /\ RandomInv'
        BY <1>6 DEF Generate, MemoryInv, SentInv, PrefixInv, RandomInv, Sent
    <2> QED
        BY <2>1, <2>2
<1>7. CASE Sleep
    <2>1. EngineTypeOK' /\ ModeInv' /\ ParamsInv'
        BY <1>7 DEF Sleep, ModeInv, ParamsInv
    <2>2. MemoryInv' /\ SentInv' /\ PrefixInv' /\ RandomInv'
        BY <1>7 DEF Sleep, MemoryInv, SentInv, PrefixInv, RandomInv, Sent
    <2> QED
        BY <2>1, <2>2
<1>8. CASE InitialSleep
    <2>1. EngineTypeOK' /\ ModeInv' /\ ParamsInv'
        BY <1>8 DEF InitialSleep, ModeInv, ParamsInv
    <2>2. MemoryInv' /\ SentInv' /\ PrefixInv' /\ RandomInv'
        BY <1>8 DEF InitialSleep, ModeInv, MemoryInv, SentInv, PrefixInv, RandomInv, Sent
    <2> QED
        BY <2>1, <2>2
\* Only once every rank is there the trainer goes on.
<1>9. CASE Awake
    <2>1. mode = Everywhere("rollout")
        BY <1>9 DEF Awake
    <2>2. EngineTypeOK' /\ ModeInv' /\ ParamsInv'
        BY <1>9, <2>1 DEF Awake, ModeInv, ParamsInv
    <2>3. MemoryInv' /\ SentInv' /\ PrefixInv' /\ RandomInv'
        BY <1>9 DEF Awake, MemoryInv, SentInv, PrefixInv, RandomInv, Sent
    <2> QED
        BY <2>2, <2>3
<1>10. CASE Asleep
    <2>1. mode = Everywhere("train")
        BY <1>10 DEF Asleep
    <2>2. EngineTypeOK' /\ ModeInv' /\ ParamsInv'
        BY <1>10, <2>1 DEF Asleep, ModeInv, ParamsInv
    <2>3. MemoryInv' /\ SentInv' /\ PrefixInv' /\ RandomInv'
        BY <1>10 DEF Asleep, MemoryInv, SentInv, PrefixInv, RandomInv, Sent
    <2> QED
        BY <2>2, <2>3
<1> QED
    BY <1>1, <1>2, <1>3, <1>4, <1>5, <1>6, <1>7, <1>8, <1>9, <1>10 DEF Trainer, ModeReached

\* One rank moves on; what holds of the others does not depend on it.
LEMMA RankInv == EngineInv /\ (\E r \in EngineRanks : RankStep(r)) => EngineInv'
<1> SUFFICES ASSUME EngineInv, NEW r \in EngineRanks, RankStep(r) PROVE EngineInv'
    OBVIOUS
<1> USE EngineAssumption DEF EngineInv, EngineTypeOK, Setup, Everywhere, AtRest, EnginePhases, ModeSteps,
        engine, random, Awaited, Moves
<1>1. CASE LoadParams(r)
    <2>1. EngineTypeOK' /\ ModeInv' /\ ParamsInv'
        BY <1>1 DEF LoadParams, ModeInv, ParamsInv
    <2>2. MemoryInv' /\ SentInv' /\ PrefixInv' /\ RandomInv'
        BY <1>1 DEF LoadParams, MemoryInv, SentInv, PrefixInv, RandomInv, Sent
    <2> QED
        BY <2>1, <2>2
<1>2. CASE CollectParams(r)
    <2>1. EngineTypeOK' /\ ModeInv' /\ ParamsInv'
        BY <1>2 DEF CollectParams, ModeInv, ParamsInv
    <2>2. MemoryInv' /\ SentInv' /\ PrefixInv' /\ RandomInv'
        BY <1>2 DEF CollectParams, MemoryInv, SentInv, PrefixInv, RandomInv, Sent
    <2> QED
        BY <2>1, <2>2
<1>3. CASE ResumeWeights(r)
    <2>1. EngineTypeOK' /\ ModeInv' /\ ParamsInv'
        BY <1>3 DEF ResumeWeights, ModeInv, ParamsInv
    <2>2. MemoryInv' /\ SentInv' /\ PrefixInv' /\ RandomInv'
        BY <1>3 DEF ResumeWeights, MemoryInv, SentInv, PrefixInv, RandomInv, Sent
    <2> QED
        BY <2>1, <2>2
\* Sleep level 2 destroyed the base, level 1 kept the one that was sent.
<1>4. CASE UpdateWeights(r)
    <2>1. BaseSent(r) = IF setup.lora THEN 0 ELSE actor
        BY DEF BaseSent, SentInv
    <2>2. EngineTypeOK' /\ ModeInv' /\ ParamsInv'
        BY <1>4, <2>1 DEF UpdateWeights, ModeInv, ParamsInv
    <2>3. SentInv'
        BY <1>4, <2>1 DEF UpdateWeights, SentInv, Sent
    <2>4. MemoryInv' /\ PrefixInv' /\ RandomInv'
        BY <1>4 DEF UpdateWeights, MemoryInv, PrefixInv, RandomInv
    <2> QED
        BY <2>2, <2>3, <2>4
<1>5. CASE EnterRollout(r)
    <2>1. EngineTypeOK' /\ ModeInv' /\ ParamsInv'
        BY <1>5 DEF EnterRollout, ModeInv, ParamsInv
    <2>2. Sent(r)
        BY <1>5 DEF EnterRollout, SentInv
    <2>3. SentInv'
        BY <1>5, <2>2 DEF EnterRollout, SentInv, Sent
    <2>4. MemoryInv' /\ PrefixInv' /\ RandomInv'
        BY <1>5 DEF EnterRollout, MemoryInv, PrefixInv, RandomInv
    <2> QED
        BY <2>1, <2>3, <2>4
<1>6. CASE EnterTrainer(r)
    <2>1. EngineTypeOK' /\ ModeInv' /\ ParamsInv'
        BY <1>6 DEF EnterTrainer, ModeInv, ParamsInv, Released
    <2>2. SentInv'
        BY <1>6 DEF EnterTrainer, SentInv, Released, Sent
    <2>3. MemoryInv' /\ PrefixInv' /\ RandomInv'
        BY <1>6 DEF EnterTrainer, MemoryInv, PrefixInv, RandomInv, Released
    <2> QED
        BY <2>1, <2>2, <2>3
<1> QED
    BY <1>1, <1>2, <1>3, <1>4, <1>5, <1>6 DEF RankStep

\* Every step keeps it.
LEMMA EngineNextInv == EngineInv /\ [EngineNext]_engineVars => EngineInv'
<1> SUFFICES ASSUME EngineInv, [EngineNext]_engineVars PROVE EngineInv'
    OBVIOUS
<1>1. CASE UNCHANGED engineVars
    BY <1>1 DEF engineVars, engine, random, EngineInv, EngineTypeOK, ModeInv, ParamsInv, MemoryInv,
        SentInv, Sent, PrefixInv, RandomInv, Everywhere, AtRest
<1>2. CASE EngineNext
    BY <1>2, TrainerInv, RestartInv, RankInv DEF EngineNext
<1> QED
    BY <1>1, <1>2

\* The invariant of the engine: holds of every state it can reach.
THEOREM EngineInvariant == EngineSpec => []EngineInv
<1>1. EngineInit => EngineInv
    BY EngineInitInv
<1>2. EngineInv /\ [EngineNext]_engineVars => EngineInv'
    BY EngineNextInv
<1> QED
    BY <1>1, <1>2, PTL DEF EngineSpec

-----------------------------------------------------------------------------
(* What it implies.                                                        *)

\* A rollout runs on the trainer's weights, on no prefix of older ones, and an offloaded actor is
\* never on the GPU together with the cache.
THEOREM RolloutsAreCurrent == EngineSpec => []GeneratesWithCurrent
<1>1. EngineInv => GeneratesWithCurrent
    <2> SUFFICES ASSUME EngineInv PROVE GeneratesWithCurrent
        OBVIOUS
    <2> USE EngineAssumption DEF EngineInv, EngineTypeOK, Setup, Everywhere
    <2>1. RolloutIsCurrent
        BY DEF RolloutIsCurrent, RunsOn, ModeInv, MemoryInv, SentInv, Sent
    <2>2. PrefixesAreFresh
        BY DEF PrefixesAreFresh, PrefixInv
    <2>3. CacheHasRoom
        BY DEF CacheHasRoom, ModeInv, MemoryInv, ParamsInv, AtRest, Awaited
    <2> QED
        BY <2>1, <2>2, <2>3 DEF GeneratesWithCurrent
<1> QED
    BY EngineInvariant, <1>1, PTL

\* Training draws from its own stream whatever was rolled out before; and the ranks of an engine
\* that is not put to sleep first draw the same numbers.
THEOREM RandomnessIsKept == EngineSpec => []DrawsItsOwn
<1>1. EngineInv => DrawsItsOwn
    <2> SUFFICES ASSUME EngineInv PROVE DrawsItsOwn
        OBVIOUS
    <2> USE DEF EngineInv, EngineTypeOK, Everywhere, ModeInv, RandomInv
    <2>1. TrainingDrawsItsOwn
        BY DEF TrainingDrawsItsOwn, Awaited
    <2>2. ~setup.free_cache => RanksDrawAlike
        BY DEF RanksDrawAlike
    <2> QED
        BY <2>1, <2>2 DEF DrawsItsOwn
<1> QED
    BY EngineInvariant, <1>1, PTL
=============================================================================
