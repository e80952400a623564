---------------------------- MODULE ServicesProofs ----------------------------
(***************************************************************************)
(* The router, for any number of servers, workers, conversations and       *)
(* turns, and any size of the cache: a worker's choice keeps its servers   *)
(* within one conversation of each other, its cache within its size, and   *)
(* the turns of a conversation at one server.                              *)
(* The rate limiter, for every setting, number of requests and scorer:     *)
(* what a bucket lets through, what it wastes, and what the semaphore      *)
(* counts.                                                                 *)
(* The server of a partial rollout, for any samples, response length and   *)
(* number of runs and cancels: the pieces of an interrupted response make  *)
(* up a whole.                                                             *)
(***************************************************************************)
EXTENDS ServerRouter, RateLimiter, PartialServer, FiniteSetTheorems, SequenceTheorems, TLAPS

Entry == [request : Requests, server : Servers]

\* Every conversation belongs to a worker.
LEMMA WorkerInRange == ASSUME NEW q \in Requests PROVE Worker(q) \in WorkerIds
<1> DEFINE n == Workers * Chunk
           m == (q - 1) % n
<1>1. n \in Nat \ {0}
  BY RouterAssumption, SMT DEF n
<1>2. m \in 0..n - 1
  BY <1>1, SMT DEF Requests
<1> HIDE DEF m
<1>3. m \div Chunk \in 0..Workers - 1
  BY <1>2, RouterAssumption, Z3 DEF n
<1> QED BY <1>3 DEF Worker, WorkerIds, m, n

\* What a use leaves in the cache: entries, no more of them than it may hold.
LEMMA TouchedFits ==
  ASSUME TypeOK, NEW w \in WorkerIds, NEW q \in Requests, NEW s \in Servers
  PROVE  /\ Touched(w, q, s) \in Seq(Entry)
         /\ Len(Touched(w, q, s)) <= CacheSize
<1> DEFINE cache == request_id_to_server[w]
           kept == Others(w, q)
           new == [request |-> q, server |-> s]
<1>1. cache \in Seq(Entry) /\ Len(cache) <= CacheSize
  BY DEF TypeOK, Entry
<1>2. kept \in Seq(Entry) /\ Len(kept) <= CacheSize
  <2>1. CASE Remembered(w, q)
    <3>1. PICK i \in DOMAIN cache : cache[i].request = q
      BY <2>1 DEF Remembered, Entries
    <3>2. Position(cache, q) \in 1..Len(cache) /\ Len(cache) \in Nat \ {0}
      BY <1>1, <3>1 DEF Position
    <3>3. Without(cache, Position(cache, q)) \in [1..Len(cache) - 1 -> Entry]
      BY <1>1, <3>2 DEF Without
    <3>4. Without(cache, Position(cache, q)) \in Seq(Entry)
          /\ Len(Without(cache, Position(cache, q))) = Len(cache) - 1
      BY <3>2, <3>3 DEF Without
    <3> QED BY <1>1, <2>1, <3>2, <3>4, RouterAssumption DEF Others
  <2> QED BY <1>1, <2>1 DEF Others
<1>3. new \in Entry
  BY DEF Entry
<1>4. CASE Len(kept) = CacheSize
  <2>1. kept # <<>> /\ Len(kept) \in Nat
    BY <1>2, <1>4, RouterAssumption
  <2>2. Tail(kept) \in Seq(Entry) /\ Len(Tail(kept)) = Len(kept) - 1
    BY <1>2, <2>1
  <2> QED BY <1>3, <1>4, <2>1, <2>2, RouterAssumption DEF Touched
<1>5. CASE Len(kept) # CacheSize
  BY <1>2, <1>3, <1>5, RouterAssumption DEF Touched
<1> QED BY <1>4, <1>5

\* What both ways of sending a turn do to the variables they share.
LEMMA GenerateType ==
  ASSUME TypeOK, NEW q \in Requests, NEW s \in Servers, MayGenerate(q), Generate(q, s)
  PROVE  /\ request_id_to_server' \in [WorkerIds -> Seq(Entry)]
         /\ \A w \in WorkerIds : Len(request_id_to_server'[w]) <= CacheSize
         /\ status' \in [Requests -> {"new", "waits", "thinks", "ended"}]
         /\ turns' \in [Requests -> 0..MaxTurns]
         /\ served' \in [Requests -> SUBSET Servers]
<1>1. Worker(q) \in WorkerIds
  BY WorkerInRange
<1>2. /\ Touched(Worker(q), q, s) \in Seq(Entry)
      /\ Len(Touched(Worker(q), q, s)) <= CacheSize
  BY <1>1, TouchedFits
<1>3. request_id_to_server' \in [WorkerIds -> Seq(Entry)]
  BY <1>1, <1>2 DEF Generate, TypeOK, Entry
<1>4. \A w \in WorkerIds : Len(request_id_to_server'[w]) <= CacheSize
  BY <1>1, <1>2 DEF Generate, TypeOK
<1>5. turns' \in [Requests -> 0..MaxTurns]
  BY RouterAssumption DEF Generate, MayGenerate, TypeOK
<1> QED BY <1>3, <1>4, <1>5 DEF Generate, TypeOK

IInv == TypeOK /\ Balanced

\* No request has a server yet.
LEMMA InitIInv == Init => IInv
<1> SUFFICES ASSUME Init PROVE IInv
  OBVIOUS
<1>1. TypeOK
  BY RouterAssumption DEF Init, TypeOK
<1>2. Balanced
  BY DEF Init, Balanced
<1> QED BY <1>1, <1>2 DEF IInv

\* A request that has a server keeps the invariant,
LEMMA StickKeeps == ASSUME IInv, NEW q \in Requests, Stick(q) PROVE IInv'
<1>1. PICK e \in Entries(Worker(q)) : Generate(q, e.server)
  BY DEF Stick
<1>2. e.server \in Servers
  <2> DEFINE cache == request_id_to_server[Worker(q)]
  <2>1. cache \in Seq(Entry)
    BY WorkerInRange DEF IInv, TypeOK, Entry
  <2>2. PICK i \in DOMAIN cache : e = cache[i]
    BY DEF Entries
  <2>3. e \in Entry
    BY <2>1, <2>2
  <2> QED BY <2>3 DEF Entry
<1>3. TypeOK'
  BY <1>1, <1>2, GenerateType DEF IInv, TypeOK, Stick, Entry
<1>4. Balanced'
  BY DEF IInv, Balanced, Stick
<1> QED BY <1>3, <1>4 DEF IInv

\* so does one that is given the least loaded server,
LEMMA ChooseKeeps == ASSUME IInv, NEW q \in Requests, Choose(q) PROVE IInv'
<1> DEFINE w == Worker(q)
<1>1. PICK s \in Least(w) :
        /\ Generate(q, s)
        /\ weighted_servers' = [weighted_servers EXCEPT ![w][s] = @ + 1]
  BY DEF Choose
<1>2. s \in Servers /\ w \in WorkerIds
  BY WorkerInRange DEF Least
<1>3. weighted_servers' \in [WorkerIds -> [Servers -> Nat]]
  BY <1>1, <1>2 DEF IInv, TypeOK
<1>4. TypeOK'
  BY <1>1, <1>2, <1>3, GenerateType DEF IInv, TypeOK, Choose, Entry
<1>5. Balanced'
  <2> SUFFICES ASSUME NEW v \in WorkerIds, NEW a \in Servers, NEW b \in Servers
               PROVE  weighted_servers'[v][a] <= weighted_servers'[v][b] + 1
    BY DEF Balanced
  <2>1. weighted_servers[w][s] <= weighted_servers[w][b]
    BY <1>1 DEF Least
  <2>2. weighted_servers[v][a] <= weighted_servers[v][b] + 1
    BY DEF IInv, Balanced
  <2>3. weighted_servers'[v][a] = IF v = w /\ a = s THEN weighted_servers[v][a] + 1
                                  ELSE weighted_servers[v][a]
    BY <1>1, <1>2 DEF IInv, TypeOK
  <2>4. weighted_servers'[v][b] = IF v = w /\ b = s THEN weighted_servers[v][b] + 1
                                  ELSE weighted_servers[v][b]
    BY <1>1, <1>2 DEF IInv, TypeOK
  <2>5. weighted_servers[v][a] \in Nat /\ weighted_servers[v][b] \in Nat
    BY DEF IInv, TypeOK
  <2> QED BY <2>1, <2>2, <2>3, <2>4, <2>5
<1> QED BY <1>4, <1>5 DEF IInv

\* and everything else.
LEMMA RestKeeps ==
  ASSUME IInv, NEW q \in Requests, Answered(q) \/ Stops(q) PROVE IInv'
<1>1. TypeOK'
  BY DEF IInv, TypeOK, Answered, Stops
<1>2. Balanced'
  BY DEF IInv, Balanced, Answered, Stops
<1> QED BY <1>1, <1>2 DEF IInv

\* Every step keeps the invariant.
LEMMA StepIInv == IInv /\ [Next]_vars => IInv'
<1> SUFFICES ASSUME IInv, [Next]_vars PROVE IInv'
  OBVIOUS
<1>1. CASE UNCHANGED vars
  BY <1>1 DEF IInv, TypeOK, Balanced, vars
<1>2. CASE Next
  BY <1>2, StickKeeps, ChooseKeeps, RestKeeps DEF Next
<1> QED BY <1>1, <1>2

\* The counts, the cache and the conversations stay what they are, and the
\* cache never grows past its size.
THEOREM RouterTyped == Spec => []TypeOK
<1>1. Spec => []IInv
  BY InitIInv, StepIInv, PTL DEF Spec
<1>2. IInv => TypeOK
  BY DEF IInv
<1> QED BY <1>1, <1>2, PTL

\* "Least requests load balancing": no server of a worker is ever given two
\* conversations more than another.
THEOREM RouterBalanced == Spec => []Balanced
<1>1. Spec => []IInv
  BY InitIInv, StepIInv, PTL DEF Spec
<1>2. IInv => Balanced
  BY DEF IInv
<1> QED BY <1>1, <1>2, PTL
-----------------------------------------------------------------------------
(* Sticky sessions.                                                        *)

\* The place of a conversation among those its worker gets of a batch.
Slot(q) == ((q - 1) % (Workers * Chunk)) % Chunk

\* The conversations that may come between two turns of q, in the cache of its worker.
Window(q) == {p \in Requests : Worker(p) = Worker(q) /\ (Continuous \/ Batch(p) = Batch(q))}

\* What a worker's cache holds is what it sent: one entry for each conversation.
EntryInv ==
    \A w \in WorkerIds : \A i \in DOMAIN request_id_to_server[w] :
        LET e == request_id_to_server[w][i] IN
        /\ Worker(e.request) = w /\ served[e.request] = {e.server}
        /\ \A j \in DOMAIN request_id_to_server[w] :
             request_id_to_server[w][j].request = e.request => j = i

\* Batches that follow each other enter it in their order.
BatchInv ==
    ~Continuous =>
        /\ \A w \in WorkerIds : \A i, j \in DOMAIN request_id_to_server[w] :
             i < j => Batch(request_id_to_server[w][i].request)
                        <= Batch(request_id_to_server[w][j].request)
        /\ \A p, q \in Requests : status[q] # "new" /\ Batch(p) < Batch(q) => status[p] = "ended"

\* A conversation has one server once it began, and is remembered while it goes on.
AliveInv ==
    \A q \in Requests :
        /\ status[q] = "new" <=> served[q] = {}
        /\ \A s, t \in served[q] : s = t
        /\ q \in Alive => Remembered(Worker(q), q)

SessionInv == EntryInv /\ BatchInv /\ AliveInv /\ EachCountedOnce

\* Division with remainder.
LEMMA DivMod ==
  ASSUME NEW a \in Nat, NEW n \in Nat \ {0}
  PROVE  a \div n \in Nat /\ a % n \in 0..n - 1 /\ a = n * (a \div n) + (a % n)
BY Z3

\* A conversation is known by its batch, its worker and its place.
LEMMA KnownByPlace ==
  /\ \A q \in Requests : Batch(q) \in 0..Batches - 1 /\ Slot(q) \in 0..Chunk - 1
  /\ \A p, q \in Requests :
       Batch(p) = Batch(q) /\ Worker(p) = Worker(q) /\ Slot(p) = Slot(q) => p = q
<1> DEFINE n == Workers * Chunk
           m(q) == (q - 1) % n
<1>1. n \in Nat \ {0} /\ Chunk \in Nat \ {0} /\ Batches \in Nat \ {0} /\ Workers \in Nat \ {0}
  BY RouterAssumption, SMT
<1>2. Requests = 1..Batches * n
  BY <1>1, SMT DEF Requests
<1> HIDE DEF n
<1>3. ASSUME NEW q \in Requests
      PROVE  /\ q \in Int /\ q - 1 \in Nat /\ m(q) \in Nat
             /\ Batch(q) \in Nat /\ q - 1 = n * Batch(q) + m(q)
             /\ Slot(q) \in 0..Chunk - 1 /\ m(q) = Chunk * Worker(q) + Slot(q)
  <2>1. q - 1 \in Nat /\ q \in Int
    BY <1>1, <1>2
  <2>2. Batch(q) \in Nat /\ m(q) \in 0..n - 1 /\ q - 1 = n * Batch(q) + m(q)
    BY <1>1, <2>1, DivMod DEF Batch, n
  <2> HIDE DEF m
  <2>3. m(q) \in Nat
    BY <1>1, <2>2
  <2>4. m(q) % Chunk \in 0..Chunk - 1 /\ m(q) = Chunk * (m(q) \div Chunk) + (m(q) % Chunk)
    BY <1>1, <2>3, DivMod
  <2>5. Slot(q) = m(q) % Chunk /\ Worker(q) = m(q) \div Chunk
    BY DEF Slot, Worker, m, n
  <2> QED BY <2>1, <2>2, <2>3, <2>4, <2>5
<1>4. ASSUME NEW q \in Requests PROVE Batch(q) \in 0..Batches - 1
  <2>1. q - 1 < Batches * n /\ Batch(q) \in Nat /\ m(q) \in Nat
        /\ q - 1 = n * Batch(q) + m(q)
    BY <1>1, <1>2, <1>3
  <2> HIDE DEF m
  <2>2. CASE Batch(q) >= Batches
    <3>1. n * Batch(q) >= n * Batches
      BY <1>1, <2>1, <2>2, Z3
    <3>2. n * Batches = Batches * n /\ n * Batch(q) \in Nat /\ n * Batches \in Nat
      BY <1>1, <2>1, Z3
    <3> QED BY <2>1, <3>1, <3>2
  <2> QED BY <1>1, <2>1, <2>2
<1>5. ASSUME NEW p \in Requests, NEW q \in Requests,
             Batch(p) = Batch(q), Worker(p) = Worker(q), Slot(p) = Slot(q)
      PROVE  p = q
  <2>1. m(p) = m(q)
    BY <1>3, <1>5
  <2>2. p - 1 = q - 1
    BY <1>3, <1>5, <2>1
  <2> QED BY <1>3, <2>2
<1> QED BY <1>3, <1>4, <1>5

\* There is room for all of a window.
LEMMA WindowFits ==
  ASSUME RoomForAll, NEW q \in Requests
  PROVE  IsFiniteSet(Window(q)) /\ Cardinality(Window(q)) <= CacheSize
<1> DEFINE batches == IF Continuous THEN 0..Batches - 1 ELSE {Batch(q)}
           slots == 0..Chunk - 1
           f == [p \in Window(q) |-> <<Batch(p), Slot(p)>>]
<1>1. Chunk \in Nat \ {0} /\ Batches \in Nat \ {0} /\ CacheSize \in Nat
  BY RouterAssumption
<1>2. IsFiniteSet(slots) /\ Cardinality(slots) = Chunk
  BY <1>1, FS_Interval
<1>3. IsFiniteSet(batches) /\ Cardinality(batches) = IF Continuous THEN Batches ELSE 1
  <2>1. IsFiniteSet(0..Batches - 1) /\ Cardinality(0..Batches - 1) = Batches
    BY <1>1, FS_Interval
  <2> QED BY <2>1, FS_Singleton
<1> HIDE DEF slots, batches
<1>4. IsFiniteSet(batches \X slots)
      /\ Cardinality(batches \X slots) = Cardinality(batches) * Cardinality(slots)
  BY <1>2, <1>3, FS_Product
<1>5. Cardinality(batches \X slots) <= CacheSize
  BY <1>1, <1>2, <1>3, <1>4 DEF RoomForAll
<1>6. f \in Injection(Window(q), batches \X slots)
  <2>1. \A p \in Window(q) : Batch(p) \in batches /\ Slot(p) \in slots
    BY KnownByPlace DEF Window, batches, slots
  <2>2. \A p, r \in Window(q) : f[p] = f[r] => p = r
    BY KnownByPlace DEF Window
  <2> QED BY <2>1, <2>2 DEF Injection, IsInjective
<1>7. IsFiniteSet(Window(q)) /\ Cardinality(Window(q)) <= Cardinality(batches \X slots)
  BY <1>4, <1>6, FS_Injection
<1>8. Cardinality(Window(q)) \in Nat /\ Cardinality(batches \X slots) \in Nat
  BY <1>4, <1>7, FS_CardinalityType
<1> QED BY <1>1, <1>5, <1>7, <1>8

\* A full cache is not full of what came between two turns of q.
LEMMA NotOnlyTheWindow ==
  ASSUME RoomForAll, NEW q \in Requests, NEW cache \in Seq(Entry), Len(cache) = CacheSize,
         \A i, j \in 1..Len(cache) : cache[i].request = cache[j].request => i = j,
         \A i \in 1..Len(cache) : cache[i].request \in Window(q) \ {q}
  PROVE  FALSE
<1> DEFINE f == [i \in 1..CacheSize |-> cache[i].request]
           rest == Window(q) \ {q}
<1>1. CacheSize \in Nat \ {0}
  BY RouterAssumption
<1>2. q \in Window(q)
  BY DEF Window
<1>3. IsFiniteSet(Window(q)) /\ Cardinality(Window(q)) <= CacheSize
  BY WindowFits
<1>4. IsFiniteSet(rest) /\ Cardinality(rest) = Cardinality(Window(q)) - 1
  BY <1>2, <1>3, FS_RemoveElement
<1>5. f \in Injection(1..CacheSize, rest)
  BY DEF Injection, IsInjective
<1> HIDE DEF rest
<1>6. Cardinality(1..CacheSize) <= Cardinality(rest)
  BY <1>4, <1>5, FS_Injection
<1>7. Cardinality(1..CacheSize) = CacheSize
  BY <1>1, FS_Interval
<1>8. Cardinality(Window(q)) \in Nat
  BY <1>3, FS_CardinalityType
<1> QED BY <1>1, <1>3, <1>4, <1>6, <1>7, <1>8

\* The entries but that of q are those of the cache, in their order.
LEMMA OthersAreKept ==
  ASSUME TypeOK, EntryInv, NEW q \in Requests, NEW w \in WorkerIds, Worker(q) = w
  PROVE  /\ Others(w, q) \in Seq(Entry) /\ Len(Others(w, q)) <= CacheSize
         /\ Remembered(w, q) => Len(Others(w, q)) < CacheSize
         /\ \A i \in 1..Len(Others(w, q)) : Others(w, q)[i].request # q
         /\ \E at \in [1..Len(Others(w, q)) -> DOMAIN request_id_to_server[w]] :
              /\ \A i \in 1..Len(Others(w, q)) : Others(w, q)[i] = request_id_to_server[w][at[i]]
              /\ \A i, j \in 1..Len(Others(w, q)) : i < j => at[i] < at[j]
         /\ \A j \in DOMAIN request_id_to_server[w] :
              request_id_to_server[w][j].request # q =>
                \E i \in 1..Len(Others(w, q)) : Others(w, q)[i] = request_id_to_server[w][j]
<1> DEFINE cache == request_id_to_server[w]
           kept == Others(w, q)
<1>0. cache \in Seq(Entry) /\ Len(cache) <= CacheSize
  BY DEF TypeOK, Entry
<1> HIDE DEF cache
<1>1. cache \in Seq(Entry) /\ Len(cache) <= CacheSize /\ DOMAIN cache = 1..Len(cache)
  BY <1>0
<1> USE DEF cache
<1>2. Len(cache) \in Nat
  BY <1>1
<1>3. \A i, j \in DOMAIN cache : cache[j].request = cache[i].request => j = i
  BY DEF EntryInv
<1>4. CASE Remembered(w, q)
  <2> DEFINE k == Position(cache, q)
  <2>1. k \in DOMAIN cache /\ cache[k].request = q
    BY <1>4 DEF Remembered, Entries, Position
  <2> HIDE DEF k
  <2>2. kept = [j \in 1..Len(cache) - 1 |-> IF j < k THEN cache[j] ELSE cache[j + 1]]
    BY <1>4 DEF Others, Without, k
  <2> HIDE DEF kept
  <2> DEFINE at == [j \in 1..Len(cache) - 1 |-> IF j < k THEN j ELSE j + 1]
  <2>3. k \in 1..Len(cache) /\ Len(cache) - 1 \in Nat
    BY <1>1, <1>2, <2>1
  <2>4. kept \in Seq(Entry) /\ Len(kept) = Len(cache) - 1
    <3>1. kept \in [1..Len(cache) - 1 -> Entry]
      BY <1>1, <2>2, <2>3
    <3> QED BY <2>3, <3>1
  <2>5. at \in [1..Len(kept) -> DOMAIN cache]
    BY <1>1, <2>3, <2>4
  <2>6. \A i \in 1..Len(kept) : kept[i] = cache[at[i]] /\ at[i] # k
    BY <1>1, <2>2, <2>3, <2>4
  <2>7. \A i, j \in 1..Len(kept) : i < j => at[i] < at[j]
    BY <2>3, <2>4
  <2>8. ASSUME NEW j \in DOMAIN cache, j # k PROVE \E i \in 1..Len(kept) : kept[i] = cache[j]
    <3>1. CASE j < k
      BY <1>1, <2>2, <2>3, <2>4, <3>1
    <3>2. CASE j > k
      <4>1. j - 1 \in 1..Len(kept) /\ kept[j - 1] = cache[j]
        BY <1>1, <2>2, <2>3, <2>4, <3>2
      <4> QED BY <4>1
    <3> QED BY <1>1, <2>3, <2>8, <3>1, <3>2
  <2> HIDE DEF at
  <2>9. \A i \in 1..Len(kept) : kept[i].request # q
    BY <1>3, <2>1, <2>5, <2>6
  <2>10. Len(kept) < CacheSize
    BY <1>1, <1>2, <2>4, RouterAssumption
  <2>11. \A j \in DOMAIN cache : cache[j].request # q => \E i \in 1..Len(kept) : kept[i] = cache[j]
    BY <2>1, <2>8
  <2>12. Len(kept) <= CacheSize
    BY <1>1, <1>2, <2>4, RouterAssumption
  <2> QED BY <2>4, <2>5, <2>6, <2>7, <2>9, <2>10, <2>11, <2>12 DEF kept
<1>5. CASE ~Remembered(w, q)
  <2>1. kept = cache
    BY <1>5 DEF Others
  <2>2. \A i \in DOMAIN cache : cache[i].request # q
    BY <1>5 DEF Remembered, Entries
  <2> DEFINE at == [i \in 1..Len(cache) |-> i]
  <2>3. at \in [1..Len(cache) -> DOMAIN cache] /\ \A i \in 1..Len(cache) : cache[i] = cache[at[i]]
    BY <1>1
  <2>4. \A i, j \in 1..Len(cache) : i < j => at[i] < at[j]
    OBVIOUS
  <2> QED BY <1>1, <1>5, <2>1, <2>2, <2>3, <2>4
<1> QED BY <1>4, <1>5

\* A use puts the entry last, and at most the first one goes.
LEMMA TouchedIsLast ==
  ASSUME NEW w, NEW q, NEW s \in Servers, Others(w, q) \in Seq(Entry), q \in Requests
  PROVE  \E gone \in {0, 1} :
           /\ gone = 1 => Len(Others(w, q)) = CacheSize
           /\ Len(Touched(w, q, s)) = Len(Others(w, q)) - gone + 1
           /\ Touched(w, q, s)[Len(Touched(w, q, s))] = [request |-> q, server |-> s]
           /\ \A i \in 1..Len(Others(w, q)) - gone : Touched(w, q, s)[i] = Others(w, q)[i + gone]
<1> DEFINE kept == Others(w, q)
           new == [request |-> q, server |-> s]
<1>1. new \in Entry /\ CacheSize \in Nat \ {0}
  BY RouterAssumption DEF Entry
<1>2. CASE Len(kept) = CacheSize
  <2>1. Tail(kept) \in Seq(Entry) /\ Len(Tail(kept)) = Len(kept) - 1
        /\ \A i \in 1..Len(kept) - 1 : Tail(kept)[i] = kept[i + 1]
    BY <1>1, <1>2
  <2>2. Touched(w, q, s) = Append(Tail(kept), new)
    BY <1>2 DEF Touched
  <2> HIDE DEF kept, new
  <2>3. /\ Len(Touched(w, q, s)) = Len(kept) - 1 + 1
        /\ Touched(w, q, s)[Len(Touched(w, q, s))] = new
        /\ \A i \in 1..Len(kept) - 1 : Touched(w, q, s)[i] = kept[i + 1]
    BY <1>1, <2>1, <2>2
  <2> QED BY <1>2, <2>3 DEF kept, new
<1>3. CASE Len(kept) # CacheSize
  <2>1. Touched(w, q, s) = Append(kept, new)
    BY <1>3 DEF Touched
  <2>2. kept \in Seq(Entry)
    OBVIOUS
  <2> HIDE DEF kept, new
  <2>3. /\ Len(Touched(w, q, s)) = Len(kept) - 0 + 1
        /\ Touched(w, q, s)[Len(Touched(w, q, s))] = new
        /\ \A i \in 1..Len(kept) - 0 : Touched(w, q, s)[i] = kept[i + 0]
    BY <1>1, <2>1, <2>2
  <2> QED BY <1>3, <2>3 DEF kept, new
<1> QED BY <1>2, <1>3

\* A turn that goes where the conversation belongs keeps what the caches say.
LEMMA SendKeeps ==
  ASSUME RoomForAll, TypeOK, EntryInv, BatchInv, AliveInv,
         NEW q \in Requests, NEW s \in Servers, MayGenerate(q), Generate(q, s),
         served[q] \subseteq {s}, Remembered(Worker(q), q) \/ status[q] = "new"
  PROVE  EntryInv' /\ BatchInv' /\ AliveInv' /\ served' = [served EXCEPT ![q] = {s}]
<1> DEFINE w == Worker(q)
           cache == request_id_to_server[w]
           kept == Others(w, q)
           new == [request |-> q, server |-> s]
           t == Touched(w, q, s)
<1>1. w \in WorkerIds
  BY WorkerInRange
<1>2. /\ request_id_to_server' = [request_id_to_server EXCEPT ![w] = t]
      /\ status' = [status EXCEPT ![q] = "waits"]
      /\ served' = [served EXCEPT ![q] = {s}]
  <2>1. served[q] \cup {s} = {s}
    OBVIOUS
  <2> QED BY <2>1 DEF Generate
<1>3. /\ \A v \in WorkerIds : request_id_to_server'[v] = IF v = w THEN t ELSE request_id_to_server[v]
      /\ \A p \in Requests : status'[p] = IF p = q THEN "waits" ELSE status[p]
      /\ \A p \in Requests : served'[p] = IF p = q THEN {s} ELSE served[p]
  BY <1>1, <1>2 DEF TypeOK
<1>4. \A v \in WorkerIds : request_id_to_server[v] \in Seq(Entry)
  BY DEF TypeOK, Entry
<1>5. cache \in Seq(Entry) /\ t \in Seq(Entry)
  BY <1>1, <1>4, TouchedFits
<1>6. /\ kept \in Seq(Entry) /\ Len(kept) <= CacheSize
      /\ Remembered(w, q) => Len(kept) < CacheSize
      /\ \A i \in 1..Len(kept) : kept[i].request # q
      /\ \A j \in DOMAIN cache :
           cache[j].request # q => \E i \in 1..Len(kept) : kept[i] = cache[j]
  BY <1>1, OthersAreKept
<1>7. PICK at \in [1..Len(kept) -> DOMAIN cache] :
        /\ \A i \in 1..Len(kept) : kept[i] = cache[at[i]]
        /\ \A i, j \in 1..Len(kept) : i < j => at[i] < at[j]
  BY <1>1, OthersAreKept
<1>8. PICK gone \in {0, 1} :
        /\ gone = 1 => Len(kept) = CacheSize
        /\ Len(t) = Len(kept) - gone + 1
        /\ t[Len(t)] = new
        /\ \A i \in 1..Len(kept) - gone : t[i] = kept[i + gone]
  BY <1>6, TouchedIsLast
<1> HIDE DEF t, kept, new
\* What the kept entries say.
<1>9. \A i \in DOMAIN cache :
        /\ cache[i].request \in Requests /\ Worker(cache[i].request) = w
        /\ served[cache[i].request] = {cache[i].server}
        /\ \A j \in DOMAIN cache : cache[j].request = cache[i].request => j = i
  <2>1. \A i \in DOMAIN cache : cache[i] \in Entry
    BY <1>5
  <2>2. \A i \in DOMAIN cache :
          /\ Worker(cache[i].request) = w /\ served[cache[i].request] = {cache[i].server}
          /\ \A j \in DOMAIN cache : cache[j].request = cache[i].request => j = i
    BY <1>1 DEF EntryInv
  <2> QED BY <2>1, <2>2 DEF Entry
<1>10. /\ \A i \in 1..Len(kept) :
            /\ kept[i].request \in Requests \ {q} /\ Worker(kept[i].request) = w
            /\ served[kept[i].request] = {kept[i].server}
       /\ \A i, j \in 1..Len(kept) : kept[i].request = kept[j].request => i = j
  <2>1. \A i \in 1..Len(kept) : at[i] \in DOMAIN cache /\ kept[i] = cache[at[i]]
    BY <1>7
  <2>2. ASSUME NEW i \in 1..Len(kept), NEW j \in 1..Len(kept), kept[i].request = kept[j].request
        PROVE  i = j
    <3>1. at[i] = at[j]
      BY <1>9, <2>1, <2>2
    <3>2. at[i] \in Int /\ ~(i < j) /\ ~(j < i)
      BY <1>5, <1>7, <2>1, <3>1
    <3>3. i \in Int /\ j \in Int
      BY <1>6
    <3> QED BY <3>2, <3>3
  <2>3. \A i \in 1..Len(kept) :
          /\ kept[i].request \in Requests /\ Worker(kept[i].request) = w
          /\ served[kept[i].request] = {kept[i].server}
    <3> SUFFICES ASSUME NEW i \in 1..Len(kept)
                 PROVE  /\ kept[i].request \in Requests /\ Worker(kept[i].request) = w
                        /\ served[kept[i].request] = {kept[i].server}
      OBVIOUS
    <3>1. at[i] \in DOMAIN cache /\ kept[i] = cache[at[i]]
      BY <2>1
    <3>2. /\ cache[at[i]].request \in Requests /\ Worker(cache[at[i]].request) = w
          /\ served[cache[at[i]].request] = {cache[at[i]].server}
      BY <1>9, <3>1
    <3> QED BY <3>1, <3>2
  <2> QED BY <1>6, <2>2, <2>3
<1>11. \A p \in Requests : Batch(p) \in Int
  BY KnownByPlace
<1>12. status[q] \in {"new", "thinks"} /\ MayStart(q)
  BY DEF MayGenerate
<1>13. ASSUME ~Continuous, NEW p \in Requests, status[p] # "new" PROVE Batch(p) <= Batch(q)
  BY <1>11, <1>12, <1>13 DEF BatchInv
<1>14. ASSUME ~Continuous
       PROVE  /\ \A i \in 1..Len(kept) : Batch(kept[i].request) <= Batch(q)
              /\ \A i, j \in 1..Len(kept) : i < j => Batch(kept[i].request) <= Batch(kept[j].request)
  <2>1. \A i \in 1..Len(kept) : status[kept[i].request] # "new"
    <3> SUFFICES ASSUME NEW i \in 1..Len(kept) PROVE status[kept[i].request] # "new"
      OBVIOUS
    <3>1. kept[i].request \in Requests /\ served[kept[i].request] # {}
      BY <1>10
    <3> QED BY <3>1 DEF AliveInv
  <2>2. \A i \in 1..Len(kept) : Batch(kept[i].request) <= Batch(q)
    BY <1>10, <1>13, <1>14, <2>1
  <2>3. \A i, j \in DOMAIN cache : i < j => Batch(cache[i].request) <= Batch(cache[j].request)
    BY <1>1, <1>14 DEF BatchInv
  <2>4. \A i, j \in 1..Len(kept) : i < j => Batch(kept[i].request) <= Batch(kept[j].request)
    BY <1>7, <2>3
  <2> QED BY <2>2, <2>4
\* What goes is not in use: that would leave no place for it beside its window.
<1>15. ASSUME gone = 1, 1 \in 1..Len(kept), kept[1].request \in Alive PROVE FALSE
  <2> DEFINE p == kept[1].request
  <2>1. p \in Requests /\ status[p] \in {"waits", "thinks"}
    BY <1>10, <1>15 DEF Alive
  <2>2. ~Continuous => Batch(p) = Batch(q)
    <3>1. ~Continuous => Batch(p) <= Batch(q)
      BY <1>13, <2>1
    <3>2. ~Continuous => ~(Batch(p) < Batch(q))
      BY <1>12, <2>1 DEF MayStart
    <3> QED BY <1>11, <2>1, <3>1, <3>2
  <2>3. \A i \in 1..Len(kept) : ~Continuous => Batch(kept[i].request) = Batch(q)
    <3> SUFFICES ASSUME NEW i \in 1..Len(kept), ~Continuous PROVE Batch(kept[i].request) = Batch(q)
      OBVIOUS
    <3>1. Batch(kept[i].request) <= Batch(q) /\ Batch(kept[i].request) \in Int
      BY <1>10, <1>11, <1>14
    <3>2. Batch(p) <= Batch(kept[i].request)
      BY <1>10, <1>11, <1>14, <1>15, <1>6
    <3> QED BY <1>11, <2>2, <3>1, <3>2
  <2>4. \A i \in 1..Len(kept) : kept[i].request \in Window(q) \ {q}
    BY <1>10, <2>3 DEF Window
  <2>5. Len(kept) = CacheSize
    BY <1>8, <1>15
  <2> QED BY ONLY RoomForAll, q \in Requests, <1>6, <1>10, <2>4, <2>5, NotOnlyTheWindow
<1> DEFINE n == Len(kept) - gone
<1>16. n \in Nat /\ Len(t) = n + 1 /\ DOMAIN t = 1..n + 1
  <2>1. Len(kept) \in Nat /\ CacheSize \in Nat \ {0}
    BY <1>6, RouterAssumption
  <2> QED BY <1>5, <1>8, <2>1
<1>17. /\ \A i \in 1..n : i + gone \in 1..Len(kept) /\ t[i] = kept[i + gone]
       /\ t[n + 1] = new /\ new.request = q /\ new.server = s
  BY <1>6, <1>8, <1>16 DEF new
<1>18. EntryInv'
  <2> SUFFICES ASSUME NEW v \in WorkerIds, NEW i \in DOMAIN request_id_to_server'[v]
               PROVE  LET e == request_id_to_server'[v][i] IN
                      /\ Worker(e.request) = v /\ served'[e.request] = {e.server}
                      /\ \A j \in DOMAIN request_id_to_server'[v] :
                           request_id_to_server'[v][j].request = e.request => j = i
    BY DEF EntryInv
  <2>1. CASE v # w
    <3>1. request_id_to_server'[v] = request_id_to_server[v]
      BY <1>3, <2>1
    <3> DEFINE e == request_id_to_server[v][i]
    <3>2. e \in Entry /\ Worker(e.request) = v /\ served[e.request] = {e.server}
          /\ \A j \in DOMAIN request_id_to_server[v] :
               request_id_to_server[v][j].request = e.request => j = i
      BY <1>4, <3>1 DEF EntryInv
    <3>3. e.request \in Requests /\ e.request # q
      BY <2>1, <3>2 DEF Entry
    <3> QED BY <1>3, <3>1, <3>2, <3>3
  <2>2. CASE v = w
    <3>1. request_id_to_server'[v] = t
      BY <1>3, <2>2
    <3>2. CASE i \in 1..n
      <4>1. /\ t[i].request \in Requests \ {q} /\ Worker(t[i].request) = w
            /\ served[t[i].request] = {t[i].server}
        <5>1. i + gone \in 1..Len(kept) /\ t[i] = kept[i + gone]
          BY <1>17, <3>2
        <5> QED BY <1>10, <5>1
      <4>2. ASSUME NEW j \in 1..n, t[j].request = t[i].request PROVE j = i
        <5>1. /\ i + gone \in 1..Len(kept) /\ t[i] = kept[i + gone]
              /\ j + gone \in 1..Len(kept) /\ t[j] = kept[j + gone]
          BY <1>17, <3>2
        <5>2. i + gone = j + gone
          BY <1>10, <4>2, <5>1
        <5> QED BY <1>16, <3>2, <5>2
      <4>3. \A j \in DOMAIN t : j \in 1..n \/ t[j].request = q
        BY <1>16, <1>17
      <4> QED BY <1>3, <2>2, <3>1, <4>1, <4>2, <4>3
    <3>3. CASE i = n + 1
      <4>1. \A j \in DOMAIN t : t[j].request = q => j = n + 1
        BY <1>10, <1>16, <1>17
      <4> QED BY <1>3, <1>17, <2>2, <3>1, <3>3, <4>1
    <3> QED BY <1>16, <3>1, <3>2, <3>3
  <2> QED BY <2>1, <2>2
<1>19. BatchInv'
  <2> SUFFICES ASSUME ~Continuous
               PROVE  /\ \A v \in WorkerIds : \A i, j \in DOMAIN request_id_to_server'[v] :
                           i < j => Batch(request_id_to_server'[v][i].request)
                                      <= Batch(request_id_to_server'[v][j].request)
                      /\ \A p, r \in Requests :
                           status'[r] # "new" /\ Batch(p) < Batch(r) => status'[p] = "ended"
    BY DEF BatchInv
  <2>1. ASSUME NEW v \in WorkerIds, NEW i \in DOMAIN request_id_to_server'[v],
               NEW j \in DOMAIN request_id_to_server'[v], i < j
        PROVE  Batch(request_id_to_server'[v][i].request)
                 <= Batch(request_id_to_server'[v][j].request)
    <3>1. CASE v # w
      BY <1>3, <2>1, <3>1 DEF BatchInv
    <3>2. CASE v = w
      <4>1. request_id_to_server'[v] = t /\ i \in 1..n + 1 /\ j \in 1..n + 1
        BY <1>3, <1>16, <2>1, <3>2
      <4>2. i \in 1..n
        BY <1>16, <2>1, <4>1
      <4>3. CASE j \in 1..n
        <5>1. i + gone < j + gone
          BY <1>16, <2>1, <4>2, <4>3
        <5> QED BY <1>14, <1>17, <4>1, <4>2, <4>3, <5>1
      <4>4. CASE j = n + 1
        BY <1>14, <1>17, <4>1, <4>2, <4>4
      <4> QED BY <1>16, <4>1, <4>3, <4>4
    <3> QED BY <3>1, <3>2
  <2>2. ASSUME NEW p \in Requests, NEW r \in Requests, status'[r] # "new", Batch(p) < Batch(r)
        PROVE  status'[p] = "ended"
    <3>1. CASE r = q
      <4>1. p # q /\ status[p] = "ended"
        BY <1>11, <1>12, <2>2, <3>1 DEF MayStart
      <4> QED BY <1>3, <4>1
    <3>2. CASE r # q
      <4>1. status[p] = "ended"
        BY <1>3, <2>2, <3>2 DEF BatchInv
      <4> QED BY <1>3, <1>12, <4>1
    <3> QED BY <3>1, <3>2
  <2> QED BY <2>1, <2>2
<1>20. AliveInv'
  <2> SUFFICES ASSUME NEW p \in Requests
               PROVE  /\ status'[p] = "new" <=> served'[p] = {}
                      /\ \A a, b \in served'[p] : a = b
                      /\ p \in Alive' => Remembered(Worker(p), p)'
    BY DEF AliveInv
  <2>1. CASE p = q
    <3>1. t[n + 1].request = q /\ n + 1 \in DOMAIN t /\ request_id_to_server'[w] = t
      BY <1>1, <1>3, <1>16, <1>17
    <3>2. Remembered(w, q)'
      BY <3>1 DEF Remembered, Entries
    <3> QED BY <1>3, <2>1, <3>2
  <2>2. CASE p # q
    <3>1. status'[p] = status[p] /\ served'[p] = served[p]
      BY <1>3, <2>2
    <3>2. ASSUME p \in Alive PROVE Remembered(Worker(p), p)'
      <4>1. Remembered(Worker(p), p) /\ Worker(p) \in WorkerIds
        BY <3>2, WorkerInRange DEF AliveInv
      <4>2. CASE Worker(p) # w
        BY <1>3, <4>1, <4>2 DEF Remembered, Entries
      <4>3. CASE Worker(p) = w
        <5>1. PICK j \in DOMAIN cache : cache[j].request = p
          BY <4>1, <4>3 DEF Remembered, Entries
        <5>2. PICK i \in 1..Len(kept) : kept[i] = cache[j]
          BY <1>6, <2>2, <5>1
        <5>3. i - gone \in 1..n
          <6>1. gone = 1 => i # 1
            BY <1>15, <3>2, <5>1, <5>2
          <6> QED BY <1>6, <1>16, <5>2, <6>1
        <5>4. t[i - gone].request = p /\ i - gone \in DOMAIN t
          BY <1>6, <1>16, <1>17, <5>1, <5>2, <5>3
        <5>5. request_id_to_server'[Worker(p)] = t
          BY <1>1, <1>3, <4>3
        <5> QED BY <5>4, <5>5 DEF Remembered, Entries
      <4> QED BY <4>2, <4>3
    <3>3. p \in Alive' => p \in Alive
      BY <3>1 DEF Alive
    <3> QED BY <3>1, <3>2, <3>3 DEF AliveInv
  <2> QED BY <2>1, <2>2
<1> QED BY <1>2, <1>18, <1>19, <1>20

\* The conversations a server was given by a worker.
Given(w, s, who) == {q \in Requests : Worker(q) = w /\ s \in who[q]}

LEMMA GivenFinite ==
  ASSUME NEW w, NEW s, NEW who PROVE IsFiniteSet(Given(w, s, who))
<1>1. Batches * Workers * Chunk \in Int
  BY RouterAssumption, SMT
<1>2. IsFiniteSet(Requests)
  BY <1>1, FS_Interval DEF Requests
<1> QED BY <1>2, FS_Subset DEF Given

\* What is counted are those.
LEMMA CountedAsGiven ==
  ASSUME NEW who, NEW w
  PROVE  \A s \in Servers :
           {q \in {p \in Requests : Worker(p) = w /\ who[p] # {}} : s \in who[q]} = Given(w, s, who)
BY DEF Given

LEMMA InitSessions == Init => SessionInv
<1> SUFFICES ASSUME Init PROVE SessionInv
  OBVIOUS
<1>1. EntryInv /\ BatchInv /\ AliveInv
  BY DEF Init, EntryInv, BatchInv, AliveInv, Alive
<1>2. EachCountedOnce
  <2> SUFFICES ASSUME NEW w \in WorkerIds, NEW s \in Servers
               PROVE  weighted_servers[w][s] = Cardinality(Given(w, s, served))
    BY CountedAsGiven DEF EachCountedOnce
  <2>1. Given(w, s, served) = {}
    BY DEF Init, Given
  <2> QED BY <2>1, FS_EmptySet DEF Init
<1> QED BY <1>1, <1>2 DEF SessionInv

\* A later turn goes where the first one went, and is not counted.
LEMMA StickKeepsSessions ==
  ASSUME RoomForAll, TypeOK, SessionInv, NEW q \in Requests, Stick(q) PROVE SessionInv'
<1> DEFINE w == Worker(q)
           cache == request_id_to_server[w]
<1>1. PICK e \in Entries(w) : e.request = q /\ Generate(q, e.server)
  BY DEF Stick
<1>2. w \in WorkerIds /\ cache \in Seq(Entry)
  BY WorkerInRange DEF TypeOK, Entry
<1>3. PICK i \in DOMAIN cache : e = cache[i]
  BY DEF Entries
<1>4. e.server \in Servers
  <2> HIDE DEF cache
  <2>1. e \in Entry
    BY <1>2, <1>3
  <2> QED BY <2>1 DEF Entry
<1>5. served[q] = {e.server}
  <2>1. served[cache[i].request] = {cache[i].server}
    BY <1>2, <1>3 DEF SessionInv, EntryInv
  <2> QED BY <1>1, <1>3, <2>1
<1>6. EntryInv' /\ BatchInv' /\ AliveInv' /\ served' = [served EXCEPT ![q] = {e.server}]
  <2>1. Remembered(w, q) /\ MayGenerate(q)
    BY <1>1 DEF Remembered, Stick
  <2> QED BY <1>1, <1>4, <1>5, <2>1, SendKeeps DEF SessionInv
<1>7. served' = served /\ weighted_servers' = weighted_servers
  BY <1>5, <1>6 DEF TypeOK, Stick
<1>8. EachCountedOnce'
  BY <1>7 DEF SessionInv, EachCountedOnce
<1> QED BY <1>6, <1>8 DEF SessionInv

\* A conversation that nobody remembers begins: it is counted at the server it is given.
LEMMA ChooseKeepsSessions ==
  ASSUME RoomForAll, TypeOK, SessionInv, NEW q \in Requests, Choose(q) PROVE SessionInv'
<1> DEFINE w == Worker(q)
<1>1. PICK s \in Least(w) :
        /\ Generate(q, s)
        /\ weighted_servers' = [weighted_servers EXCEPT ![w][s] = @ + 1]
  BY DEF Choose
<1>2. s \in Servers /\ w \in WorkerIds
  BY WorkerInRange DEF Least
<1>3. status[q] = "new" /\ served[q] = {}
  BY DEF Choose, MayGenerate, SessionInv, AliveInv, Alive
<1>4. EntryInv' /\ BatchInv' /\ AliveInv' /\ served' = [served EXCEPT ![q] = {s}]
  <2>1. MayGenerate(q) /\ served[q] \subseteq {s}
    BY <1>3 DEF Choose
  <2> QED BY <1>1, <1>2, <1>3, <2>1, SendKeeps DEF SessionInv
<1>5. EachCountedOnce'
  <2> SUFFICES ASSUME NEW v \in WorkerIds, NEW a \in Servers
               PROVE  weighted_servers'[v][a] = Cardinality(Given(v, a, served'))
    BY CountedAsGiven DEF EachCountedOnce
  <2>1. weighted_servers[v][a] = Cardinality(Given(v, a, served))
    BY CountedAsGiven DEF SessionInv, EachCountedOnce
  <2>2. weighted_servers'[v][a] = IF v = w /\ a = s THEN weighted_servers[v][a] + 1
                                  ELSE weighted_servers[v][a]
    BY <1>1, <1>2 DEF TypeOK
  <2>3. CASE v = w /\ a = s
    <3>1. Given(v, a, served') = Given(v, a, served) \cup {q} /\ q \notin Given(v, a, served)
      BY <1>3, <1>4, <2>3 DEF Given, TypeOK
    <3>2. Cardinality(Given(v, a, served) \cup {q}) = Cardinality(Given(v, a, served)) + 1
      BY <3>1, GivenFinite, FS_AddElement
    <3> QED BY <2>1, <2>2, <2>3, <3>1, <3>2
  <2>4. CASE ~(v = w /\ a = s)
    <3>1. Given(v, a, served') = Given(v, a, served)
      BY <1>3, <1>4, <2>4 DEF Given, TypeOK
    <3> QED BY <2>1, <2>2, <2>4, <3>1
  <2> QED BY <2>3, <2>4
<1> QED BY <1>4, <1>5 DEF SessionInv

LEMMA RestKeepsSessions ==
  ASSUME TypeOK, SessionInv, NEW q \in Requests, Answered(q) \/ Stops(q) PROVE SessionInv'
<1>1. /\ status[q] \in {"waits", "thinks"}
      /\ \E after \in {"thinks", "ended"} : status' = [status EXCEPT ![q] = after]
      /\ UNCHANGED <<weighted_servers, request_id_to_server, turns, served>>
  BY DEF Answered, Stops
<1>2. EntryInv' /\ EachCountedOnce'
  <2>1. request_id_to_server' = request_id_to_server /\ served' = served
        /\ weighted_servers' = weighted_servers
    BY <1>1
  <2>2. EntryInv'
    BY <2>1 DEF SessionInv, EntryInv
  <2>3. EachCountedOnce'
    BY <2>1 DEF SessionInv, EachCountedOnce
  <2> QED BY <2>2, <2>3
<1>3. BatchInv'
  BY <1>1 DEF SessionInv, BatchInv, TypeOK
<1>4. AliveInv'
  BY <1>1 DEF SessionInv, AliveInv, Alive, TypeOK, Remembered, Entries
<1> QED BY <1>2, <1>3, <1>4 DEF SessionInv

\* With room for all that goes on, a conversation keeps its server, and counts once.
THEOREM SessionsKeepTheirServer == Spec => []SessionsStick
<1> DEFINE Sticky == TypeOK /\ (RoomForAll => SessionInv)
<1>1. Init => Sticky
  BY InitIInv, InitSessions DEF IInv
<1>2. Sticky /\ TypeOK' /\ [Next]_vars => Sticky'
  <2> SUFFICES ASSUME Sticky, TypeOK', [Next]_vars, RoomForAll PROVE SessionInv'
    BY DEF RoomForAll
  <2>1. CASE UNCHANGED vars
    <3>1. /\ request_id_to_server' = request_id_to_server /\ served' = served
          /\ weighted_servers' = weighted_servers /\ status' = status
      BY <2>1 DEF vars
    <3>2. EntryInv' /\ BatchInv'
      BY <3>1 DEF SessionInv, EntryInv, BatchInv
    <3>3. AliveInv' /\ EachCountedOnce'
      BY <3>1 DEF SessionInv, AliveInv, Alive, EachCountedOnce, Remembered, Entries
    <3> QED BY <3>2, <3>3 DEF SessionInv
  <2>2. CASE Next
    BY <2>2, StickKeepsSessions, ChooseKeepsSessions, RestKeepsSessions DEF Next
  <2> QED BY <2>1, <2>2
<1>3. Sticky => SessionsStick
  <2> SUFFICES ASSUME Sticky, RoomForAll PROVE StickySession /\ EachCountedOnce
    BY DEF SessionsStick
  <2>1. EachCountedOnce
    BY DEF SessionInv
  <2>2. ASSUME NEW q \in Requests PROVE Cardinality(served[q]) <= 1
    <3>1. CASE served[q] = {}
      BY <3>1, FS_EmptySet
    <3>2. CASE served[q] # {}
      <4>1. PICK s : s \in served[q]
        BY <3>2
      <4>2. served[q] = {s}
        BY <4>1 DEF SessionInv, AliveInv
      <4> QED BY <4>2, FS_Singleton
    <3> QED BY <3>1, <3>2
  <2> QED BY <2>1, <2>2 DEF StickySession
<1> HIDE DEF Sticky
<1> QED BY <1>1, <1>2, <1>3, RouterTyped, PTL DEF Spec

-----------------------------------------------------------------------------
\* Requests that have paid bucket b and sleep their debt off.
Paid(b) == IF b = "rpm" THEN "rpmPaid" ELSE "tpmPaid"
InDebt(b) == {r \in Request : pc[r] = Paid(b)}

\* A bucket that holds a request's cost is never in debt and grants at once.
StandardBucket(b) ==
    /\ InDebt(b) = {}
    /\ tokens[b] >= 0 /\ granted[b] = Refill(b)

\* One that does not: whoever sleeps has to wait for at least the debt there is (the last of
\* them for just that), nobody for what another one is waiting for too, and when a sleep ends
\* the period has room for the request.
OversizedBucket(b) ==
    /\ granted[b] >= 0 /\ granted[b] >= Refill(b)
    /\ \A r \in InDebt(b) : left[r] <= 0 - Refill(b) /\ granted[b] + left[r] >= Cost[b]
    /\ \A r, s \in InDebt(b) :
         r # s => left[r] >= left[s] + Cost[b] \/ left[s] >= left[r] + Cost[b]

OneBucket(b) == IF Cost[b] <= Second THEN StandardBucket(b) ELSE OversizedBucket(b)
BucketsInv == \A b \in Bucket : OneBucket(b)

\* Who waits for the semaphore does so once.
WaitersInv ==
    /\ \A i \in DOMAIN waiters : pc[waiters[i]] = "wait"
    /\ \A i, k \in DOMAIN waiters : waiters[i] = waiters[k] => i = k

\* A permit is either free or with the request that took it.
PermitsInv == IsFiniteSet(Holders) /\ permits + Cardinality(Holders) = limits.max_concurrent

\* A response is decoded by one job.
Decode(j) == j.kind = "decode"
JobsInv ==
    /\ \A i \in DOMAIN jobs : Decode(jobs[i]) => pc[jobs[i].of] = "decode" /\ jobs[i] \notin threads
    /\ \A i, k \in DOMAIN jobs : Decode(jobs[i]) /\ jobs[i] = jobs[k] => i = k
    /\ \A j \in threads : Decode(j) => pc[j.of] = "decode"

RateInv == RateTypeOK /\ BucketsInv /\ WaitersInv /\ PermitsInv /\ JobsInv
-----------------------------------------------------------------------------
\* The settings are numbers, as init_class computes them.
LEMMA SettingFacts ==
    ASSUME RateTypeOK
    PROVE  /\ limits \in Setting
           /\ Second \in Nat /\ Second > 0
           /\ \A b \in Bucket : Cost[b] \in Nat
           /\ limits.max_concurrent \in Nat /\ limits.max_concurrent > 0
           /\ limits.timeout \in Nat
<1>1. limits \in Setting
  BY RateAssumption DEF RateTypeOK
<1>2. limits.rpm \in Nat /\ limits.tpm \in Nat /\ limits.second \in Nat \ {0}
      /\ limits.max_concurrent \in Nat \ {0} /\ limits.timeout \in Nat \ {0}
  BY <1>1 DEF Setting
<1>3. Cost["rpm"] = limits.rpm /\ Cost["tpm"] = limits.tpm
  BY DEF Cost, Bucket
<1> QED BY <1>1, <1>2, <1>3 DEF Second, Bucket

\* What acquire has after the refill: never more than the bucket holds.
LEMMA RefillFacts ==
    ASSUME RateTypeOK, NEW b \in Bucket
    PROVE  /\ tokens[b] \in Int /\ tokens[b] <= Second /\ idle[b] \in Nat /\ granted[b] \in Int
           /\ Refill(b) \in Int /\ Refill(b) <= Second
           /\ Refill(b) <= tokens[b] + idle[b]
           /\ tokens[b] + idle[b] <= Second => Refill(b) = tokens[b] + idle[b]
           /\ tokens[b] + idle[b] > Second => Refill(b) = Second
           /\ tokens[b] <= Refill(b)
BY SettingFacts DEF RateTypeOK, Refill, Smaller

\* A step that leaves a bucket alone, whoever else stops sleeping.
LEMMA BucketUntouched ==
    ASSUME RateTypeOK, NEW b \in Bucket, OneBucket(b), limits' = limits,
           tokens'[b] = tokens[b], idle'[b] = idle[b], granted'[b] = granted[b],
           \A r \in InDebt(b)' : r \in InDebt(b) /\ left'[r] = left[r]
    PROVE  OneBucket(b)'
<1>1. Refill(b)' = Refill(b) /\ Cost'[b] = Cost[b] /\ Second' = Second
  BY DEF Refill, Smaller, Cost, Second
<1> DEFINE D == InDebt(b)
           D2 == InDebt(b)'
<1>2. \A r \in D2 : r \in D /\ left'[r] = left[r]
  OBVIOUS
<1>3. CASE Cost[b] <= Second
  <2>1. D = {} /\ tokens[b] >= 0 /\ granted[b] = Refill(b)
    BY <1>3 DEF OneBucket, StandardBucket
  <2>2. D2 = {}
    BY <1>2, <2>1
  <2> QED BY <1>1, <1>3, <2>1, <2>2 DEF OneBucket, StandardBucket
<1>4. CASE ~(Cost[b] <= Second)
  <2>1. OversizedBucket(b)
    BY <1>4 DEF OneBucket
  <2>2. \A r \in D : left[r] <= 0 - Refill(b) /\ granted[b] + left[r] >= Cost[b]
    BY <2>1 DEF OversizedBucket
  <2>3. \A r, s \in D : r # s => left[r] >= left[s] + Cost[b] \/ left[s] >= left[r] + Cost[b]
    BY <2>1 DEF OversizedBucket
  <2>4. granted[b] >= 0 /\ granted[b] >= Refill(b)
    BY <2>1 DEF OversizedBucket
  <2>5. \A r \in D2 : left'[r] <= 0 - Refill(b) /\ granted[b] + left'[r] >= Cost[b]
    <3> HIDE DEF D, D2
    <3> QED BY <1>2, <2>2
  <2>6. \A r, s \in D2 : r # s => left'[r] >= left'[s] + Cost[b] \/ left'[s] >= left'[r] + Cost[b]
    <3> HIDE DEF D, D2
    <3> QED BY <1>2, <2>3
  <2> QED BY <1>1, <1>4, <2>4, <2>5, <2>6 DEF OneBucket, OversizedBucket
<1> QED BY <1>3, <1>4

-----------------------------------------------------------------------------
\* An oversized request pays with all there is, and goes to the end of those in debt.
LEMMA OversizedKeeps ==
    ASSUME RateTypeOK, NEW b \in Bucket, NEW r \in Request, OneBucket(b), limits' = limits,
           pc[r] = b, Oversized(r, b), idle' = [idle EXCEPT ![b] = 0]
    PROVE  OneBucket(b)'
<1>1. /\ Cost[b] > Second
      /\ tokens' = [tokens EXCEPT ![b] = Refill(b) - Cost[b]]
      /\ pc' = [pc EXCEPT ![r] = Paid(b)]
      /\ left' = [left EXCEPT ![r] = Cost[b] - Refill(b)]
      /\ granted' = granted
  BY DEF Oversized, Sleep, Paid
<1>2. /\ Cost[b] \in Nat /\ Second \in Nat /\ Second > 0 /\ Refill(b) \in Int /\ Refill(b) <= Second
      /\ granted[b] \in Int
  BY SettingFacts, RefillFacts
<1>3. Cost'[b] = Cost[b] /\ Second' = Second
  BY DEF Cost, Second
<1>4. tokens'[b] = Refill(b) - Cost[b] /\ idle'[b] = 0
  BY <1>1 DEF RateTypeOK
<1>5. Refill(b)' = Refill(b) - Cost[b]
  <2>1. Refill(b)' = IF Second' < tokens'[b] + idle'[b] THEN Second' ELSE tokens'[b] + idle'[b]
    BY DEF Refill, Smaller
  <2> QED BY <2>1, <1>1, <1>2, <1>3, <1>4
<1>6. OversizedBucket(b)
  BY <1>1, <1>2 DEF OneBucket
<1> DEFINE D == InDebt(b)
           D2 == InDebt(b)'
           R == Refill(b)
<1>7. r \notin D /\ pc'[r] = Paid(b) /\ left'[r] = Cost[b] - R
  BY <1>1 DEF InDebt, Paid, Bucket, RateTypeOK
<1>8. \A s \in D2 : s = r \/ (s \in D /\ left'[s] = left[s])
  <2>1. \A s \in Request : s # r => pc'[s] = pc[s] /\ left'[s] = left[s]
    BY <1>1 DEF RateTypeOK
  <2> QED BY <2>1 DEF InDebt
<1>9. \A s \in D : left[s] \in Int
  BY DEF InDebt, RateTypeOK
<1>10. /\ granted[b] >= 0 /\ granted[b] >= R
       /\ \A s \in D : left[s] <= 0 - R /\ granted[b] + left[s] >= Cost[b]
       /\ \A s, t \in D : s # t => left[s] >= left[t] + Cost[b] \/ left[t] >= left[s] + Cost[b]
  BY <1>6 DEF OversizedBucket
<1>11. R \in Int /\ R <= Second
  BY <1>2
<1> HIDE DEF D, D2, R
<1>12. \A s \in D2 : left'[s] <= 0 - (R - Cost[b]) /\ granted[b] + left'[s] >= Cost[b]
  BY ONLY <1>1, <1>2, <1>7, <1>8, <1>9, <1>10, <1>11
<1>13. \A s, t \in D2 : s # t => left'[s] >= left'[t] + Cost[b] \/ left'[t] >= left'[s] + Cost[b]
  <2> SUFFICES ASSUME NEW s \in D2, NEW t \in D2, s # t
               PROVE  left'[s] >= left'[t] + Cost[b] \/ left'[t] >= left'[s] + Cost[b]
    OBVIOUS
  <2>1. CASE s = r
    BY ONLY <2>1, s # t, <1>2, <1>7, <1>8, <1>9, <1>10, <1>11, s \in D2, t \in D2
  <2>2. CASE t = r
    BY ONLY <2>2, s # t, <1>2, <1>7, <1>8, <1>9, <1>10, <1>11, s \in D2, t \in D2
  <2>3. CASE s # r /\ t # r
    BY ONLY <2>3, s # t, <1>8, <1>10, s \in D2, t \in D2
  <2> QED BY <2>1, <2>2, <2>3
<1>14. granted[b] >= R - Cost[b]
  BY <1>2, <1>10, <1>11
<1> USE DEF D2, R
<1>15. OversizedBucket(b)'
  BY <1>1, <1>3, <1>5, <1>10, <1>12, <1>13, <1>14 DEF OversizedBucket
<1> QED BY <1>1, <1>2, <1>3, <1>15 DEF OneBucket

\* A standard request takes what it needs, or leaves all there is.
LEMMA StandardKeeps ==
    ASSUME RateTypeOK, NEW b \in Bucket, NEW r \in Request, OneBucket(b), limits' = limits,
           pc[r] = b, Enough(r, b) \/ TooFew(r, b), idle' = [idle EXCEPT ![b] = 0]
    PROVE  OneBucket(b)'
<1>1. /\ Cost[b] \in Nat /\ Second \in Nat /\ Second > 0 /\ Refill(b) \in Int /\ Refill(b) <= Second
      /\ granted[b] \in Int
  BY SettingFacts, RefillFacts
<1>2. Cost[b] <= Second
  BY DEF Enough, TooFew
<1>3. Cost'[b] = Cost[b] /\ Second' = Second
  BY DEF Cost, Second
<1>4. InDebt(b) = {} /\ tokens[b] >= 0 /\ granted[b] = Refill(b)
  BY <1>2 DEF OneBucket, StandardBucket
<1>5. PICK to \in {"wait", "tpm", "rpmSleep", "tpmSleep"} : pc' = [pc EXCEPT ![r] = to]
  BY DEF Enough, TooFew, Pass, Beyond, Sleep, Bucket
<1>6. InDebt(b)' = {}
  <2>1. \A s \in Request : pc'[s] = IF s = r THEN to ELSE pc[s]
    BY <1>5 DEF RateTypeOK
  <2>2. to # Paid(b)
    BY DEF Paid
  <2> QED BY <2>1, <2>2, <1>4 DEF InDebt
<1>7. idle'[b] = 0
  BY DEF RateTypeOK
<1>8. Refill(b)' = IF Second' < tokens'[b] + idle'[b] THEN Second' ELSE tokens'[b] + idle'[b]
  BY DEF Refill, Smaller
<1>9. CASE Enough(r, b)
  <2>1. Refill(b) >= Cost[b] /\ tokens'[b] = Refill(b) - Cost[b] /\ granted'[b] = granted[b] - Cost[b]
    BY <1>9 DEF Enough, Pass, RateTypeOK
  <2>2. tokens'[b] >= 0 /\ Refill(b)' = granted'[b]
    BY <2>1, <1>1, <1>3, <1>4, <1>7, <1>8
  <2> QED BY <2>2, <1>2, <1>3, <1>6 DEF OneBucket, StandardBucket
<1>10. CASE TooFew(r, b)
  <2>1. tokens'[b] = Refill(b) /\ granted'[b] = granted[b]
    BY <1>10 DEF TooFew, Sleep, RateTypeOK
  <2>2. Refill(b) >= 0
    BY <1>1, <1>4, RefillFacts
  <2>3. tokens'[b] >= 0 /\ Refill(b)' = granted'[b]
    BY <2>1, <2>2, <1>1, <1>3, <1>4, <1>7, <1>8
  <2> QED BY <2>3, <1>2, <1>3, <1>6 DEF OneBucket, StandardBucket
<1> QED BY <1>9, <1>10

\* A sleeper that has paid goes on when its debt is refilled, and the period has room for it.
LEMMA PaidKeeps ==
    ASSUME RateTypeOK, NEW b \in Bucket, NEW r \in Request, OneBucket(b), limits' = limits,
           pc[r] = Paid(b), left[r] = 0, Pass(r, b), UNCHANGED <<tokens, idle, left>>
    PROVE  OneBucket(b)'
<1>1. /\ Cost[b] \in Nat /\ Second \in Nat /\ Second > 0 /\ Refill(b) \in Int /\ Refill(b) <= Second
      /\ granted[b] \in Int
  BY SettingFacts, RefillFacts
<1>2. Refill(b)' = Refill(b) /\ Cost'[b] = Cost[b] /\ Second' = Second
  BY DEF Refill, Smaller, Cost, Second
<1>3. r \in InDebt(b)
  BY DEF InDebt
<1>4. Cost[b] > Second /\ OversizedBucket(b)
  BY <1>1, <1>3 DEF OneBucket, StandardBucket
<1>5. granted'[b] = granted[b] - Cost[b] /\ pc' = [pc EXCEPT ![r] = Beyond(b)]
  BY DEF Pass, RateTypeOK
<1> DEFINE D == InDebt(b)
           D2 == InDebt(b)'
           R == Refill(b)
<1>6. \A s \in D2 : s \in D /\ s # r
  <2>1. Beyond(b) # Paid(b)
    BY DEF Beyond, Paid, Bucket
  <2>2. \A s \in Request : pc'[s] = IF s = r THEN Beyond(b) ELSE pc[s]
    BY <1>5 DEF RateTypeOK
  <2> QED BY <2>1, <2>2 DEF InDebt
<1>7. \A s \in D : left[s] \in Nat
  BY DEF InDebt, RateTypeOK
<1>8. /\ granted[b] >= 0 /\ granted[b] >= R
      /\ \A s \in D : left[s] <= 0 - R /\ granted[b] + left[s] >= Cost[b]
      /\ \A s, t \in D : s # t => left[s] >= left[t] + Cost[b] \/ left[t] >= left[s] + Cost[b]
  BY <1>4 DEF OversizedBucket
<1>9. r \in D /\ R \in Int
  BY <1>1, <1>3
<1> HIDE DEF D, D2, R
<1>10. granted[b] >= Cost[b] /\ R <= 0
  BY ONLY <1>1, <1>8, <1>9, left[r] = 0
<1>11. granted[b] - Cost[b] >= 0 /\ granted[b] - Cost[b] >= R
  BY ONLY <1>1, <1>9, <1>10
<1>12. \A s \in D : s # r => left[s] >= Cost[b]
  BY ONLY <1>1, <1>4, <1>7, <1>8, <1>9, left[r] = 0
<1>13. \A s \in D2 : left[s] <= 0 - R /\ granted[b] - Cost[b] + left[s] >= Cost[b]
  BY ONLY <1>1, <1>6, <1>7, <1>8, <1>9, <1>10, <1>12
<1>14. \A s, t \in D2 : s # t => left[s] >= left[t] + Cost[b] \/ left[t] >= left[s] + Cost[b]
  BY ONLY <1>6, <1>8
<1> USE DEF D2, R
<1>15. OversizedBucket(b)'
  BY <1>2, <1>5, <1>11, <1>13, <1>14 DEF OversizedBucket
<1> QED BY <1>1, <1>2, <1>4, <1>15 DEF OneBucket

\* A tick refills what was spent and shortens every sleep by the same.
LEMMA TickKeeps ==
    ASSUME RateTypeOK, NEW b \in Bucket, OneBucket(b), Tick
    PROVE  OneBucket(b)'
<1>1. /\ Cost[b] \in Nat /\ Second \in Nat /\ Second > 0 /\ Refill(b) \in Int /\ Refill(b) <= Second
      /\ granted[b] \in Int /\ tokens[b] \in Int /\ idle[b] \in Nat
      /\ tokens[b] + idle[b] <= Second => Refill(b) = tokens[b] + idle[b]
      /\ tokens[b] + idle[b] > Second => Refill(b) = Second
  BY SettingFacts, RefillFacts
<1>2. Cost'[b] = Cost[b] /\ Second' = Second /\ tokens'[b] = tokens[b]
  BY DEF Tick, Cost, Second
<1>3. idle'[b] = IF tokens[b] + idle[b] > Second THEN idle[b] ELSE idle[b] + 1
  BY DEF Tick, Longer
<1>4. Refill(b)' = IF Second' < tokens'[b] + idle'[b] THEN Second' ELSE tokens'[b] + idle'[b]
  BY DEF Refill, Smaller
<1>5. Refill(b)' = IF Refill(b) + 1 <= Second THEN Refill(b) + 1 ELSE Second
  BY <1>1, <1>2, <1>3, <1>4
<1>6. granted'[b] = Smaller(Burst(b), granted[b] + 1)
  BY DEF Tick
<1>7. \A s \in Request : pc'[s] = pc[s] /\ left'[s] = Larger(0, left[s] - 1)
  BY DEF Tick
<1>8. CASE Cost[b] <= Second
  <2>1. InDebt(b) = {} /\ tokens[b] >= 0 /\ granted[b] = Refill(b)
    BY <1>8 DEF OneBucket, StandardBucket
  <2>2. InDebt(b)' = {}
    BY <2>1, <1>7 DEF InDebt
  <2>3. granted'[b] = IF granted[b] + 1 <= Second THEN granted[b] + 1 ELSE Second
    BY <1>1, <1>6, <1>8 DEF Smaller, Burst, Larger
  <2>4. granted'[b] = Refill(b)'
    BY <1>5, <2>1, <2>3
  <2> QED BY <1>2, <1>8, <2>1, <2>2, <2>4 DEF OneBucket, StandardBucket
<1>9. CASE ~(Cost[b] <= Second)
  <2>1. OversizedBucket(b) /\ Cost[b] > Second
    BY <1>1, <1>9 DEF OneBucket
  <2>2. granted'[b] = IF granted[b] + 1 <= Cost[b] THEN granted[b] + 1 ELSE Cost[b]
    BY <1>1, <1>6, <2>1 DEF Smaller, Burst, Larger
  <2> DEFINE D == InDebt(b)
             D2 == InDebt(b)'
             R == Refill(b)
  <2>3. D2 = D
    BY <1>7 DEF InDebt
  <2>4. \A s \in D : left[s] \in Nat /\ left[s] > 0
    <3>1. \A s \in D : s \in Request /\ pc[s] \in Sleeping
      BY DEF InDebt, Paid, Sleeping
    <3>2. \A s \in Request : pc[s] \in Sleeping => left[s] > 0
      BY DEF Tick, Idle
    <3> QED BY <3>1, <3>2 DEF RateTypeOK
  <2>5. \A s \in D : left'[s] = left[s] - 1
    BY <2>4, <1>7 DEF Larger, InDebt
  <2>6. /\ granted[b] >= 0 /\ granted[b] >= R
        /\ \A s \in D : left[s] <= 0 - R /\ granted[b] + left[s] >= Cost[b]
        /\ \A s, t \in D : s # t => left[s] >= left[t] + Cost[b] \/ left[t] >= left[s] + Cost[b]
    BY <2>1 DEF OversizedBucket
  <2>7. R \in Int /\ R <= Second
    BY <1>1
  <2>8. Refill(b)' = IF R + 1 <= Second THEN R + 1 ELSE Second
    BY <1>5
  <2> HIDE DEF D, D2, R
  <2>9. granted'[b] >= 0 /\ granted'[b] >= Refill(b)'
    BY ONLY <1>1, <2>1, <2>2, <2>6, <2>7, <2>8
  <2>10. \A s \in D : left'[s] <= 0 - Refill(b)' /\ granted'[b] + left'[s] >= Cost[b]
    BY ONLY <1>1, <2>1, <2>2, <2>4, <2>5, <2>6, <2>7, <2>8
  <2>11. \A s, t \in D : s # t => left'[s] >= left'[t] + Cost[b] \/ left'[t] >= left'[s] + Cost[b]
    BY ONLY <1>1, <2>4, <2>5, <2>6
  <2>12. \A s \in D2 : left'[s] <= 0 - Refill(b)' /\ granted'[b] + left'[s] >= Cost[b]
    BY <2>3, <2>10
  <2>13. \A s, t \in D2 : s # t => left'[s] >= left'[t] + Cost[b] \/ left'[t] >= left'[s] + Cost[b]
    BY <2>3, <2>11
  <2> USE DEF D2
  <2>14. OversizedBucket(b)'
    BY <1>2, <2>9, <2>12, <2>13 DEF OversizedBucket
  <2> QED BY <1>2, <1>9, <2>14 DEF OneBucket
<1> QED BY <1>8, <1>9

\* What a request does elsewhere leaves a bucket alone.
LEMMA BucketPassedBy ==
    ASSUME RateTypeOK, NEW b \in Bucket, OneBucket(b), limits' = limits,
           tokens'[b] = tokens[b], idle'[b] = idle[b], granted'[b] = granted[b],
           NEW r \in Request, NEW to, to # Paid(b), pc' = [pc EXCEPT ![r] = to],
           \A s \in Request : s # r => left'[s] = left[s]
    PROVE  OneBucket(b)'
<1>1. \A s \in InDebt(b)' : s \in InDebt(b) /\ left'[s] = left[s]
  BY DEF InDebt, RateTypeOK
<1> QED BY <1>1, BucketUntouched

\* Acquire keeps both buckets in order: the one it is at, and the other.
LEMMA AcquireKeepsBuckets ==
    ASSUME RateTypeOK, BucketsInv, NEW r \in Request, Acquire(r)
    PROVE  BucketsInv'
<1>1. PICK b \in Bucket :
        /\ pc[r] = b
        /\ Oversized(r, b) \/ Enough(r, b) \/ TooFew(r, b)
        /\ idle' = [idle EXCEPT ![b] = 0]
        /\ UNCHANGED <<limits, jobs, threads, result, permits>>
  BY DEF Acquire
<1>2. OneBucket(b)'
  BY <1>1, OversizedKeeps, StandardKeeps DEF BucketsInv
<1>3. ASSUME NEW c \in Bucket, c # b PROVE OneBucket(c)'
  <2>1. PICK to \in {"wait", "tpm", "rpmSleep", "tpmSleep", Paid(b)} : pc' = [pc EXCEPT ![r] = to]
    BY <1>1 DEF Oversized, Enough, TooFew, Pass, Beyond, Sleep, Bucket, Paid
  <2>2. to # Paid(c)
    BY <1>3 DEF Paid, Bucket
  <2>3. tokens'[c] = tokens[c] /\ idle'[c] = idle[c] /\ granted'[c] = granted[c]
    BY <1>1, <1>3 DEF Oversized, Enough, TooFew, Pass, Sleep, RateTypeOK
  <2>4. \A s \in Request : s # r => left'[s] = left[s]
    BY <1>1 DEF Oversized, Enough, TooFew, Pass, Sleep, RateTypeOK
  <2> QED BY <1>1, <2>1, <2>2, <2>3, <2>4, BucketPassedBy DEF BucketsInv
<1> QED BY <1>2, <1>3 DEF BucketsInv

\* So does the end of a sleep.
LEMMA WakeKeepsBuckets ==
    ASSUME RateTypeOK, BucketsInv, NEW r \in Request, Wake(r)
    PROVE  BucketsInv'
<1>1. left[r] = 0 /\ UNCHANGED <<limits, left, tokens, idle>>
  BY DEF Wake
<1>2. PICK b \in Bucket :
        \/ pc[r] = Paid(b) /\ Pass(r, b)
        \/ /\ pc' = [pc EXCEPT ![r] = b]
           /\ UNCHANGED <<waiters, granted>>
  BY DEF Wake, Paid
<1>3. CASE pc[r] = Paid(b) /\ Pass(r, b)
  <2>1. OneBucket(b)'
    BY <1>1, <1>3, PaidKeeps DEF BucketsInv
  <2>2. ASSUME NEW c \in Bucket, c # b PROVE OneBucket(c)'
    <3>1. granted'[c] = granted[c] /\ pc' = [pc EXCEPT ![r] = Beyond(b)]
      BY <1>3, <2>2 DEF Pass, RateTypeOK
    <3>2. Beyond(b) # Paid(c)
      BY DEF Beyond, Paid, Bucket
    <3> QED BY <1>1, <3>1, <3>2, BucketPassedBy DEF BucketsInv
  <2> QED BY <2>1, <2>2 DEF BucketsInv
<1>4. CASE pc' = [pc EXCEPT ![r] = b] /\ granted' = granted
  <2> SUFFICES ASSUME NEW c \in Bucket PROVE OneBucket(c)'
    BY DEF BucketsInv
  <2>1. b # Paid(c)
    BY DEF Paid, Bucket
  <2> QED BY <1>1, <1>4, <2>1, BucketPassedBy DEF BucketsInv
<1> QED BY <1>2, <1>3, <1>4

\* Every step keeps both buckets in order.
LEMMA StepKeepsBuckets ==
    ASSUME RateTypeOK, BucketsInv, RateNext
    PROVE  BucketsInv'
<1>1. ASSUME UNCHANGED <<limits, tokens, idle, granted, pc, left>> PROVE BucketsInv'
  <2> SUFFICES ASSUME NEW c \in Bucket PROVE OneBucket(c)'
    BY DEF BucketsInv
  <2>1. \A s \in InDebt(c)' : s \in InDebt(c) /\ left'[s] = left[s]
    BY <1>1 DEF InDebt
  <2> QED BY <1>1, <2>1, BucketUntouched DEF BucketsInv
<1>2. ASSUME NEW r \in Request, NEW to \in {"decode", "rpm", "tpm", "wait", "scoring", "done"},
             pc' = [pc EXCEPT ![r] = to], UNCHANGED <<limits, tokens, idle, granted>>,
             \A s \in Request : s # r => left'[s] = left[s]
      PROVE  BucketsInv'
  <2> SUFFICES ASSUME NEW c \in Bucket PROVE OneBucket(c)'
    BY DEF BucketsInv
  <2>1. to # Paid(c)
    BY DEF Paid
  <2> QED BY <1>2, <2>1, BucketPassedBy DEF BucketsInv
<1>3. CASE RunJob
  BY <1>1, <1>3 DEF RunJob
<1>4. CASE Tick
  BY <1>4, TickKeeps DEF BucketsInv
<1>5. ASSUME NEW r \in Request, Start(r) PROVE BucketsInv'
  BY <1>2, <1>5 DEF Start
<1>6. ASSUME NEW r \in Request, Decoded(r) PROVE BucketsInv'
  <2>1. Beyond("decode") \in {"decode", "rpm", "tpm", "wait", "scoring", "done"}
    BY DEF Beyond
  <2> QED BY <1>2, <1>6, <2>1 DEF Decoded
<1>7. ASSUME NEW r \in Request, Acquire(r) PROVE BucketsInv'
  BY <1>7, AcquireKeepsBuckets
<1>8. ASSUME NEW r \in Request, Wake(r) PROVE BucketsInv'
  BY <1>8, WakeKeepsBuckets
<1>9. ASSUME NEW r \in Request, Enter(r) PROVE BucketsInv'
  BY <1>2, <1>9 DEF Enter, Begin, RateTypeOK
<1>10. ASSUME NEW r \in Request, Scored(r) \/ TimesOut(r) PROVE BucketsInv'
  BY <1>2, <1>10 DEF Scored, TimesOut, Finish, RateTypeOK
<1>11. ASSUME NEW r \in Request, Abandoned(r) PROVE BucketsInv'
  BY <1>1, <1>11 DEF Abandoned
<1> QED BY <1>3, <1>4, <1>5, <1>6, <1>7, <1>8, <1>9, <1>10, <1>11 DEF RateNext, RunSingle

-----------------------------------------------------------------------------
\* Where a request may stand.
Place == {"new", "decode", "rpm", "tpm", "wait", "scoring", "done"} \cup Sleeping

\* Who is not in the queue comes in at its end, and everyone else stays where they are.
LEMMA MoveKeepsWaiters ==
    ASSUME RateTypeOK, WaitersInv, NEW r \in Request, pc[r] # "wait", NEW to,
           pc' = [pc EXCEPT ![r] = to],
           waiters' = IF to = "wait" THEN Append(waiters, r) ELSE waiters
    PROVE  WaitersInv'
<1>1. waiters \in Seq(Request) /\ Len(waiters) \in Nat
  BY DEF RateTypeOK
<1>2. \A s \in Request : pc'[s] = IF s = r THEN to ELSE pc[s]
  BY DEF RateTypeOK
<1>3. \A i \in DOMAIN waiters : waiters[i] \in Request /\ waiters[i] # r /\ pc[waiters[i]] = "wait"
  BY <1>1 DEF WaitersInv
<1>4. \A i, k \in DOMAIN waiters : waiters[i] = waiters[k] => i = k
  BY DEF WaitersInv
<1>5. CASE to = "wait"
  <2>1. waiters' = Append(waiters, r)
    BY <1>5
  <2>2. DOMAIN waiters = 1..Len(waiters) /\ DOMAIN waiters' = 1..Len(waiters) + 1
    BY <1>1, <2>1
  <2>3. /\ \A i \in DOMAIN waiters : waiters'[i] = waiters[i]
        /\ waiters'[Len(waiters) + 1] = r
    BY <1>1, <2>1
  <2>4. \A i \in DOMAIN waiters' : i \in DOMAIN waiters \/ i = Len(waiters) + 1
    BY <1>1, <2>2
  <2>5. \A i \in DOMAIN waiters' : pc'[waiters'[i]] = "wait"
    BY ONLY <1>2, <1>3, <1>5, <2>3, <2>4, r \in Request
  <2>6. \A i, k \in DOMAIN waiters' : waiters'[i] = waiters'[k] => i = k
    BY ONLY <1>3, <1>4, <2>3, <2>4
  <2> QED BY <2>5, <2>6 DEF WaitersInv
<1>6. CASE to # "wait"
  BY <1>2, <1>3, <1>4, <1>6 DEF WaitersInv
<1> QED BY <1>5, <1>6

\* The first of the queue leaves it.
LEMMA EnterKeepsWaiters ==
    ASSUME RateTypeOK, WaitersInv, NEW r \in Request, Enter(r)
    PROVE  WaitersInv'
<1>1. /\ waiters \in Seq(Request) /\ waiters # <<>> /\ Head(waiters) = r
      /\ waiters' = Tail(waiters) /\ pc' = [pc EXCEPT ![r] = "scoring"]
  BY DEF Enter, Begin, RateTypeOK
<1>2. /\ Len(waiters) \in Nat /\ Len(waiters) > 0 /\ r = waiters[1]
      /\ DOMAIN waiters = 1..Len(waiters) /\ DOMAIN waiters' = 1..Len(waiters) - 1
      /\ \A i \in 1..Len(waiters) - 1 : waiters'[i] = waiters[i + 1]
  BY <1>1
<1>3. \A i \in DOMAIN waiters' : i + 1 \in DOMAIN waiters /\ waiters'[i] = waiters[i + 1] /\ i + 1 # 1
                                 /\ 1 \in DOMAIN waiters /\ i \in Nat
  BY <1>2
<1>4. \A i \in DOMAIN waiters : waiters[i] \in Request /\ pc[waiters[i]] = "wait"
  BY <1>1 DEF WaitersInv
<1>5. \A i, k \in DOMAIN waiters : waiters[i] = waiters[k] => i = k
  BY DEF WaitersInv
<1>6. \A i \in DOMAIN waiters' : waiters'[i] # r
  BY ONLY <1>2, <1>3, <1>5
<1>7. \A i \in DOMAIN waiters' : pc'[waiters'[i]] = "wait"
  <2>1. \A s \in Request : s # r => pc'[s] = pc[s]
    BY <1>1 DEF RateTypeOK
  <2> QED BY ONLY <2>1, <1>3, <1>4, <1>6
<1>8. \A i, k \in DOMAIN waiters' : waiters'[i] = waiters'[k] => i = k
  <2>1. \A i, k \in DOMAIN waiters' : waiters'[i] = waiters'[k] => i + 1 = k + 1
    BY ONLY <1>3, <1>5
  <2> QED BY ONLY <2>1, <1>3
<1> QED BY <1>7, <1>8 DEF WaitersInv

\* Every step keeps the queue in order.
LEMMA StepKeepsWaiters ==
    ASSUME RateTypeOK, WaitersInv, JobsInv, RateNext
    PROVE  WaitersInv'
<1>1. ASSUME UNCHANGED <<pc, waiters>> PROVE WaitersInv'
  BY <1>1 DEF WaitersInv
<1>2. CASE RunJob
  BY <1>1, <1>2 DEF RunJob
<1>3. CASE Tick
  BY <1>1, <1>3 DEF Tick
<1>4. ASSUME NEW r \in Request, Start(r) PROVE WaitersInv'
  BY <1>4, MoveKeepsWaiters DEF Start
<1>5. ASSUME NEW r \in Request, Decoded(r) PROVE WaitersInv'
  <2>1. pc[r] # "wait"
    BY <1>5 DEF Decoded, JobsInv, Decode
  <2> QED BY <1>5, <2>1, MoveKeepsWaiters DEF Decoded
<1>6. ASSUME NEW r \in Request, Acquire(r) PROVE WaitersInv'
  <2>1. PICK b \in Bucket : pc[r] = b /\ (Oversized(r, b) \/ Enough(r, b) \/ TooFew(r, b))
    BY <1>6 DEF Acquire
  <2>2. pc[r] # "wait"
    BY <2>1 DEF Bucket
  <2>3. CASE Enough(r, b)
    BY <2>2, <2>3, MoveKeepsWaiters DEF Enough, Pass
  <2>4. CASE Oversized(r, b) \/ TooFew(r, b)
    <3>1. PICK to \in {"rpmSleep", "tpmSleep", "rpmPaid", "tpmPaid"} :
            pc' = [pc EXCEPT ![r] = to] /\ waiters' = waiters
      BY <2>4 DEF Oversized, TooFew, Sleep
    <3> QED BY <2>2, <3>1, MoveKeepsWaiters
  <2> QED BY <2>1, <2>3, <2>4
<1>7. ASSUME NEW r \in Request, Wake(r) PROVE WaitersInv'
  <2>1. PICK b \in Bucket :
          \/ pc[r] = Paid(b) /\ Pass(r, b)
          \/ /\ pc[r] = (IF b = "rpm" THEN "rpmSleep" ELSE "tpmSleep")
             /\ pc' = [pc EXCEPT ![r] = b] /\ waiters' = waiters
    BY <1>7 DEF Wake, Paid
  <2>2. pc[r] # "wait" /\ b # "wait"
    BY <2>1 DEF Bucket, Paid
  <2>3. CASE pc[r] = Paid(b) /\ Pass(r, b)
    BY <2>2, <2>3, MoveKeepsWaiters DEF Pass
  <2>4. CASE pc' = [pc EXCEPT ![r] = b] /\ waiters' = waiters
    BY <2>2, <2>4, MoveKeepsWaiters
  <2> QED BY <2>1, <2>3, <2>4
<1>8. ASSUME NEW r \in Request, Enter(r) PROVE WaitersInv'
  BY <1>8, EnterKeepsWaiters
<1>9. ASSUME NEW r \in Request, Scored(r) \/ TimesOut(r) PROVE WaitersInv'
  BY <1>9, MoveKeepsWaiters DEF Scored, TimesOut, Finish
<1>10. ASSUME NEW r \in Request, Abandoned(r) PROVE WaitersInv'
  BY <1>1, <1>10 DEF Abandoned
<1> QED BY <1>2, <1>3, <1>4, <1>5, <1>6, <1>7, <1>8, <1>9, <1>10 DEF RateNext, RunSingle

-----------------------------------------------------------------------------
\* Every step keeps the count of permits.
LEMMA StepKeepsPermits ==
    ASSUME RateTypeOK, PermitsInv, WaitersInv, JobsInv, RateNext
    PROVE  PermitsInv' /\ permits' \in 0..limits.max_concurrent
<1> USE DEF Holders
<1>1. limits.max_concurrent \in Nat /\ permits \in Nat /\ permits <= limits.max_concurrent
  BY SettingFacts DEF RateTypeOK
<1>2. Cardinality(Holders) \in Nat /\ IsFiniteSet(Holders)
      /\ permits + Cardinality(Holders) = limits.max_concurrent
  BY FS_CardinalityType DEF PermitsInv
<1>3. ASSUME Holders' = Holders, UNCHANGED <<limits, permits>>
      PROVE  PermitsInv' /\ permits' \in 0..limits.max_concurrent
  <2> HIDE DEF Holders
  <2> QED BY <1>1, <1>2, <1>3 DEF PermitsInv
<1>4. ASSUME NEW r \in Request, NEW to, to # "scoring", pc[r] # "scoring", pc' = [pc EXCEPT ![r] = to],
             UNCHANGED <<limits, permits>>
      PROVE  PermitsInv' /\ permits' \in 0..limits.max_concurrent
  <2>1. Holders' = Holders
    BY <1>4 DEF RateTypeOK
  <2> QED BY <1>3, <1>4, <2>1
<1>5. CASE RunJob \/ Tick
  BY <1>3, <1>5 DEF RunJob, Tick
<1>6. ASSUME NEW r \in Request, Start(r) PROVE PermitsInv' /\ permits' \in 0..limits.max_concurrent
  BY <1>4, <1>6 DEF Start
<1>7. ASSUME NEW r \in Request, Decoded(r) PROVE PermitsInv' /\ permits' \in 0..limits.max_concurrent
  <2>1. pc[r] # "scoring" /\ Beyond("decode") # "scoring"
    BY <1>7 DEF Decoded, JobsInv, Decode, Beyond
  <2> QED BY <1>4, <1>7, <2>1 DEF Decoded
<1>8. ASSUME NEW r \in Request, Acquire(r) PROVE PermitsInv' /\ permits' \in 0..limits.max_concurrent
  <2>1. PICK to \in Place \ {"scoring"} :
          pc' = [pc EXCEPT ![r] = to] /\ pc[r] \in Bucket /\ UNCHANGED <<limits, permits>>
    BY <1>8 DEF Acquire, Oversized, Enough, TooFew, Pass, Beyond, Sleep, Bucket, Place, Sleeping
  <2>2. pc[r] # "scoring"
    BY <2>1 DEF Bucket
  <2> QED BY <1>4, <2>1, <2>2
<1>9. ASSUME NEW r \in Request, Wake(r) PROVE PermitsInv' /\ permits' \in 0..limits.max_concurrent
  <2>1. PICK to \in Place \ {"scoring"} :
          pc' = [pc EXCEPT ![r] = to] /\ pc[r] \in Sleeping /\ UNCHANGED <<limits, permits>>
    BY <1>9 DEF Wake, Pass, Beyond, Bucket, Place, Sleeping
  <2>2. pc[r] # "scoring"
    BY <2>1 DEF Sleeping
  <2> QED BY <1>4, <2>1, <2>2
<1>10. ASSUME NEW r \in Request, Enter(r) PROVE PermitsInv' /\ permits' \in 0..limits.max_concurrent
  <2>1. /\ waiters \in Seq(Request) /\ waiters # <<>> /\ Head(waiters) = r /\ permits > 0
        /\ permits' = permits - 1 /\ limits' = limits /\ pc' = [pc EXCEPT ![r] = "scoring"]
    BY <1>10 DEF Enter, Begin, RateTypeOK
  <2>2. r = waiters[1] /\ 1 \in DOMAIN waiters
    BY <2>1
  <2>3. pc[r] = "wait"
    BY <2>2 DEF WaitersInv
  <2>4. r \notin Holders /\ Holders' = Holders \cup {r}
    BY <2>1, <2>3 DEF RateTypeOK
  <2> HIDE DEF Holders
  <2>5. IsFiniteSet(Holders') /\ Cardinality(Holders') = Cardinality(Holders) + 1
    BY <1>2, <2>4, FS_AddElement
  <2> QED BY <1>1, <1>2, <2>1, <2>5 DEF PermitsInv
<1>11. ASSUME NEW r \in Request, Scored(r) \/ TimesOut(r)
       PROVE  PermitsInv' /\ permits' \in 0..limits.max_concurrent
  <2>1. /\ pc[r] = "scoring" /\ limits' = limits /\ permits' = permits + 1
        /\ pc' = [pc EXCEPT ![r] = "done"]
    BY <1>11 DEF Scored, TimesOut, Finish
  <2>2. r \in Holders /\ Holders' = Holders \ {r}
    BY <2>1 DEF RateTypeOK
  <2> HIDE DEF Holders
  <2>3. IsFiniteSet(Holders') /\ Cardinality(Holders') = Cardinality(Holders) - 1
    BY <1>2, <2>2, FS_RemoveElement
  <2>4. Cardinality(Holders') \in Nat
    BY <2>3, FS_CardinalityType
  <2> QED BY <1>1, <1>2, <2>1, <2>3, <2>4 DEF PermitsInv
<1>12. ASSUME NEW r \in Request, Abandoned(r) PROVE PermitsInv' /\ permits' \in 0..limits.max_concurrent
  BY <1>3, <1>12 DEF Abandoned
<1> QED BY <1>5, <1>6, <1>7, <1>8, <1>9, <1>10, <1>11, <1>12 DEF RateNext, RunSingle

-----------------------------------------------------------------------------
\* Who is not decoding leaves the decode jobs alone, and threads only end.
LEMMA MoveKeepsJobs ==
    ASSUME RateTypeOK, JobsInv, NEW r \in Request, pc[r] # "decode", NEW to,
           pc' = [pc EXCEPT ![r] = to], threads' \subseteq threads,
           jobs' = jobs \/ jobs' = Append(jobs, [of |-> r, kind |-> "score"])
    PROVE  JobsInv'
<1>1. jobs \in Seq(Job) /\ Len(jobs) \in Nat /\ threads \subseteq Job
  BY DEF RateTypeOK
<1>2. \A i \in DOMAIN jobs : jobs[i].of \in Request
  <2>1. \A i \in DOMAIN jobs : jobs[i] \in Job
    BY <1>1
  <2>2. \A j \in Job : j.of \in Request
    BY DEF Job
  <2> QED BY ONLY <2>1, <2>2
<1>3. \A s \in Request : s # r => pc'[s] = pc[s]
  BY DEF RateTypeOK
<1>4. \A i \in DOMAIN jobs : Decode(jobs[i]) => pc'[jobs[i].of] = "decode" /\ jobs[i] \notin threads'
  BY <1>2, <1>3 DEF JobsInv
<1>5. \A j \in threads' : Decode(j) => pc'[j.of] = "decode"
  BY <1>1, <1>3 DEF JobsInv, Job
<1>6. \A i, k \in DOMAIN jobs : Decode(jobs[i]) /\ jobs[i] = jobs[k] => i = k
  BY DEF JobsInv
<1>7. CASE jobs' = jobs
  BY <1>4, <1>5, <1>6, <1>7 DEF JobsInv
<1>8. CASE jobs' = Append(jobs, [of |-> r, kind |-> "score"])
  <2>1. /\ \A i \in DOMAIN jobs : jobs'[i] = jobs[i]
        /\ ~Decode(jobs'[Len(jobs) + 1])
        /\ \A i \in DOMAIN jobs' : i \in DOMAIN jobs \/ i = Len(jobs) + 1
    BY <1>1, <1>8 DEF Decode
  <2>2. \A i \in DOMAIN jobs' : Decode(jobs'[i]) => i \in DOMAIN jobs
    BY ONLY <2>1
  <2>3. \A i \in DOMAIN jobs' : Decode(jobs'[i]) => pc'[jobs'[i].of] = "decode" /\ jobs'[i] \notin threads'
    BY ONLY <1>4, <2>1, <2>2
  <2>4. \A i, k \in DOMAIN jobs' : Decode(jobs'[i]) /\ jobs'[i] = jobs'[k] => i = k
    BY ONLY <1>6, <2>1, <2>2
  <2> QED BY <1>5, <2>3, <2>4 DEF JobsInv
<1> QED BY <1>7, <1>8

\* A request that starts has no decode job yet.
LEMMA StartKeepsJobs ==
    ASSUME RateTypeOK, JobsInv, NEW r \in Request, Start(r)
    PROVE  JobsInv'
<1>1. /\ pc[r] = "new" /\ pc' = [pc EXCEPT ![r] = "decode"] /\ threads' = threads
      /\ jobs' = Append(jobs, [of |-> r, kind |-> "decode"])
  BY DEF Start
<1>2. jobs \in Seq(Job) /\ Len(jobs) \in Nat /\ threads \subseteq Job
  BY DEF RateTypeOK
<1> DEFINE new == [of |-> r, kind |-> "decode"]
<1>3. \A s \in Request : pc'[s] = IF s = r THEN "decode" ELSE pc[s]
  BY <1>1 DEF RateTypeOK
<1>4. \A i \in DOMAIN jobs : /\ jobs[i].of \in Request
                             /\ Decode(jobs[i]) => pc[jobs[i].of] = "decode" /\ jobs[i] \notin threads
  <2>1. \A i \in DOMAIN jobs : jobs[i] \in Job
    BY <1>2
  <2>2. \A j \in Job : j.of \in Request
    BY DEF Job
  <2> QED BY <2>1, <2>2 DEF JobsInv
<1>5. \A j \in threads : j.of \in Request /\ (Decode(j) => pc[j.of] = "decode")
  BY <1>2 DEF JobsInv, Job
<1>6. \A i, k \in DOMAIN jobs : Decode(jobs[i]) /\ jobs[i] = jobs[k] => i = k
  BY DEF JobsInv
<1>7. new.of = r /\ Decode(new)
  BY DEF Decode
<1>8. /\ \A i \in DOMAIN jobs : jobs'[i] = jobs[i]
      /\ jobs'[Len(jobs) + 1] = new
      /\ \A i \in DOMAIN jobs' : i \in DOMAIN jobs \/ i = Len(jobs) + 1
  BY <1>1, <1>2
<1> HIDE DEF new
<1>9. \A i \in DOMAIN jobs : jobs[i] # new
  BY ONLY <1>1, <1>4, <1>7
<1>10. new \notin threads
  BY ONLY <1>1, <1>5, <1>7
<1>11. \A i \in DOMAIN jobs' : Decode(jobs'[i]) => pc'[jobs'[i].of] = "decode" /\ jobs'[i] \notin threads
  BY ONLY <1>3, <1>4, <1>7, <1>8, <1>10, r \in Request
<1>12. \A i, k \in DOMAIN jobs' : Decode(jobs'[i]) /\ jobs'[i] = jobs'[k] => i = k
  BY ONLY <1>6, <1>8, <1>9
<1>13. \A j \in threads : Decode(j) => pc'[j.of] = "decode"
  BY ONLY <1>3, <1>5
<1> QED BY <1>1, <1>11, <1>12, <1>13 DEF JobsInv

\* A thread takes the first job, and it was the only one of its request.
LEMMA RunJobKeepsJobs ==
    ASSUME RateTypeOK, JobsInv, RunJob
    PROVE  JobsInv'
<1>1. jobs \in Seq(Job) /\ Len(jobs) \in Nat /\ jobs # <<>> /\ jobs' = Tail(jobs) /\ pc' = pc
  BY DEF RateTypeOK, RunJob
<1>2. /\ Len(jobs) > 0 /\ Head(jobs) = jobs[1]
      /\ DOMAIN jobs = 1..Len(jobs) /\ DOMAIN jobs' = 1..Len(jobs) - 1
      /\ \A i \in 1..Len(jobs) - 1 : jobs'[i] = jobs[i + 1]
  BY <1>1
<1>3. threads' \subseteq threads \cup {jobs[1]}
  BY <1>2 DEF RunJob
<1>4. \A i \in DOMAIN jobs' : i \in Nat /\ i + 1 \in DOMAIN jobs /\ jobs'[i] = jobs[i + 1] /\ i + 1 # 1
  BY <1>2
<1>5. 1 \in DOMAIN jobs
  BY <1>2
<1>6. \A i \in DOMAIN jobs : Decode(jobs[i]) => pc[jobs[i].of] = "decode" /\ jobs[i] \notin threads
  BY DEF JobsInv
<1>7. \A i, k \in DOMAIN jobs : Decode(jobs[i]) /\ jobs[i] = jobs[k] => i = k
  BY DEF JobsInv
<1>8. \A j \in threads : Decode(j) => pc[j.of] = "decode"
  BY DEF JobsInv
<1>9. \A i \in DOMAIN jobs' : Decode(jobs'[i]) => pc[jobs'[i].of] = "decode" /\ jobs'[i] \notin threads'
  BY ONLY <1>3, <1>4, <1>5, <1>6, <1>7
<1>10. \A i, k \in DOMAIN jobs' : Decode(jobs'[i]) /\ jobs'[i] = jobs'[k] => i = k
  <2>1. \A i, k \in DOMAIN jobs' : Decode(jobs'[i]) /\ jobs'[i] = jobs'[k] => i + 1 = k + 1
    BY ONLY <1>4, <1>7
  <2> QED BY ONLY <2>1, <1>4
<1>11. \A j \in threads' : Decode(j) => pc[j.of] = "decode"
  BY ONLY <1>3, <1>5, <1>6, <1>8
<1> QED BY <1>1, <1>9, <1>10, <1>11 DEF JobsInv

\* When a response is decoded its only job is gone.
LEMMA DecodedKeepsJobs ==
    ASSUME RateTypeOK, JobsInv, NEW r \in Request, Decoded(r)
    PROVE  JobsInv'
<1> DEFINE j == [of |-> r, kind |-> "decode"]
<1>1. j \in threads /\ threads' = threads \ {j} /\ jobs' = jobs
  BY DEF Decoded
<1>2. \A s \in Request : s # r => pc'[s] = pc[s]
  BY DEF Decoded, RateTypeOK
<1>3. \A k \in Job : Decode(k) /\ k # j => k.of # r /\ k.of \in Request
  BY DEF Job, Decode
<1>4. \A i \in DOMAIN jobs : jobs[i] \in Job
  BY DEF RateTypeOK
<1>5. \A i \in DOMAIN jobs : Decode(jobs[i]) => pc[jobs[i].of] = "decode" /\ jobs[i] \notin threads
  BY DEF JobsInv
<1>6. threads \subseteq Job
  BY DEF RateTypeOK
<1>7. \A k \in threads : Decode(k) => pc[k.of] = "decode"
  BY DEF JobsInv
<1>8. \A i, k \in DOMAIN jobs : Decode(jobs[i]) /\ jobs[i] = jobs[k] => i = k
  BY DEF JobsInv
<1> HIDE DEF j
<1>9. \A i \in DOMAIN jobs : Decode(jobs[i]) => pc'[jobs[i].of] = "decode" /\ jobs[i] \notin threads'
  BY ONLY <1>1, <1>2, <1>3, <1>4, <1>5
<1>10. \A k \in threads' : Decode(k) => pc'[k.of] = "decode"
  BY ONLY <1>1, <1>2, <1>3, <1>6, <1>7
<1> QED BY <1>1, <1>8, <1>9, <1>10 DEF JobsInv

\* Every step leaves each response its one decode job.
LEMMA StepKeepsJobs ==
    ASSUME RateTypeOK, JobsInv, WaitersInv, RateNext
    PROVE  JobsInv'
<1>1. ASSUME pc' = pc, jobs' = jobs, threads' \subseteq threads PROVE JobsInv'
  BY <1>1 DEF JobsInv
<1>2. CASE RunJob
  BY <1>2, RunJobKeepsJobs
<1>3. CASE Tick
  BY <1>1, <1>3 DEF Tick
<1>4. ASSUME NEW r \in Request, Start(r) PROVE JobsInv'
  BY <1>4, StartKeepsJobs
<1>5. ASSUME NEW r \in Request, Decoded(r) PROVE JobsInv'
  BY <1>5, DecodedKeepsJobs
<1>6. ASSUME NEW r \in Request, Acquire(r) PROVE JobsInv'
  <2>1. PICK to \in Place :
          pc' = [pc EXCEPT ![r] = to] /\ pc[r] \in Bucket /\ UNCHANGED <<jobs, threads>>
    BY <1>6 DEF Acquire, Oversized, Enough, TooFew, Pass, Beyond, Sleep, Bucket, Place, Sleeping
  <2>2. pc[r] # "decode"
    BY <2>1 DEF Bucket
  <2> QED BY <2>1, <2>2, MoveKeepsJobs
<1>7. ASSUME NEW r \in Request, Wake(r) PROVE JobsInv'
  <2>1. PICK to \in Place :
          pc' = [pc EXCEPT ![r] = to] /\ pc[r] \in Sleeping /\ UNCHANGED <<jobs, threads>>
    BY <1>7 DEF Wake, Pass, Beyond, Bucket, Place, Sleeping
  <2>2. pc[r] # "decode"
    BY <2>1 DEF Sleeping
  <2> QED BY <2>1, <2>2, MoveKeepsJobs
<1>8. ASSUME NEW r \in Request, Enter(r) PROVE JobsInv'
  <2>1. /\ waiters \in Seq(Request) /\ waiters # <<>> /\ Head(waiters) = r
        /\ pc' = [pc EXCEPT ![r] = "scoring"] /\ threads' = threads
        /\ jobs' = jobs \/ jobs' = Append(jobs, [of |-> r, kind |-> "score"])
    BY <1>8 DEF Enter, Begin, RateTypeOK
  <2>2. r = waiters[1] /\ 1 \in DOMAIN waiters
    BY <2>1
  <2>3. pc[r] # "decode"
    BY <2>2 DEF WaitersInv
  <2> QED BY <2>1, <2>3, MoveKeepsJobs
<1>9. ASSUME NEW r \in Request, Scored(r) \/ TimesOut(r) PROVE JobsInv'
  <2>1. pc[r] = "scoring" /\ pc' = [pc EXCEPT ![r] = "done"] /\ jobs' = jobs /\ threads' \subseteq threads
    BY <1>9 DEF Scored, TimesOut, Finish
  <2>2. pc[r] # "decode"
    BY <2>1
  <2> QED BY <2>1, <2>2, MoveKeepsJobs
<1>10. ASSUME NEW r \in Request, Abandoned(r) PROVE JobsInv'
  BY <1>1, <1>10 DEF Abandoned
<1> QED BY <1>2, <1>3, <1>4, <1>5, <1>6, <1>7, <1>8, <1>9, <1>10 DEF RateNext, RunSingle

-----------------------------------------------------------------------------
\* Every step keeps every variable in its range.
LEMMA StepKeepsTypes ==
    ASSUME RateTypeOK, PermitsInv, WaitersInv, JobsInv, RateNext
    PROVE  RateTypeOK'
<1>1. /\ limits \in Limits /\ pc \in [Request -> Place] /\ left \in [Request -> Nat]
      /\ tokens \in [Bucket -> Int] /\ \A b \in Bucket : tokens[b] <= Second
      /\ idle \in [Bucket -> Nat]
      /\ waiters \in Seq(Request) /\ jobs \in Seq(Job) /\ threads \subseteq Job
      /\ result \in [Request -> {"none", "scored", "timeout", "error"}]
      /\ granted \in [Bucket -> Int]
  BY DEF RateTypeOK, Place
<1>2. permits' \in 0..limits.max_concurrent
  BY StepKeepsPermits
<1>3. limits.timeout \in Nat /\ Second \in Nat /\ \A b \in Bucket : Cost[b] \in Nat
  BY SettingFacts
<1> DEFINE Typed ==
      /\ limits' = limits /\ pc' \in [Request -> Place] /\ left' \in [Request -> Nat]
      /\ tokens' \in [Bucket -> Int] /\ \A b \in Bucket : tokens'[b] <= Second
      /\ idle' \in [Bucket -> Nat]
      /\ waiters' \in Seq(Request) /\ jobs' \in Seq(Job) /\ threads' \subseteq Job
      /\ result' \in [Request -> {"none", "scored", "timeout", "error"}]
      /\ granted' \in [Bucket -> Int]
<1>4. SUFFICES Typed
  <2>1. ASSUME Typed PROVE RateTypeOK'
    <3>1. Second' = Second /\ limits'.max_concurrent = limits.max_concurrent
      BY <2>1 DEF Second
    <3> QED BY <1>1, <1>2, <2>1, <3>1 DEF RateTypeOK, Place
  <2> QED BY <2>1
<1>5. CASE RunJob
  <2>1. Tail(jobs) \in Seq(Job) /\ Head(jobs) \in Job
    BY <1>1, <1>5 DEF RunJob
  <2> QED BY <1>1, <1>5, <2>1 DEF RunJob
<1>6. CASE Tick
  <2>1. \A r \in Request : Larger(0, left[r] - 1) \in Nat
    BY <1>1 DEF Larger
  <2>2. \A b \in Bucket : Longer(b) \in Nat
    BY <1>1 DEF Longer
  <2>3. \A b \in Bucket : Smaller(Burst(b), granted[b] + 1) \in Int
    BY <1>1, <1>3 DEF Smaller, Burst, Larger
  <2> QED BY <1>1, <1>6, <2>1, <2>2, <2>3 DEF Tick
<1>7. ASSUME NEW r \in Request, Start(r) PROVE Typed
  <2>1. [of |-> r, kind |-> "decode"] \in Job /\ "decode" \in Place
    BY DEF Job, Place
  <2> QED BY <1>1, <1>7, <2>1 DEF Start
<1>8. \A r \in Request : Append(waiters, r) \in Seq(Request)
  BY <1>1
<1>9. \A layer : Beyond(layer) \in Place
  BY DEF Beyond, Place
<1>10. ASSUME NEW r \in Request, Decoded(r) PROVE Typed
  BY <1>1, <1>8, <1>9, <1>10 DEF Decoded
<1>11. ASSUME NEW r \in Request, Acquire(r) PROVE Typed
  <2>1. PICK b \in Bucket :
          /\ Oversized(r, b) \/ Enough(r, b) \/ TooFew(r, b)
          /\ idle' = [idle EXCEPT ![b] = 0]
          /\ UNCHANGED <<limits, jobs, threads, result, permits>>
    BY <1>11 DEF Acquire
  <2>2. Refill(b) \in Int /\ Refill(b) <= Second /\ granted[b] - Cost[b] \in Int
    BY <1>1, <1>3, RefillFacts
  <2>3. /\ Refill(b) - Cost[b] \in Int /\ Refill(b) - Cost[b] <= Second
        /\ Cost[b] - Refill(b) \in Int
        /\ (Oversized(r, b) \/ TooFew(r, b)) => Cost[b] - Refill(b) \in Nat
    BY <1>3, <2>2 DEF Oversized, TooFew
  <2>4. idle' \in [Bucket -> Nat]
    BY <1>1, <2>1
  <2>5. CASE Oversized(r, b) \/ TooFew(r, b)
    <3>1. PICK to \in Sleeping, t \in {Refill(b), Refill(b) - Cost[b]} :
            /\ pc' = [pc EXCEPT ![r] = to] /\ tokens' = [tokens EXCEPT ![b] = t]
            /\ left' = [left EXCEPT ![r] = Cost[b] - Refill(b)] /\ UNCHANGED <<waiters, granted>>
      BY <2>5 DEF Oversized, TooFew, Sleep, Sleeping
    <3>2. to \in Place
      BY DEF Place
    <3>3. \A c \in Bucket : tokens'[c] \in Int /\ tokens'[c] <= Second
      BY <1>1, <2>2, <2>3, <3>1
    <3>4. pc' \in [Request -> Place] /\ left' \in [Request -> Nat] /\ tokens' \in [Bucket -> Int]
      BY <1>1, <2>2, <2>3, <2>5, <3>1, <3>2
    <3> QED BY <1>1, <2>1, <2>4, <3>1, <3>3, <3>4
  <2>6. CASE Enough(r, b)
    <3>1. /\ pc' = [pc EXCEPT ![r] = Beyond(b)] /\ tokens' = [tokens EXCEPT ![b] = Refill(b) - Cost[b]]
          /\ waiters' = IF Beyond(b) = "wait" THEN Append(waiters, r) ELSE waiters
          /\ granted' = [granted EXCEPT ![b] = granted[b] - Cost[b]] /\ left' = left
      BY <2>6 DEF Enough, Pass
    <3>2. \A c \in Bucket : tokens'[c] \in Int /\ tokens'[c] <= Second
      BY <1>1, <2>2, <2>3, <3>1
    <3>3. pc' \in [Request -> Place] /\ tokens' \in [Bucket -> Int] /\ granted' \in [Bucket -> Int]
      BY <1>1, <1>9, <2>2, <2>3, <3>1
    <3>4. waiters' \in Seq(Request)
      BY <1>1, <1>8, <3>1
    <3> QED BY <1>1, <2>1, <2>4, <3>1, <3>2, <3>3, <3>4
  <2> QED BY <2>1, <2>5, <2>6
<1>12. ASSUME NEW r \in Request, Wake(r) PROVE Typed
  <2>1. UNCHANGED <<limits, left, tokens, idle, jobs, threads, result>>
    BY <1>12 DEF Wake
  <2>2. PICK b \in Bucket :
          \/ Pass(r, b)
          \/ pc' = [pc EXCEPT ![r] = b] /\ UNCHANGED <<waiters, granted>>
    BY <1>12 DEF Wake
  <2>3. b \in Place /\ granted[b] - Cost[b] \in Int
    BY <1>1, <1>3 DEF Place, Bucket
  <2>4. PICK to \in Place, g \in {granted[b], granted[b] - Cost[b]} :
          /\ pc' = [pc EXCEPT ![r] = to] /\ granted' = [granted EXCEPT ![b] = g]
          /\ waiters' = waiters \/ waiters' = Append(waiters, r)
    <3>1. CASE Pass(r, b)
      BY <1>9, <3>1 DEF Pass
    <3>2. CASE pc' = [pc EXCEPT ![r] = b] /\ UNCHANGED <<waiters, granted>>
      <4>1. granted' = [granted EXCEPT ![b] = granted[b]]
        BY <1>1, <3>2
      <4> QED BY <2>3, <3>2, <4>1
    <3> QED BY <2>2, <3>1, <3>2
  <2>5. pc' \in [Request -> Place] /\ granted' \in [Bucket -> Int]
    BY <1>1, <2>3, <2>4
  <2>6. waiters' \in Seq(Request)
    BY <1>1, <1>8, <2>4
  <2> QED BY <1>1, <2>1, <2>5, <2>6
<1>13. ASSUME NEW r \in Request, Enter(r) PROVE Typed
  <2>1. "scoring" \in Place /\ [of |-> r, kind |-> "score"] \in Job
    BY DEF Place, Job
  <2>2. Tail(waiters) \in Seq(Request)
    BY <1>1, <1>13 DEF Enter
  <2>3. Append(jobs, [of |-> r, kind |-> "score"]) \in Seq(Job)
    BY <1>1, <2>1
  <2> QED BY <1>1, <1>3, <1>13, <2>1, <2>2, <2>3 DEF Enter, Begin
<1>14. ASSUME NEW r \in Request, Scored(r) \/ TimesOut(r) PROVE Typed
  <2>1. PICK how \in {"scored", "error", "timeout"} :
          /\ Finish(r, how) /\ threads' \subseteq threads
          /\ UNCHANGED <<limits, tokens, idle, waiters, jobs, granted>>
    BY <1>14 DEF Scored, TimesOut
  <2>2. "done" \in Place
    BY DEF Place
  <2> QED BY <1>1, <2>1, <2>2 DEF Finish
<1>15. ASSUME NEW r \in Request, Abandoned(r) PROVE Typed
  BY <1>1, <1>15 DEF Abandoned
<1> QED BY <1>5, <1>6, <1>7, <1>10, <1>11, <1>12, <1>13, <1>14, <1>15 DEF RateNext, RunSingle

-----------------------------------------------------------------------------
\* The manager as init_class creates it.
LEMMA RateInitInv == RateInit => RateInv
<1> SUFFICES ASSUME RateInit PROVE RateInv
  OBVIOUS
<1>1. limits \in Setting
  BY RateAssumption DEF RateInit
<1>2. /\ limits.rpm \in Nat /\ limits.tpm \in Nat /\ limits.second \in Nat \ {0}
      /\ limits.max_concurrent \in Nat \ {0}
  BY <1>1 DEF Setting
<1>3. Second \in Nat /\ Second > 0 /\ \A b \in Bucket : Cost[b] \in Nat
  BY <1>2 DEF Second, Cost, Bucket
<1>4. \A b \in Bucket : Burst(b) \in Int /\ Burst(b) >= Second /\ Burst(b) >= Cost[b]
                        /\ (Cost[b] <= Second => Burst(b) = Second)
  BY <1>3 DEF Burst, Larger
<1>5. RateTypeOK
  <2>1. <<>> \in Seq(Request) /\ <<>> \in Seq(Job)
    OBVIOUS
  <2> QED BY <1>2, <1>3, <1>4, <2>1 DEF RateInit, RateTypeOK
<1>6. Holders = {}
  BY DEF RateInit, Holders
<1>7. PermitsInv
  BY <1>2, <1>6, FS_EmptySet DEF PermitsInv, RateInit
<1>8. WaitersInv /\ JobsInv
  BY DEF RateInit, WaitersInv, JobsInv
<1>9. ASSUME NEW b \in Bucket PROVE OneBucket(b)
  <2>1. tokens[b] = Second /\ idle[b] = 0 /\ granted[b] = Burst(b)
    BY DEF RateInit
  <2>2. Refill(b) = Second
    BY <1>3, <2>1 DEF Refill, Smaller
  <2>3. InDebt(b) = {}
    BY DEF InDebt, Paid, RateInit
  <2> QED BY <1>3, <1>4, <2>1, <2>2, <2>3 DEF OneBucket, StandardBucket, OversizedBucket
<1> QED BY <1>5, <1>7, <1>8, <1>9 DEF RateInv, BucketsInv

\* Every step of the manager keeps the invariant.
LEMMA RateStep == RateInv /\ [RateNext]_rateVars => RateInv'
<1> SUFFICES ASSUME RateInv, [RateNext]_rateVars PROVE RateInv'
  OBVIOUS
<1>1. RateTypeOK /\ BucketsInv /\ WaitersInv /\ PermitsInv /\ JobsInv
  BY DEF RateInv
<1>2. CASE RateNext
  BY <1>1, <1>2, StepKeepsTypes, StepKeepsBuckets, StepKeepsWaiters, StepKeepsPermits, StepKeepsJobs
     DEF RateInv
<1>3. CASE UNCHANGED rateVars
  <2>1. BucketsInv'
    <3> SUFFICES ASSUME NEW b \in Bucket PROVE OneBucket(b)'
      BY DEF BucketsInv
    <3>1. \A s \in InDebt(b)' : s \in InDebt(b) /\ left'[s] = left[s]
      BY <1>3 DEF InDebt, rateVars
    <3> QED BY <1>1, <1>3, <3>1, BucketUntouched DEF BucketsInv, rateVars
  <2>2. RateTypeOK'
    BY <1>1, <1>3 DEF RateTypeOK, rateVars, Second
  <2>3. WaitersInv' /\ JobsInv'
    BY <1>1, <1>3 DEF WaitersInv, JobsInv, rateVars
  <2>4. PermitsInv'
    <3>1. Holders' = Holders
      BY <1>3 DEF Holders, rateVars
    <3> QED BY <1>1, <1>3, <3>1 DEF PermitsInv, rateVars
  <2> QED BY <2>1, <2>2, <2>3, <2>4 DEF RateInv
<1> QED BY <1>2, <1>3

\* The inductive invariant gives what the manager promises.
LEMMA RateInvIsEnough == RateInv => LimitsHold
<1> SUFFICES ASSUME RateInv PROVE LimitsHold
  OBVIOUS
<1>1. RateTypeOK /\ BucketsInv /\ PermitsInv
  BY DEF RateInv
<1>2. ASSUME NEW b \in Bucket PROVE granted[b] >= 0 /\ (Cost[b] <= Second => Refill(b) = granted[b])
  <2>1. /\ tokens[b] \in Int /\ granted[b] \in Int /\ Refill(b) \in Int /\ tokens[b] <= Refill(b)
        /\ Second \in Nat /\ Cost[b] \in Nat
    BY <1>1, RefillFacts, SettingFacts
  <2>2. OneBucket(b)
    BY <1>1 DEF BucketsInv
  <2> QED BY <2>1, <2>2 DEF OneBucket, StandardBucket, OversizedBucket
<1>3. Cardinality(Holders) \in Nat
  BY <1>1, FS_CardinalityType DEF PermitsInv
<1>4. Cardinality(Holders) <= limits.max_concurrent
  <2>1. permits \in Nat /\ limits.max_concurrent \in Nat
    BY <1>1, SettingFacts DEF RateTypeOK
  <2> QED BY <1>1, <1>3, <2>1 DEF PermitsInv
<1>5. limits.is_async => ConcurrencyBounded
  BY <1>4 DEF ConcurrencyBounded, InFlight
<1> QED BY <1>1, <1>2, <1>5 DEF LimitsHold, GrantsBounded, NothingWasted

\* acquire, "maintaining an average rate limit": for every rate, cost of a request, number of
\* requests and order of their wakes, a bucket lets through no more than its burst and what it
\* refills, and a bucket of standard requests wastes nothing of it; and no more scorers that are
\* coroutines run than the semaphore has permits, whatever fails or times out.
THEOREM LimitsAlwaysHold == RateSpec => []LimitsHold
BY RateInitInv, RateStep, RateInvIsEnough, PTL DEF RateSpec

\* acquire lets an oversized request pay at once and sleep: of two that sleep after paying the
\* same bucket, one goes on at least the refill of a whole request after the other.
THEOREM DebtsArePaidInOrder ==
    RateSpec => [](\A b \in Bucket, r, s \in Request :
                      r # s /\ pc[r] = Paid(b) /\ pc[s] = Paid(b)
                        => left[r] >= left[s] + Cost[b] \/ left[s] >= left[r] + Cost[b])
<1>1. RateInv => \A b \in Bucket, r, s \in Request :
                   r # s /\ pc[r] = Paid(b) /\ pc[s] = Paid(b)
                     => left[r] >= left[s] + Cost[b] \/ left[s] >= left[r] + Cost[b]
  BY DEF RateInv, BucketsInv, OneBucket, StandardBucket, OversizedBucket, InDebt
<1> QED BY <1>1, RateInitInv, RateStep, PTL DEF RateSpec
-----------------------------------------------------------------------------
InCall(s) == call[s] \in {"waiting", "collecting"}

\* Where a call, its generation task and the answer of asyncio.wait stand together. A call that
\* collects without a finished task was cancelled.
StandsInv(s) ==
    /\ call[s] \in {"idle", "entering"} => gen[s] = "none"
    /\ call[s] = "waiting" => gen[s] \in {"running", "ended"}
    /\ call[s] = "collecting" => /\ gen[s] \in {"ended", "cancelled"}
                                 /\ inDone[s] = (gen[s] = "ended")
                                 /\ gen[s] = "cancelled" => event[Id(s)]
    /\ call[s] # "idle" => ~final[s]
    /\ InCall(s) => Id(s) \in DOMAIN event

\* What is generated in a call goes on where the response so far ends.
PieceInv(s) ==
    InCall(s) => /\ \A i \in 1..Len(output[Id(s)]) : output[Id(s)][i] = Len(acc[s]) + i
                 /\ Len(acc[s]) + Len(output[Id(s)]) <= ResponseLength + 1

ResponseInv(s) ==
    /\ \A i \in 1..Len(acc[s]) : acc[s][i] = i
    /\ Len(acc[s]) <= ResponseLength
    /\ ~final[s] => Len(acc[s]) < ResponseLength

\* The last token is in the finished task, or in the response, or was cut off a full one.
EosInv(s) ==
    /\ gen[s] = "ended" => /\ eos[s] = Len(acc[s]) + Len(output[Id(s)])
                           /\ Len(output[Id(s)]) > 0
    /\ gen[s] # "ended" /\ eos[s] > 0 => final[s] /\ Len(acc[s]) <= eos[s]
    /\ final[s] => Len(acc[s]) \in {eos[s], ResponseLength}

SampleInv(s) == StandsInv(s) /\ PieceInv(s) /\ ResponseInv(s) /\ EosInv(s)

\* What the dictionaries hold.
EntriesInv ==
    /\ \A r \in DOMAIN output : output[r] \in Seq(Nat)
    /\ \A r \in DOMAIN event : event[r] \in BOOLEAN

ServerInv == ServerTypeOK /\ EntriesInv /\ LeftoversAreEmpty /\ \A s \in Sample : SampleInv(s)

-----------------------------------------------------------------------------
\* No two samples ever use the same request_id.
LEMMA IdsDiffer ==
    ASSUME NEW s \in Sample, NEW t \in Sample, s # t
    PROVE  Id(s) # Id(t) /\ Id(s)' # Id(t)'
BY DEF Id

\* A request_id names its sample and the run of it.
LEMMA IdTyped ==
    ASSUME ServerAssumption, ServerTypeOK, NEW s \in Sample
    PROVE  Id(s) \in RequestId
BY DEF ServerAssumption, ServerTypeOK, Id, RequestId

\* What other samples and the server's own calls do leaves a sample alone.
LEMMA SampleUntouched ==
    ASSUME ServerTypeOK, NEW t \in Sample, SampleInv(t),
           call'[t] = call[t], gen'[t] = gen[t], inDone'[t] = inDone[t],
           acc'[t] = acc[t], eos'[t] = eos[t], final'[t] = final[t],
           InCall(t) => /\ Id(t)' = Id(t) /\ Id(t) \in DOMAIN event'
                        /\ output'[Id(t)] = output[Id(t)]
                        /\ event[Id(t)] => event'[Id(t)]
    PROVE  SampleInv(t)'
<1>1. call[t] \in {"idle", "entering", "waiting", "collecting"}
  BY DEF ServerTypeOK
<1>2. StandsInv(t)'
  BY <1>1 DEF SampleInv, StandsInv, InCall
<1>3. PieceInv(t)'
  BY <1>1 DEF SampleInv, PieceInv, InCall
<1>4. ResponseInv(t)'
  BY DEF SampleInv, ResponseInv
<1>5. EosInv(t)'
  <2>1. gen[t] = "ended" => InCall(t)
    BY <1>1 DEF SampleInv, StandsInv, InCall
  <2> QED BY <2>1 DEF SampleInv, EosInv
<1> QED BY <1>2, <1>3, <1>4, <1>5 DEF SampleInv

\* run() appends a piece that goes on where the response ends, and cuts it.
LEMMA ReplyJoins ==
    ASSUME ServerAssumption, ServerTypeOK, NEW s \in Sample, ResponseInv(s), ~final[s],
           NEW piece \in Seq(Nat), \A i \in 1..Len(piece) : piece[i] = Len(acc[s]) + i,
           NEW isCancel \in BOOLEAN, Reply(s, piece, isCancel)
    PROVE  LET n == Len(acc[s]) + Len(piece) IN
           /\ ResponseInv(s)' /\ acc'[s] \in Seq(Nat)
           /\ Len(acc'[s]) = IF n < ResponseLength THEN n ELSE ResponseLength
           /\ final'[s] = (~isCancel \/ n >= ResponseLength)
           /\ call'[s] = "idle"
           /\ acc' \in [Sample -> Seq(Nat)] /\ final' \in [Sample -> BOOLEAN]
           /\ call' \in [Sample -> {"idle", "entering", "waiting", "collecting"}]
           /\ \A t \in Sample : t # s => acc'[t] = acc[t] /\ final'[t] = final[t] /\ call'[t] = call[t]
<1> DEFINE a == acc[s]
           all == a \o piece
           n == Len(a) + Len(piece)
           k == IF n < ResponseLength THEN n ELSE ResponseLength
<1>1. a \in Seq(Nat) /\ Len(a) \in Nat /\ Len(piece) \in Nat /\ ResponseLength \in Nat
      /\ ResponseLength > 0
  BY DEF ServerTypeOK, ServerAssumption
<1>2. all \in Seq(Nat) /\ Len(all) = n
  BY <1>1
<1>3. \A i \in 1..Len(a) : all[i] = a[i]
  BY <1>1
<1>4. \A i \in 1..Len(piece) : all[Len(a) + i] = piece[i]
  BY <1>1
<1>5. \A i \in 1..n : all[i] = i
  <2> SUFFICES ASSUME NEW i \in 1..n PROVE all[i] = i
    OBVIOUS
  <2>1. CASE i \in 1..Len(a)
    BY <1>3, <2>1 DEF ResponseInv
  <2>2. CASE i \notin 1..Len(a)
    <3>1. i - Len(a) \in 1..Len(piece) /\ i = Len(a) + (i - Len(a))
      BY <1>1, <2>2
    <3>2. piece[i - Len(a)] = Len(a) + (i - Len(a))
      BY <3>1
    <3> QED BY <1>1, <1>4, <3>1, <3>2
  <2> QED BY <2>1, <2>2
<1>6. acc' = [acc EXCEPT ![s] = SubSeq(all, 1, k)]
  BY <1>2 DEF Reply
<1>7. k \in 0..n /\ k <= ResponseLength
  BY <1>1
<1>8. SubSeq(all, 1, k) \in Seq(Nat) /\ Len(SubSeq(all, 1, k)) = k
      /\ \A i \in 1..k : SubSeq(all, 1, k)[i] = all[i]
  <2> HIDE DEF all, k, n
  <2> QED BY <1>1, <1>2, <1>7
<1>9. acc'[s] = SubSeq(all, 1, k) /\ acc' \in [Sample -> Seq(Nat)]
  BY <1>6, <1>8 DEF ServerTypeOK
<1>10. final'[s] = (~isCancel \/ n >= ResponseLength)
  BY <1>2 DEF Reply, ServerTypeOK
<1>11. Len(acc'[s]) = k /\ \A i \in 1..k : acc'[s][i] = i
  <2>1. n \in Nat
    BY <1>1
  <2> HIDE DEF all, k, n
  <2>2. \A i \in 1..k : i \in 1..n
    BY <2>1, <1>7
  <2> QED BY <2>2, <1>5, <1>8, <1>9
<1>12. ResponseInv(s)'
  <2>1. ~final'[s] => ~(n >= ResponseLength)
    <3> HIDE DEF n
    <3> QED BY <1>10
  <2>2. ~final'[s] => k < ResponseLength
    BY <1>1, <2>1
  <2> HIDE DEF k
  <2> QED BY <1>7, <1>11, <2>2 DEF ResponseInv
<1>13. /\ call'[s] = "idle" /\ final' \in [Sample -> BOOLEAN]
       /\ call' \in [Sample -> {"idle", "entering", "waiting", "collecting"}]
  BY DEF Reply, ServerTypeOK
<1>14. \A t \in Sample : t # s => acc'[t] = acc[t] /\ final'[t] = final[t] /\ call'[t] = call[t]
  BY DEF Reply, ServerTypeOK
<1> HIDE DEF all
<1> QED BY <1>8, <1>9, <1>10, <1>11, <1>12, <1>13, <1>14

\* An answer without tokens leaves the response as it is.
LEMMA EmptyReply ==
    ASSUME ServerAssumption, ServerTypeOK, NEW s \in Sample, ResponseInv(s), ~final[s],
           Reply(s, None, TRUE)
    PROVE  /\ ResponseInv(s)' /\ Len(acc'[s]) = Len(acc[s]) /\ ~final'[s] /\ call'[s] = "idle"
           /\ acc' \in [Sample -> Seq(Nat)] /\ final' \in [Sample -> BOOLEAN]
           /\ call' \in [Sample -> {"idle", "entering", "waiting", "collecting"}]
           /\ \A t \in Sample : t # s => acc'[t] = acc[t] /\ final'[t] = final[t] /\ call'[t] = call[t]
<1>1. None \in Seq(Nat) /\ Len(None) = 0
  BY DEF None
<1>2. Len(acc[s]) \in Nat /\ Len(acc[s]) < ResponseLength /\ ResponseLength \in Nat
  BY DEF ResponseInv, ServerTypeOK, ServerAssumption
<1>3. \A i \in 1..Len(None) : None[i] = Len(acc[s]) + i
  BY <1>1
<1> DEFINE n == Len(acc[s]) + Len(None)
<1>4. n = Len(acc[s])
  BY <1>1, <1>2
<1>5. /\ ResponseInv(s)'
      /\ Len(acc'[s]) = IF n < ResponseLength THEN n ELSE ResponseLength
      /\ final'[s] = (~TRUE \/ n >= ResponseLength)
      /\ call'[s] = "idle"
      /\ acc' \in [Sample -> Seq(Nat)] /\ final' \in [Sample -> BOOLEAN]
      /\ call' \in [Sample -> {"idle", "entering", "waiting", "collecting"}]
      /\ \A t \in Sample : t # s => acc'[t] = acc[t] /\ final'[t] = final[t] /\ call'[t] = call[t]
  BY <1>1, <1>3, ReplyJoins
<1> QED BY <1>2, <1>4, <1>5

\* A sample is sent: its call is new, and so may be its request_id.
LEMMA AskKeeps ==
    ASSUME ServerAssumption, ServerInv, NEW s \in Sample, Ask(s)
    PROVE  ServerInv'
<1> USE DEF ServerInv
<1>1. /\ call[s] = "idle" /\ ~final[s] /\ runs[s] < MaxRuns
      /\ runs' = [runs EXCEPT ![s] = runs[s] + 1] /\ call' = [call EXCEPT ![s] = "entering"]
      /\ UNCHANGED <<paused, resetting, cancels, reuse, gen, inDone, event, output, acc, eos, final>>
  BY DEF Ask
<1>2. ServerTypeOK'
  <2>1. runs' \in [Sample -> 0..MaxRuns]
    BY <1>1 DEF ServerTypeOK, ServerAssumption
  <2>2. call' \in [Sample -> {"idle", "entering", "waiting", "collecting"}]
    BY <1>1 DEF ServerTypeOK
  <2> QED BY <1>1, <2>1, <2>2 DEF ServerTypeOK
<1>3. \A t \in Sample : t # s => Id(t)' = Id(t) /\ call'[t] = call[t]
  BY <1>1 DEF Id, ServerTypeOK
<1>4. ASSUME NEW t \in Sample, t # s PROVE SampleInv(t)'
  <2>1. InCall(t) => Id(t) \in DOMAIN event
    BY DEF SampleInv, StandsInv
  <2> QED BY <1>1, <1>3, <1>4, <2>1, SampleUntouched
<1>5. call'[s] = "entering"
  BY <1>1 DEF ServerTypeOK
<1>6. SampleInv(s)'
  <2>1. gen[s] = "none"
    BY <1>1 DEF SampleInv, StandsInv
  <2> QED BY <1>1, <1>5, <2>1 DEF SampleInv, StandsInv, PieceInv, ResponseInv, EosInv, InCall
<1>7. LeftoversAreEmpty'
  <2> SUFFICES ASSUME NEW r \in DOMAIN output
               PROVE  \/ \E t \in Sample : r = Id(t)' /\ call'[t] \in {"waiting", "collecting"}
                      \/ output[r] = None /\ event[r]
    BY <1>1 DEF LeftoversAreEmpty
  <2>1. CASE \E t \in Sample : r = Id(t) /\ call[t] \in {"waiting", "collecting"}
    BY <1>1, <1>3, <2>1
  <2> QED BY <2>1 DEF LeftoversAreEmpty
<1>8. EntriesInv'
  BY <1>1 DEF EntriesInv
<1> QED BY <1>2, <1>4, <1>6, <1>7, <1>8

\* A call enters: it is turned away while the server is paused, or gets entries of its own.
LEMMA EnterKeeps ==
    ASSUME ServerAssumption, ServerInv, NEW s \in Sample, Register(s)
    PROVE  ServerInv'
<1> USE DEF ServerInv
<1>1. /\ call[s] = "entering"
      /\ UNCHANGED <<paused, resetting, cancels, reuse, runs, inDone, eos>>
  BY DEF Register
<1>2. gen[s] = "none" /\ ~final[s] /\ ResponseInv(s) /\ EosInv(s)
  BY <1>1 DEF SampleInv, StandsInv
<1>3. \A t \in Sample : Id(t)' = Id(t)
  BY <1>1 DEF Id
<1>4. Len(acc[s]) \in Nat /\ ResponseLength \in Nat
  BY DEF ServerTypeOK, ServerAssumption
<1>5. CASE paused
  <2>1. Reply(s, None, TRUE) /\ UNCHANGED <<gen, event, output>>
    BY <1>5 DEF Register, None
  <2>2. /\ ResponseInv(s)' /\ Len(acc'[s]) = Len(acc[s]) /\ ~final'[s] /\ call'[s] = "idle"
        /\ acc' \in [Sample -> Seq(Nat)] /\ final' \in [Sample -> BOOLEAN]
        /\ call' \in [Sample -> {"idle", "entering", "waiting", "collecting"}]
        /\ \A t \in Sample : t # s => acc'[t] = acc[t] /\ final'[t] = final[t] /\ call'[t] = call[t]
    BY <1>2, <2>1, EmptyReply
  <2>3. ServerTypeOK'
    BY <1>1, <2>1, <2>2 DEF ServerTypeOK, RequestId
  <2>4. ASSUME NEW t \in Sample, t # s PROVE SampleInv(t)'
    <3>1. InCall(t) => Id(t) \in DOMAIN event
      BY DEF SampleInv, StandsInv
    <3> QED BY <1>1, <1>3, <2>1, <2>2, <2>4, <3>1, SampleUntouched
  <2>5. SampleInv(s)'
    BY <1>1, <1>2, <2>1, <2>2 DEF SampleInv, StandsInv, PieceInv, EosInv, InCall
  <2>6. LeftoversAreEmpty'
    <3> SUFFICES ASSUME NEW r \in DOMAIN output
                 PROVE  \/ \E t \in Sample : r = Id(t)' /\ call'[t] \in {"waiting", "collecting"}
                        \/ output[r] = None /\ event[r]
      BY <2>1 DEF LeftoversAreEmpty
    <3>1. CASE \E t \in Sample : r = Id(t) /\ call[t] \in {"waiting", "collecting"}
      BY <1>1, <1>3, <2>2, <3>1
    <3> QED BY <3>1 DEF LeftoversAreEmpty
  <2>7. EntriesInv'
    BY <2>1 DEF EntriesInv
  <2> QED BY <2>3, <2>4, <2>5, <2>6, <2>7
<1>6. CASE ~paused
  <2>1. /\ event' = Set(event, Id(s), FALSE) /\ output' = Set(output, Id(s), None)
        /\ gen' = [gen EXCEPT ![s] = "running"] /\ call' = [call EXCEPT ![s] = "waiting"]
        /\ UNCHANGED <<acc, final>>
    BY <1>6 DEF Register
  <2>2. DOMAIN output = DOMAIN event /\ DOMAIN event \subseteq RequestId
    BY DEF ServerTypeOK
  <2>3. /\ DOMAIN event' = DOMAIN event \cup {Id(s)} /\ DOMAIN output' = DOMAIN event \cup {Id(s)}
        /\ event'[Id(s)] = FALSE /\ output'[Id(s)] = None
        /\ \A r \in DOMAIN event : r # Id(s) => event'[r] = event[r] /\ output'[r] = output[r]
    <3>1. /\ DOMAIN event' = DOMAIN event \cup {Id(s)} /\ event'[Id(s)] = FALSE
          /\ \A r \in DOMAIN event : r # Id(s) => event'[r] = event[r]
      BY <2>1 DEF Set
    <3>2. /\ DOMAIN output' = DOMAIN output \cup {Id(s)} /\ output'[Id(s)] = None
          /\ \A r \in DOMAIN output : r # Id(s) => output'[r] = output[r]
      BY <2>1 DEF Set
    <3> QED BY <3>1, <3>2, <2>2
  <2>4. gen'[s] = "running" /\ call'[s] = "waiting"
        /\ \A t \in Sample : t # s => gen'[t] = gen[t] /\ call'[t] = call[t]
    BY <2>1 DEF ServerTypeOK
  <2>5. ServerTypeOK'
    <3>1. DOMAIN event' \subseteq RequestId
      BY <2>2, <2>3, IdTyped
    <3>2. gen' \in [Sample -> {"none", "running", "ended", "cancelled"}]
          /\ call' \in [Sample -> {"idle", "entering", "waiting", "collecting"}]
      BY <2>1 DEF ServerTypeOK
    <3> QED BY <1>1, <2>1, <2>3, <3>1, <3>2 DEF ServerTypeOK
  <2>6. ASSUME NEW t \in Sample, t # s PROVE SampleInv(t)'
    <3>1. InCall(t) => Id(t) \in DOMAIN event
      BY DEF SampleInv, StandsInv
    <3>2. Id(t) # Id(s)
      BY <2>6, IdsDiffer
    <3>3. InCall(t) => /\ Id(t)' = Id(t) /\ Id(t) \in DOMAIN event'
                       /\ output'[Id(t)] = output[Id(t)] /\ (event[Id(t)] => event'[Id(t)])
      BY <1>3, <2>3, <3>1, <3>2
    <3> QED BY <1>1, <2>1, <2>4, <2>6, <3>3, SampleUntouched
  <2>7. SampleInv(s)'
    <3>1. Id(s)' = Id(s) /\ Len(None) = 0
      BY <1>3 DEF None
    <3>2. StandsInv(s)'
      BY <1>2, <2>1, <2>3, <2>4, <3>1 DEF StandsInv, InCall
    <3>3. PieceInv(s)'
      <4>1. Len(output'[Id(s)]) = 0 /\ Len(acc[s]) <= ResponseLength
        BY <1>2, <2>3, <3>1 DEF ResponseInv
      <4> QED BY <1>4, <2>1, <3>1, <4>1 DEF PieceInv
    <3>4. ResponseInv(s)' /\ EosInv(s)'
      BY <1>1, <1>2, <2>1, <2>4 DEF ResponseInv, EosInv
    <3> QED BY <3>2, <3>3, <3>4 DEF SampleInv
  <2>8. LeftoversAreEmpty'
    <3> SUFFICES ASSUME NEW r \in DOMAIN output'
                 PROVE  \/ \E t \in Sample : r = Id(t)' /\ call'[t] \in {"waiting", "collecting"}
                        \/ output'[r] = None /\ event'[r]
      BY DEF LeftoversAreEmpty
    <3>1. CASE r = Id(s)
      BY <1>3, <2>4, <3>1
    <3>2. CASE r # Id(s)
      <4>1. r \in DOMAIN output /\ output'[r] = output[r] /\ event'[r] = event[r]
        BY <2>2, <2>3, <3>2
      <4>2. CASE \E t \in Sample : r = Id(t) /\ call[t] \in {"waiting", "collecting"}
        BY <1>1, <1>3, <2>4, <4>2
      <4> QED BY <4>1, <4>2 DEF LeftoversAreEmpty
    <3> QED BY <3>1, <3>2
  <2>9. EntriesInv'
    <3>1. None \in Seq(Nat)
      BY DEF None
    <3> QED BY <2>2, <2>3, <3>1 DEF EntriesInv
  <2> QED BY <2>5, <2>6, <2>7, <2>8, <2>9
<1> QED BY <1>5, <1>6

\* The engine's next token takes the next place of the response.
LEMMA GenerateKeeps ==
    ASSUME ServerAssumption, ServerInv, NEW s \in Sample, GenerateStep(s)
    PROVE  ServerInv'
<1> USE DEF ServerInv
<1> DEFINE o == output[Id(s)]
           place == Len(acc[s]) + Len(o) + 1
<1>1. /\ gen[s] = "running" /\ Len(acc[s]) + Len(o) <= ResponseLength
      /\ output' = [output EXCEPT ![Id(s)] = Append(o, place)]
      /\ UNCHANGED <<paused, resetting, cancels, reuse, runs, call, inDone, event, acc, final>>
  BY DEF GenerateStep
<1>2. PICK last \in BOOLEAN :
        /\ gen' = [gen EXCEPT ![s] = IF last THEN "ended" ELSE "running"]
        /\ eos' = [eos EXCEPT ![s] = IF last THEN place ELSE eos[s]]
  BY <1>1 DEF GenerateStep
<1>3. call[s] = "waiting" /\ ~final[s] /\ Id(s) \in DOMAIN event /\ DOMAIN output = DOMAIN event
  <2>1. call[s] \in {"idle", "entering", "waiting", "collecting"}
    BY DEF ServerTypeOK
  <2> QED BY <1>1, <2>1 DEF SampleInv, StandsInv, ServerTypeOK, InCall
<1>4. \A t \in Sample : Id(t)' = Id(t)
  BY <1>1 DEF Id
<1>5. o \in Seq(Nat) /\ Len(o) \in Nat /\ Len(acc[s]) \in Nat /\ place \in Nat /\ ResponseLength \in Nat
  <2>1. o \in Seq(Nat)
    BY <1>3 DEF EntriesInv
  <2> QED BY <2>1 DEF ServerTypeOK, ServerAssumption
<1>6. DOMAIN output' = DOMAIN output /\ output'[Id(s)] = Append(o, place)
      /\ \A r \in DOMAIN output : r # Id(s) => output'[r] = output[r]
  BY <1>1, <1>3
<1>7. /\ Append(o, place) \in Seq(Nat) /\ Len(Append(o, place)) = Len(o) + 1
      /\ \A i \in 1..Len(o) : Append(o, place)[i] = o[i]
      /\ Append(o, place)[Len(o) + 1] = place
  <2> HIDE DEF o, place
  <2> QED BY <1>5
<1>8. /\ \A t \in Sample : t # s => gen'[t] = gen[t] /\ eos'[t] = eos[t]
      /\ gen'[s] = (IF last THEN "ended" ELSE "running")
      /\ eos'[s] = (IF last THEN place ELSE eos[s])
  BY <1>2 DEF ServerTypeOK
<1>9. ServerTypeOK'
  <2>1. eos' \in [Sample -> Nat]
    <3> HIDE DEF place
    <3> QED BY <1>2, <1>5 DEF ServerTypeOK
  <2>2. gen' \in [Sample -> {"none", "running", "ended", "cancelled"}]
    BY <1>2 DEF ServerTypeOK
  <2> HIDE DEF o, place
  <2> QED BY <1>1, <1>6, <2>1, <2>2 DEF ServerTypeOK, RequestId
<1>10. ASSUME NEW t \in Sample, t # s PROVE SampleInv(t)'
  <2>1. InCall(t) => Id(t) \in DOMAIN event
    BY DEF SampleInv, StandsInv
  <2>2. Id(t) # Id(s)
    BY <1>10, IdsDiffer
  <2>3. InCall(t) => /\ Id(t)' = Id(t) /\ Id(t) \in DOMAIN event'
                     /\ output'[Id(t)] = output[Id(t)] /\ (event[Id(t)] => event'[Id(t)])
    BY <1>1, <1>3, <1>4, <1>6, <2>1, <2>2
  <2> QED BY <1>1, <1>8, <1>10, <2>3, SampleUntouched
<1>11. SampleInv(s)'
  <2>1. /\ \A i \in 1..Len(o) : o[i] = Len(acc[s]) + i
        /\ eos[s] > 0 => final[s]
    BY <1>1, <1>3 DEF SampleInv, PieceInv, EosInv, InCall
  <2>2. StandsInv(s)'
    BY <1>1, <1>3, <1>4, <1>8 DEF StandsInv, InCall
  <2>3. ResponseInv(s)'
    BY <1>1 DEF SampleInv, ResponseInv
  <2> DEFINE n == Len(acc[s])
             m == Len(o)
  <2>a. place = n + m + 1 /\ n \in Nat /\ m \in Nat /\ n + m <= ResponseLength
    BY <1>1, <1>5
  <2>4. Len(output'[Id(s)]) = Len(o) + 1
    BY <1>6, <1>7
  <2>5. \A i \in 1..Len(o) + 1 : output'[Id(s)][i] = Len(acc[s]) + i
    <3> SUFFICES ASSUME NEW i \in 1..Len(o) + 1 PROVE Append(o, place)[i] = Len(acc[s]) + i
      BY <1>6
    <3>1. CASE i \in 1..Len(o)
      BY <1>7, <2>1, <3>1
    <3>2. CASE i = Len(o) + 1
      <4>1. place = n + (m + 1)
        <5> HIDE DEF place, n, m
        <5> QED BY <2>a
      <4> QED BY <1>7, <3>2, <4>1
    <3>3. i \in 1..m \/ i = m + 1
      <4>1. i \in 1..m + 1
        OBVIOUS
      <4> HIDE DEF m
      <4> QED BY <2>a, <4>1
    <3> QED BY <3>1, <3>2, <3>3
  <2>6. Len(acc[s]) + (Len(o) + 1) <= ResponseLength + 1
    <3>1. n + (m + 1) <= ResponseLength + 1
      <4> HIDE DEF n, m, place
      <4> QED BY <2>a, <1>5
    <3> QED BY <3>1
  <2>7. PieceInv(s)'
    BY <1>1, <1>4, <2>4, <2>5, <2>6 DEF PieceInv
  <2>8. EosInv(s)'
    <3>1. CASE last
      <4>1. gen'[s] = "ended" /\ eos'[s] = Len(acc[s]) + Len(output'[Id(s)]) /\ Len(output'[Id(s)]) > 0
        <5>1. place = n + (m + 1) /\ m + 1 > 0
          <6> HIDE DEF n, m, place
          <6> QED BY <2>a
        <5>2. gen'[s] = "ended" /\ eos'[s] = place
          BY <1>8, <3>1
        <5> HIDE DEF place
        <5> QED BY <2>4, <5>1, <5>2
      <4> QED BY <1>1, <1>3, <1>4, <4>1 DEF EosInv
    <3>2. CASE ~last
      BY <1>1, <1>3, <1>8, <2>1, <3>2 DEF EosInv
    <3> QED BY <3>1, <3>2
  <2> QED BY <2>2, <2>3, <2>7, <2>8 DEF SampleInv
<1>12. LeftoversAreEmpty'
  <2> SUFFICES ASSUME NEW r \in DOMAIN output
               PROVE  \/ \E t \in Sample : r = Id(t)' /\ call'[t] \in {"waiting", "collecting"}
                      \/ output'[r] = None /\ event'[r]
    BY <1>6 DEF LeftoversAreEmpty
  <2>1. CASE \E t \in Sample : r = Id(t) /\ call[t] \in {"waiting", "collecting"}
    BY <1>1, <1>4, <2>1
  <2>2. CASE r = Id(s)
    BY <1>1, <1>3, <1>4, <2>2
  <2>3. CASE r # Id(s)
    BY <1>1, <1>6, <2>1, <2>3 DEF LeftoversAreEmpty
  <2> QED BY <2>2, <2>3
<1>13. EntriesInv'
  BY <1>1, <1>3, <1>6, <1>7 DEF EntriesInv
<1> QED BY <1>9, <1>10, <1>11, <1>12, <1>13

\* asyncio.wait returns: the task has ended, or it was cancelled and is dropped.
LEMMA WaitEndsKeeps ==
    ASSUME ServerAssumption, ServerInv, NEW s \in Sample, WaitEnds(s)
    PROVE  ServerInv'
<1> USE DEF ServerInv
<1>1. /\ call[s] = "waiting" /\ (gen[s] = "ended" \/ event[Id(s)])
      /\ inDone' = [inDone EXCEPT ![s] = (gen[s] = "ended")]
      /\ gen' = [gen EXCEPT ![s] = IF gen[s] = "running" THEN "cancelled" ELSE gen[s]]
      /\ call' = [call EXCEPT ![s] = "collecting"]
      /\ UNCHANGED <<paused, resetting, cancels, reuse, runs, event, output, acc, eos, final>>
  BY DEF WaitEnds
<1>2. gen[s] \in {"running", "ended"} /\ ~final[s] /\ Id(s) \in DOMAIN event
  BY <1>1 DEF SampleInv, StandsInv, InCall
<1>3. \A t \in Sample : Id(t)' = Id(t)
  BY <1>1 DEF Id
<1>4. \A t \in Sample : t # s => gen'[t] = gen[t] /\ call'[t] = call[t] /\ inDone'[t] = inDone[t]
  BY <1>1 DEF ServerTypeOK
<1>5. call'[s] = "collecting" /\ inDone'[s] = (gen[s] = "ended")
      /\ gen'[s] = (IF gen[s] = "running" THEN "cancelled" ELSE gen[s])
  BY <1>1 DEF ServerTypeOK
<1>6. ServerTypeOK'
  <2>1. inDone' \in [Sample -> BOOLEAN]
    BY <1>1 DEF ServerTypeOK
  <2>2. gen' \in [Sample -> {"none", "running", "ended", "cancelled"}]
        /\ call' \in [Sample -> {"idle", "entering", "waiting", "collecting"}]
    BY <1>1 DEF ServerTypeOK
  <2> QED BY <1>1, <2>1, <2>2 DEF ServerTypeOK, RequestId
<1>7. ASSUME NEW t \in Sample, t # s PROVE SampleInv(t)'
  <2>1. InCall(t) => Id(t) \in DOMAIN event
    BY DEF SampleInv, StandsInv
  <2> QED BY <1>1, <1>3, <1>4, <1>7, <2>1, SampleUntouched
<1>8. SampleInv(s)'
  <2>1. StandsInv(s)'
    <3>1. CASE gen[s] = "ended"
      BY <1>1, <1>2, <1>3, <1>5, <3>1 DEF StandsInv, InCall
    <3>2. CASE gen[s] = "running"
      BY <1>1, <1>2, <1>3, <1>5, <3>2 DEF StandsInv, InCall
    <3> QED BY <1>2, <3>1, <3>2
  <2>2. PieceInv(s)'
    BY <1>1, <1>3 DEF SampleInv, PieceInv, InCall
  <2>3. ResponseInv(s)'
    BY <1>1 DEF SampleInv, ResponseInv
  <2>4. EosInv(s)'
    <3>1. CASE gen[s] = "ended"
      BY <1>1, <1>3, <1>5, <3>1 DEF SampleInv, EosInv
    <3>2. CASE gen[s] = "running"
      <4>1. eos[s] > 0 => final[s] /\ Len(acc[s]) <= eos[s]
        BY <3>2 DEF SampleInv, EosInv
      <4>2. gen'[s] # "ended" /\ eos'[s] = eos[s] /\ final'[s] = final[s] /\ acc'[s] = acc[s]
        BY <1>1, <1>5, <3>2
      <4> QED BY ONLY <1>2, <4>1, <4>2 DEF EosInv
    <3> QED BY <1>2, <3>1, <3>2
  <2> QED BY <2>1, <2>2, <2>3, <2>4 DEF SampleInv
<1>9. LeftoversAreEmpty'
  <2> SUFFICES ASSUME NEW r \in DOMAIN output
               PROVE  \/ \E t \in Sample : r = Id(t)' /\ call'[t] \in {"waiting", "collecting"}
                      \/ output[r] = None /\ event[r]
    BY <1>1 DEF LeftoversAreEmpty
  <2>1. CASE \E t \in Sample : r = Id(t) /\ call[t] \in {"waiting", "collecting"}
    BY <1>3, <1>4, <1>5, <2>1
  <2> QED BY <2>1 DEF LeftoversAreEmpty
<1>10. EntriesInv'
  BY <1>1 DEF EntriesInv
<1> QED BY <1>6, <1>7, <1>8, <1>9, <1>10

\* The call collects: what the task has generated joins the response, and its entries go; without
\* output they stay, and are empty.
LEMMA CollectKeeps ==
    ASSUME ServerAssumption, ServerInv, NEW s \in Sample, Collect(s)
    PROVE  ServerInv'
<1> USE DEF ServerInv
<1>1. /\ call[s] = "collecting"
      /\ gen' = [gen EXCEPT ![s] = "none"]
      /\ UNCHANGED <<paused, resetting, cancels, reuse, runs, inDone, eos>>
  BY DEF Collect
<1>2. /\ gen[s] \in {"ended", "cancelled"} /\ inDone[s] = (gen[s] = "ended") /\ ~final[s]
      /\ gen[s] = "cancelled" => event[Id(s)]
      /\ Id(s) \in DOMAIN event /\ DOMAIN output = DOMAIN event /\ DOMAIN event \subseteq RequestId
  BY <1>1 DEF SampleInv, StandsInv, InCall, ServerTypeOK
<1>3. \A t \in Sample : Id(t)' = Id(t)
  BY <1>1 DEF Id
<1>4. gen'[s] = "none" /\ \A t \in Sample : t # s => gen'[t] = gen[t]
  BY <1>1 DEF ServerTypeOK
<1>5. Len(acc[s]) \in Nat /\ ResponseLength \in Nat /\ output[Id(s)] \in Seq(Nat) /\ eos[s] \in Nat
      /\ Len(output[Id(s)]) \in Nat
  <2>1. output[Id(s)] \in Seq(Nat)
    BY <1>2 DEF EntriesInv
  <2> QED BY <2>1 DEF ServerTypeOK, ServerAssumption
<1>6. ResponseInv(s) /\ EosInv(s)
      /\ \A i \in 1..Len(output[Id(s)]) : output[Id(s)][i] = Len(acc[s]) + i
  BY <1>1 DEF SampleInv, PieceInv, InCall
<1>7. Len(acc[s]) + Len(output[Id(s)]) <= ResponseLength + 1
  BY <1>1 DEF SampleInv, PieceInv, InCall
<1>8. gen' \in [Sample -> {"none", "running", "ended", "cancelled"}]
  BY <1>1 DEF ServerTypeOK
<1>9. CASE output[Id(s)] = None
  <2>1. Reply(s, None, TRUE) /\ UNCHANGED <<event, output>>
    BY <1>9 DEF Collect, None
  <2>2. /\ ResponseInv(s)' /\ Len(acc'[s]) = Len(acc[s]) /\ ~final'[s] /\ call'[s] = "idle"
        /\ acc' \in [Sample -> Seq(Nat)] /\ final' \in [Sample -> BOOLEAN]
        /\ call' \in [Sample -> {"idle", "entering", "waiting", "collecting"}]
        /\ \A t \in Sample : t # s => acc'[t] = acc[t] /\ final'[t] = final[t] /\ call'[t] = call[t]
    BY <1>2, <1>6, <2>1, EmptyReply
  <2>3. gen[s] = "cancelled" /\ event[Id(s)]
    <3>1. Len(output[Id(s)]) = 0
      BY <1>9 DEF None
    <3> QED BY <1>2, <1>6, <3>1 DEF EosInv
  <2>4. ServerTypeOK'
    BY <1>1, <1>8, <2>1, <2>2 DEF ServerTypeOK, RequestId
  <2>5. ASSUME NEW t \in Sample, t # s PROVE SampleInv(t)'
    <3>1. InCall(t) => Id(t) \in DOMAIN event
      BY DEF SampleInv, StandsInv
    <3> QED BY <1>1, <1>3, <1>4, <2>1, <2>2, <2>5, <3>1, SampleUntouched
  <2>6. SampleInv(s)'
    BY <1>1, <1>2, <1>4, <1>6, <2>2, <2>3 DEF SampleInv, StandsInv, PieceInv, EosInv, InCall
  <2>7. LeftoversAreEmpty'
    <3> SUFFICES ASSUME NEW r \in DOMAIN output
                 PROVE  \/ \E t \in Sample : r = Id(t)' /\ call'[t] \in {"waiting", "collecting"}
                        \/ output[r] = None /\ event[r]
      BY <2>1 DEF LeftoversAreEmpty
    <3>1. CASE r = Id(s)
      BY <1>9, <2>3, <3>1
    <3>2. CASE r # Id(s)
      <4>1. CASE \E t \in Sample : r = Id(t) /\ call[t] \in {"waiting", "collecting"}
        BY <1>3, <2>2, <3>2, <4>1
      <4> QED BY <4>1 DEF LeftoversAreEmpty
    <3> QED BY <3>1, <3>2
  <2>8. EntriesInv'
    BY <2>1 DEF EntriesInv
  <2> QED BY <2>4, <2>5, <2>6, <2>7, <2>8
<1>10. /\ Len(acc[s]) + Len(output[Id(s)]) \in Nat
      /\ Len(acc[s]) + Len(output[Id(s)]) <= ResponseLength + 1
  <2> DEFINE a == Len(acc[s])
             b == Len(output[Id(s)])
  <2>1. a \in Nat /\ b \in Nat
    BY <1>5
  <2>2. a + b <= ResponseLength + 1
    BY <1>7
  <2> HIDE DEF a, b
  <2>3. a + b \in Nat
    BY ONLY <2>1
  <2> QED BY <2>2, <2>3 DEF a, b
<1>11. CASE output[Id(s)] # None
  <2> DEFINE o == output[Id(s)]
             n == Len(acc[s]) + Len(o)
  <2>1. /\ Reply(s, o, ~inDone[s])
        /\ event' = Pop(event, Id(s)) /\ output' = Pop(output, Id(s))
    BY <1>11 DEF Collect
  <2>2. (~inDone[s]) \in BOOLEAN
    OBVIOUS
  <2>3. /\ ResponseInv(s)' /\ Len(acc'[s]) = (IF n < ResponseLength THEN n ELSE ResponseLength)
        /\ final'[s] = (~~inDone[s] \/ n >= ResponseLength) /\ call'[s] = "idle"
        /\ acc' \in [Sample -> Seq(Nat)] /\ final' \in [Sample -> BOOLEAN]
        /\ call' \in [Sample -> {"idle", "entering", "waiting", "collecting"}]
        /\ \A t \in Sample : t # s => acc'[t] = acc[t] /\ final'[t] = final[t] /\ call'[t] = call[t]
    BY <1>2, <1>5, <1>6, <2>1, <2>2, ReplyJoins
  <2>4. /\ DOMAIN event' = DOMAIN event \ {Id(s)} /\ DOMAIN output' = DOMAIN output \ {Id(s)}
        /\ \A r \in DOMAIN event : r # Id(s) => event'[r] = event[r]
        /\ \A r \in DOMAIN output : r # Id(s) => output'[r] = output[r]
    BY <2>1 DEF Pop
  <2>5. ServerTypeOK'
    <3>1. DOMAIN event' \subseteq RequestId /\ DOMAIN output' = DOMAIN event'
      BY <1>2, <2>4
    <3> QED BY <1>1, <1>8, <2>3, <3>1 DEF ServerTypeOK, RequestId
  <2>6. ASSUME NEW t \in Sample, t # s PROVE SampleInv(t)'
    <3>1. InCall(t) => Id(t) \in DOMAIN event
      BY DEF SampleInv, StandsInv
    <3>2. Id(t) # Id(s)
      BY <2>6, IdsDiffer
    <3>3. InCall(t) => /\ Id(t)' = Id(t) /\ Id(t) \in DOMAIN event'
                       /\ output'[Id(t)] = output[Id(t)] /\ (event[Id(t)] => event'[Id(t)])
      BY <1>2, <1>3, <2>4, <3>1, <3>2
    <3> QED BY <1>1, <1>4, <2>3, <2>6, <3>3, SampleUntouched
  <2>7. SampleInv(s)'
    <3>1. n \in Nat /\ n <= ResponseLength + 1
      BY <1>10
    <3>2. gen[s] = "ended" => eos[s] = n
      BY <1>6 DEF EosInv
    <3>3. gen[s] # "ended" => eos[s] = 0
      BY <1>2, <1>5, <1>6 DEF EosInv
    <3> HIDE DEF n
    <3>4. final'[s] <=> (gen[s] = "ended" \/ n >= ResponseLength)
      BY <1>2, <2>3
    <3>5. eos[s] > 0 => final'[s] /\ Len(acc'[s]) <= eos[s]
      <4>1. CASE gen[s] = "ended"
        BY <1>5, <2>3, <3>1, <3>2, <3>4, <4>1
      <4>2. CASE gen[s] # "ended"
        BY <3>3, <4>2
      <4> QED BY <4>1, <4>2
    <3>6. final'[s] => Len(acc'[s]) \in {eos[s], ResponseLength}
      <4>1. CASE gen[s] = "ended"
        BY <1>5, <2>3, <3>1, <3>2, <4>1
      <4>2. CASE n >= ResponseLength
        BY <1>5, <2>3, <3>1, <4>2
      <4> QED BY <3>4, <4>1, <4>2
    <3>7. EosInv(s)'
      BY <1>1, <1>4, <3>5, <3>6 DEF EosInv
    <3>8. StandsInv(s)' /\ PieceInv(s)'
      BY <1>4, <2>3 DEF StandsInv, PieceInv, InCall
    <3> QED BY <2>3, <3>7, <3>8 DEF SampleInv
  <2>8. LeftoversAreEmpty'
    <3> SUFFICES ASSUME NEW r \in DOMAIN output, r # Id(s)
                 PROVE  \/ \E t \in Sample : r = Id(t)' /\ call'[t] \in {"waiting", "collecting"}
                        \/ output'[r] = None /\ event'[r]
      BY <2>4 DEF LeftoversAreEmpty
    <3>1. output'[r] = output[r] /\ event'[r] = event[r]
      BY <1>2, <2>4
    <3>2. CASE \E t \in Sample : r = Id(t) /\ call[t] \in {"waiting", "collecting"}
      BY <1>3, <2>3, <3>2
    <3> QED BY <3>1, <3>2 DEF LeftoversAreEmpty
  <2>9. EntriesInv'
    BY <2>4 DEF EntriesInv
  <2> QED BY <2>5, <2>6, <2>7, <2>8, <2>9
<1> QED BY <1>9, <1>11

\* cancel sets every event, and the entries that are left behind keep theirs.
LEMMA CancelKeeps ==
    ASSUME ServerAssumption, ServerInv, Cancel
    PROVE  ServerInv'
<1> USE DEF ServerInv
<1>1. /\ cancels < MaxCancels /\ paused' = TRUE /\ cancels' = cancels + 1
      /\ event' = [r \in DOMAIN event |-> TRUE]
      /\ UNCHANGED <<resetting, reuse, runs, call, gen, inDone, output, acc, eos, final>>
  BY DEF Cancel
<1>2. DOMAIN event' = DOMAIN event /\ \A r \in DOMAIN event : event'[r] = TRUE
  BY <1>1
<1>3. \A t \in Sample : Id(t)' = Id(t)
  BY <1>1 DEF Id
<1>4. ServerTypeOK'
  <2>1. cancels' \in 0..MaxCancels
    BY <1>1 DEF ServerTypeOK, ServerAssumption
  <2> QED BY <1>1, <1>2, <2>1 DEF ServerTypeOK, RequestId
<1>5. ASSUME NEW t \in Sample PROVE SampleInv(t)'
  <2>1. InCall(t) => Id(t) \in DOMAIN event
    BY DEF SampleInv, StandsInv
  <2>2. InCall(t) => /\ Id(t)' = Id(t) /\ Id(t) \in DOMAIN event'
                     /\ output'[Id(t)] = output[Id(t)] /\ (event[Id(t)] => event'[Id(t)])
    BY <1>1, <1>2, <1>3, <2>1
  <2> QED BY <1>1, <2>2, SampleUntouched
<1>6. LeftoversAreEmpty'
  <2> SUFFICES ASSUME NEW r \in DOMAIN output
               PROVE  \/ \E t \in Sample : r = Id(t)' /\ call'[t] \in {"waiting", "collecting"}
                      \/ output[r] = None /\ event'[r]
    BY <1>1 DEF LeftoversAreEmpty
  <2>1. event'[r]
    BY <1>2 DEF ServerTypeOK
  <2>2. CASE \E t \in Sample : r = Id(t) /\ call[t] \in {"waiting", "collecting"}
    BY <1>1, <1>3, <2>2
  <2> QED BY <2>1, <2>2 DEF LeftoversAreEmpty
<1>7. EntriesInv'
  BY <1>1, <1>2 DEF EntriesInv
<1> QED BY <1>4, <1>5, <1>6, <1>7

\* Steps that touch no call.
LEMMA OthersKeep ==
    ASSUME ServerInv, ResetBegins \/ ResetEnds \/ Resume \/ UNCHANGED serverVars
    PROVE  ServerInv'
<1> USE DEF ServerInv
<1>1. /\ UNCHANGED <<cancels, reuse, runs, call, gen, inDone, event, output, acc, eos, final>>
      /\ paused' \in BOOLEAN /\ resetting' \in BOOLEAN
  BY DEF ResetBegins, ResetEnds, Resume, serverVars, ServerTypeOK
<1>2. \A t \in Sample : Id(t)' = Id(t)
  BY <1>1 DEF Id
<1>3. ServerTypeOK'
  BY <1>1 DEF ServerTypeOK, RequestId
<1>4. ASSUME NEW t \in Sample PROVE SampleInv(t)'
  <2>1. InCall(t) => Id(t) \in DOMAIN event
    BY DEF SampleInv, StandsInv
  <2> QED BY <1>1, <1>2, <2>1, SampleUntouched
<1>5. LeftoversAreEmpty'
  BY <1>1, <1>2 DEF LeftoversAreEmpty
<1>6. EntriesInv'
  BY <1>1 DEF EntriesInv
<1> QED BY <1>3, <1>4, <1>5, <1>6

\* A server nobody has asked.
LEMMA ServerInitInv ==
    ASSUME ServerAssumption
    PROVE  ServerInit => ServerInv
<1> SUFFICES ASSUME ServerInit PROVE ServerInv
  OBVIOUS
<1> USE DEF ServerInit
<1>1. DOMAIN event = {} /\ DOMAIN output = {}
  OBVIOUS
<1>2. <<>> \in Seq(Nat) /\ Len(<<>>) = 0
  OBVIOUS
<1>3. ServerTypeOK
  <2>0. 0 \in 0..MaxCancels /\ 0 \in 0..MaxRuns
    BY DEF ServerAssumption
  <2>1. /\ paused \in BOOLEAN /\ resetting \in BOOLEAN /\ reuse \in BOOLEAN
        /\ cancels \in 0..MaxCancels
    BY <2>0
  <2>4. runs \in [Sample -> 0..MaxRuns]
    BY <2>0
  <2>5. /\ call \in [Sample -> {"idle", "entering", "waiting", "collecting"}]
        /\ gen \in [Sample -> {"none", "running", "ended", "cancelled"}]
        /\ inDone \in [Sample -> BOOLEAN] /\ final \in [Sample -> BOOLEAN]
    OBVIOUS
  <2>2. acc \in [Sample -> Seq(Nat)] /\ eos \in [Sample -> Nat]
    BY <1>2
  <2>3. DOMAIN event \subseteq RequestId /\ DOMAIN output = DOMAIN event
    BY ONLY <1>1
  <2> QED BY ONLY <2>1, <2>2, <2>3, <2>4, <2>5 DEF ServerTypeOK
<1>4. ASSUME NEW s \in Sample PROVE SampleInv(s)
  BY <1>2 DEF SampleInv, StandsInv, PieceInv, ResponseInv, EosInv, InCall, ServerAssumption
<1>5. EntriesInv /\ LeftoversAreEmpty
  BY <1>1 DEF EntriesInv, LeftoversAreEmpty
<1> QED BY <1>3, <1>4, <1>5 DEF ServerInv

\* Every step of the server and of its callers keeps the invariant.
LEMMA ServerStep ==
    ASSUME ServerAssumption
    PROVE  ServerInv /\ [ServerNext]_serverVars => ServerInv'
BY AskKeeps, EnterKeeps, GenerateKeeps, WaitEndsKeeps, CollectKeeps, CancelKeeps, OthersKeep
   DEF ServerNext, Server

\* The response of an interrupted sample is the sequence of its places.
LEMMA ServerInvIsEnough ==
    ASSUME ServerAssumption
    PROVE  ServerInv => PiecesJoin /\ EndIsFinal /\ LeftoversAreEmpty
<1> SUFFICES ASSUME ServerInv PROVE PiecesJoin /\ EndIsFinal /\ LeftoversAreEmpty
  OBVIOUS
<1>1. ASSUME NEW s \in Sample PROVE acc[s] = [i \in 1..Len(acc[s]) |-> i]
  <2>1. acc[s] \in Seq(Nat) /\ \A i \in 1..Len(acc[s]) : acc[s][i] = i
    BY DEF ServerInv, ServerTypeOK, SampleInv, ResponseInv
  <2> QED BY <2>1
<1>2. ASSUME NEW s \in Sample
      PROVE  /\ eos[s] > 0 => Len(acc[s]) <= eos[s]
             /\ eos[s] > 0 /\ Len(acc[s]) = eos[s] => final[s]
             /\ final[s] => Len(acc[s]) \in {eos[s], ResponseLength}
  <2>1. EosInv(s) /\ Len(acc[s]) \in Nat /\ eos[s] \in Nat
    BY DEF ServerInv, ServerTypeOK, SampleInv
  <2>2. CASE gen[s] = "ended"
    <3>1. Id(s) \in DOMAIN output
      BY <2>2 DEF ServerInv, SampleInv, StandsInv, InCall, ServerTypeOK
    <3>2. output[Id(s)] \in Seq(Nat)
      BY <3>1 DEF ServerInv, EntriesInv
    <3>3. Len(output[Id(s)]) \in Nat
      BY <3>2
    <3>4. eos[s] = Len(acc[s]) + Len(output[Id(s)]) /\ Len(output[Id(s)]) > 0
          /\ (final[s] => Len(acc[s]) \in {eos[s], ResponseLength})
      BY <2>1, <2>2 DEF EosInv
    <3> DEFINE a == Len(acc[s])
               b == Len(output[Id(s)])
               e == eos[s]
    <3>5. a \in Nat /\ b \in Nat /\ e = a + b /\ b > 0
      BY <2>1, <3>3, <3>4
    <3> HIDE DEF a, b, e
    <3>6. a <= e /\ a # e
      BY ONLY <3>5
    <3> QED BY <3>4, <3>6 DEF a, e
  <2>3. CASE gen[s] # "ended"
    BY <2>1, <2>3 DEF EosInv
  <2> QED BY <2>2, <2>3
<1> QED BY <1>1, <1>2 DEF PiecesJoin, EndIsFinal, ServerInv

\* PartialSingleTurnAgentLoop.run, "continue generation": whatever is cancelled when, the pieces
\* of a response follow one another, its last token ends it, and no tokens stay at the server,
\* for any samples, response length, and number of runs and cancels.
THEOREM PiecesAlwaysJoin ==
    ASSUME ServerAssumption
    PROVE  ServerSpec => [](PiecesJoin /\ EndIsFinal /\ LeftoversAreEmpty)
BY ServerInitInv, ServerStep, ServerInvIsEnough, PTL DEF ServerSpec
=============================================================================
