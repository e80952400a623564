----------------------------- MODULE ServerRouter -----------------------------
(***************************************************************************)
(* AsyncLLMServerManager (verl/experimental/agent_loop/agent_loop.py): how *)
(* every agent loop worker spreads the turns of its conversations over the *)
(* servers: the least requested server for a new conversation, then, as    *)
(* long as an LRU cache remembers it, always the same.                     *)
(*                                                                         *)
(* Conversations are numbered in the order of the prompts: the batches     *)
(* follow each other, AgentLoopManager cuts a batch into one chunk per     *)
(* worker, and a worker starts all of its chunk at once.                   *)
(***************************************************************************)
EXTENDS Integers, FiniteSets, Sequences

CONSTANTS
    Servers,
    Workers,        \* number of agent loop workers
    Chunk,          \* prompts of a batch that a worker gets
    Batches,        \* bound: batches
    MaxTurns,       \* bound: turns of a conversation
    CacheSize,      \* max_cache_size
    Continuous,     \* does the next batch start before the last one has ended?
    MaxAlive        \* then: max_concurrent_samples of the rollouter

ASSUME RouterAssumption ==
    /\ IsFiniteSet(Servers) /\ Servers # {}
    /\ {Workers, Chunk, Batches, MaxTurns, CacheSize, MaxAlive} \subseteq Nat \ {0}
    /\ Continuous \in BOOLEAN

Requests == 1..Batches * Workers * Chunk
WorkerIds == 0..Workers - 1
Batch(q) == (q - 1) \div (Workers * Chunk)
Worker(q) == ((q - 1) % (Workers * Chunk)) \div Chunk

VARIABLES
    weighted_servers,       \* requests that a worker gave to a server
    request_id_to_server,   \* per worker, least recently used first
    status,                 \* of a conversation
    turns,                  \* its turns so far
    served                  \* the servers that generated them

vars == <<weighted_servers, request_id_to_server, status, turns, served>>

Init ==
    /\ weighted_servers = [w \in WorkerIds |-> [s \in Servers |-> 0]]
    /\ request_id_to_server = [w \in WorkerIds |-> <<>>]
    /\ status = [q \in Requests |-> "new"]
    /\ turns = [q \in Requests |-> 0]
    /\ served = [q \in Requests |-> {}]

-----------------------------------------------------------------------------
Entries(w) == {request_id_to_server[w][i] : i \in DOMAIN request_id_to_server[w]}
Remembered(w, q) == \E e \in Entries(w) : e.request = q
\* Mutant: any server that is not the most requested.
LeastNotMost(w) ==
    {s \in Servers : \E t \in Servers : weighted_servers[w][s] <= weighted_servers[w][t]}

Least(w) == {s \in Servers : \A t \in Servers : weighted_servers[w][s] <= weighted_servers[w][t]}

Position(cache, q) == CHOOSE i \in DOMAIN cache : cache[i].request = q
Without(cache, i) == [j \in 1..Len(cache) - 1 |-> IF j < i THEN cache[j] ELSE cache[j + 1]]

Others(w, q) ==
    IF Remembered(w, q)
    THEN Without(request_id_to_server[w], Position(request_id_to_server[w], q))
    ELSE request_id_to_server[w]

\* Mutant: the newest entry makes room, not the oldest.
TouchedFirst(w, q, s) ==
    LET kept == Others(w, q)
    IN  Append(IF Len(kept) = CacheSize THEN SubSeq(kept, 1, CacheSize - 1) ELSE kept,
               [request |-> q, server |-> s])

\* A hit makes the entry the most recently used, a new one evicts the least.
Touched(w, q, s) ==
    LET kept == Others(w, q)
    IN  Append(IF Len(kept) = CacheSize THEN Tail(kept) ELSE kept, [request |-> q, server |-> s])

Alive == {q \in Requests : status[q] \in {"waits", "thinks"}}

MayStart(q) ==
    IF Continuous THEN q \in Alive \/ Cardinality(Alive) < MaxAlive
    ELSE \A p \in Requests : Batch(p) < Batch(q) => status[p] = "ended"

Generate(q, s) ==
    /\ request_id_to_server' = [request_id_to_server EXCEPT ![Worker(q)] = Touched(Worker(q), q, s)]
    /\ status' = [status EXCEPT ![q] = "waits"]
    /\ served' = [served EXCEPT ![q] = @ \cup {s}]
    /\ turns' = [turns EXCEPT ![q] = @ + 1]

MayGenerate(q) == status[q] \in {"new", "thinks"} /\ MayStart(q) /\ turns[q] < MaxTurns

Stick(q) ==
    /\ MayGenerate(q)
    /\ \E e \in Entries(Worker(q)) : e.request = q /\ Generate(q, e.server)
    /\ UNCHANGED weighted_servers

Choose(q) ==
    /\ MayGenerate(q) /\ ~Remembered(Worker(q), q)
    /\ \E s \in Least(Worker(q)) :
         /\ Generate(q, s)
         /\ weighted_servers' = [weighted_servers EXCEPT ![Worker(q)][s] = @ + 1]

\* The conversation goes on after a tool call, or ends.
Answered(q) ==
    /\ status[q] = "waits"
    /\ status' = [status EXCEPT ![q] = IF turns[q] < MaxTurns THEN "thinks" ELSE "ended"]
    /\ UNCHANGED <<weighted_servers, request_id_to_server, turns, served>>

Stops(q) ==
    /\ status[q] = "thinks"
    /\ status' = [status EXCEPT ![q] = "ended"]
    /\ UNCHANGED <<weighted_servers, request_id_to_server, turns, served>>

Next == \E q \in Requests : Stick(q) \/ Choose(q) \/ Answered(q) \/ Stops(q)

Spec == Init /\ [][Next]_vars

-----------------------------------------------------------------------------
(* Properties.                                                             *)

TypeOK ==
    /\ weighted_servers \in [WorkerIds -> [Servers -> Nat]]
    /\ request_id_to_server \in [WorkerIds -> Seq([request : Requests, server : Servers])]
    /\ \A w \in WorkerIds : Len(request_id_to_server[w]) <= CacheSize
    /\ status \in [Requests -> {"new", "waits", "thinks", "ended"}]
    /\ turns \in [Requests -> 0..MaxTurns]
    /\ served \in [Requests -> SUBSET Servers]

\* A worker never gives a server more than one conversation more than another.
Balanced ==
    \A w \in WorkerIds : \A s, t \in Servers : weighted_servers[w][s] <= weighted_servers[w][t] + 1

\* "Sticky session: send multi-turn chat completions to same server for
\* automatic prefix caching": all turns of a conversation, on one server.
StickySession == \A q \in Requests : Cardinality(served[q]) <= 1

Total[w \in Nat, s \in Servers] ==
    IF w = 0 THEN 0 ELSE Total[w - 1, s] + weighted_servers[w - 1][s]

\* Nor do all of them together overload one, by more than one each.
WorkersTogetherBalanced ==
    \A s, t \in Servers : Total[Workers, s] - Total[Workers, t] <= Workers

\* Sessions counted are sessions started: a later turn that is remembered is
\* not counted again, so that load is measured in conversations.
EachCountedOnce ==
    \A w \in WorkerIds :
        LET started == {q \in Requests : Worker(q) = w /\ served[q] # {}}
        IN  \A s \in Servers : weighted_servers[w][s] = Cardinality({q \in started : s \in served[q]})

\* No conversation that goes on is forgotten: a cache has room for its worker's chunk of a batch,
\* or, where the batches overlap, for all that the worker is ever given.
RoomForAll == (IF Continuous THEN Batches * Chunk ELSE Chunk) <= CacheSize

\* All turns of a conversation go to one server and count once.
SessionsStick == TypeOK /\ (RoomForAll => StickySession /\ EachCountedOnce)
=============================================================================
