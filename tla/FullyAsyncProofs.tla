-------------------------- MODULE FullyAsyncProofs --------------------------
(***************************************************************************)
(* Proofs about the fully asynchronous recipe, for every set of            *)
(* configurations: its types, how far the Rollouter runs ahead and how     *)
(* late its samples are used, that no sample is lost unseen, and that at   *)
(* staleness threshold 0 the job is on policy.                             *)
(***************************************************************************)
EXTENDS FullyAsync, FiniteSetTheorems, SequenceTheorems, TLAPS

-----------------------------------------------------------------------------
(* The inductive invariant.                                                *)

\* Products, kept folded: the samples of k updates, of k steps, of k restarts.
Times(k, n) == k * n

\* The samples of one parameter update.
PerUpdate == Required * TriggerStep

\* The Trainer has met the end of the message queue.
Ended == trainer \in {"end_wait", "last_sync", "final_sync", "last_wait", "done"}

\* The lock: each user is among its holder and waiters exactly when it stands
\* at a place where the code has asked for the lock.
Users == {"processor", "monitor", "rpc", "main"}
Among(p, q) == \E i \in DOMAIN q : q[i] = p
OnceEach(q) == \A i, j \in DOMAIN q : q[i] = q[j] => i = j
LockInv ==
    /\ lockQ \in Seq(Users) /\ OnceEach(lockQ)
    /\ Among("processor", lockQ)
         <=> proc \in {"pausing", "drain", "park", "limit", "submit", "finish"}
    /\ Among("monitor", lockQ) <=> monitor \in {"recover", "check"}
    /\ Among("rpc", lockQ) <=> rpc \in {"pause", "gather", "update", "count", "resume"}
    /\ Among("main", lockQ) => proc = "stopping"
    /\ rpc \in {"gather", "count"} => lockQ[1] = "rpc"

\* Where each coroutine and each call may stand.
PlaceInv ==
    /\ config \in Configs
    /\ proc \in {"top", "take", "pausing", "drain", "park", "parked", "limit",
                 "submit", "held", "finish", "end", "stopping"}
    /\ monitor \in {"sleep", "recover", "check", "ended"}
    /\ rpc \in {"idle", "pause", "gather", "broadcast", "update", "count", "resume"}
    /\ trainer \in {"collect", "wait_valid", "sync", "save", "end_wait", "last_sync",
                    "final_sync", "last_wait", "done"}

\* The elements of the message queue.
Items == Samples \cup {End}

\* The ranges of the data.
DataInv ==
    /\ fed \in 0..DONE /\ taken \in 0..fed /\ hand \in Samples \cup {End}
    /\ busy \in BOOLEAN /\ paused \in BOOLEAN /\ trigger \in BOOLEAN
    /\ running \in BOOLEAN /\ stopped \in BOOLEAN
    /\ gen \subseteq Samples /\ spent \in Nat /\ cancelQ \in Seq(Samples)
    /\ mq \in Seq(Items) /\ Len(mq) <= MaxQueue
    /\ batch \in Seq(Samples) /\ Len(batch) <= Required
    /\ staleness \in Nat /\ current \in Nat /\ dropped \in Nat /\ counted \in Nat
    /\ trained \in Nat /\ version \in Nat /\ weights \in Nat /\ step \in 1..TriggerStep
    /\ from \in [Samples -> Nat] /\ tag \in [Samples -> Nat]
    /\ ckpt \in [version : Nat, skips : Int] /\ skipped \in Int /\ restarts \in Nat

\* The sample in hand, the end signal and what follows it.
HandInv ==
    /\ hand # End <=> proc \in {"limit", "submit", "held"}
    /\ taken = DONE <=> proc \in {"finish", "end", "stopping"}
    /\ proc \in {"end", "stopping"} => gen = {}
EndInv ==
    /\ \A i \in DOMAIN mq : mq[i] = End <=> i = Len(mq) /\ proc = "stopping"
    /\ proc = "stopping" /\ ~Ended => mq # <<>>
    /\ Ended => proc = "stopping" /\ mq = <<>> /\ batch = <<>>

\* The Trainer, the synchronizer's call and the versions go through their
\* phases together.
PhaseInv ==
    /\ trainer \in {"sync", "final_sync"} <=> rpc \in {"pause", "gather", "broadcast"}
    /\ trainer \in {"wait_valid", "sync", "save"} => step = 1 /\ batch = <<>>
    /\ version = weights + (IF trainer \in {"wait_valid", "sync", "last_sync", "final_sync"} THEN 1 ELSE 0)
    /\ weights = current + (IF rpc = "update" THEN 1 ELSE 0)
    /\ (~Ended \/ trainer = "end_wait") => trained = Times(version, PerUpdate) + Times(step - 1, Required)

\* No sample is in two places.
Taken == 1..(IF taken < TotalSteps THEN taken ELSE TotalSteps)
OneplaceInv ==
    /\ gen \subseteq Taken /\ hand \in Taken \cup {End} /\ hand \notin gen
    /\ \A i \in DOMAIN cancelQ : cancelQ[i] \in Taken /\ cancelQ[i] # hand /\ cancelQ[i] \notin gen
    /\ \A i, j \in DOMAIN cancelQ : cancelQ[i] = cancelQ[j] => i = j

\* Every sample taken is somewhere: trained on, in the batch, thrown away or outstanding.
Queued == Len(mq) - (IF proc = "stopping" /\ ~Ended THEN 1 ELSE 0)
Ahead == Cardinality(gen) + Len(cancelQ) + Queued + (IF hand = End THEN 0 ELSE 1)
AccountInv ==
    /\ ~Ended => trained + Len(batch) + dropped + Ahead
                 = (IF taken < TotalSteps THEN taken ELSE TotalSteps)
    /\ Ended => TotalSteps - trained - dropped - Len(cancelQ) \in 0..Required - 1

\* The counter misses at most one sample, and only once per reset of it; `k` is
\* what it misses now.
Within_(k) ==
    /\ Ahead <= staleness + k /\ Ahead <= MaxRequired + k
    /\ proc = "take" => Ahead <= MaxRequired + k - 1
    /\ dropped + k <= current + (IF proc = "stopping" THEN 1 ELSE 0) - (IF rpc = "count" THEN 1 ELSE 0)
BacklogInv ==
    /\ rpc = "count" => Cardinality(gen) + Len(cancelQ) <= counted
    /\ Within_(0) \/ Within_(1)

\* What has been consumed and what is outstanding never reach further than what
\* the Trainer may consume before the next reset and what may follow it.
LagInv ==
    /\ ~Ended =>
        LET base == Times(current + (IF rpc = "count" THEN 0 ELSE 1), PerUpdate) IN
        /\ trained + Len(batch) + Ahead <= base + staleness + 1
        /\ trained + Len(batch) + Ahead <= base + MaxRequired + 1
        /\ proc = "take" => trained + Len(batch) + Ahead <= base + MaxRequired
    /\ \A s \in Samples : tag[s] <= current
    /\ \A i \in DOMAIN mq : mq[i] # End =>
        trained + Len(batch) + i - 1 <= Times(tag[mq[i]] + 1, PerUpdate) + MaxRequired
    /\ \A i \in DOMAIN batch :
        trained + i - 1 <= Times(tag[batch[i]] + 1, PerUpdate) + MaxRequired

\* Threshold 0.  From the training of an update's last sample to the reset of
\* the counter nothing moves; at all other times the counter is exact.
Settling == trainer \in {"wait_valid", "sync"} \/ rpc \in {"update", "count"}
CallRuns == rpc \in {"gather", "broadcast", "update", "count", "resume"}
Still == gen = {} /\ hand = End /\ mq = <<>> /\ batch = <<>> /\ step = 1 /\ taken # DONE /\ proc # "take"
Exact == staleness = Ahead + Len(batch) + Times(step - 1, Required)
                     + (IF taken = DONE THEN 1 ELSE 0)
Fresh(s) == from[s] = version /\ tag[s] = version
Before(q) == \A i, j \in DOMAIN q : q[i] = "monitor" /\ q[j] = "rpc" => i < j
QuietInv ==
    /\ cancelQ = <<>> /\ dropped = 0
    /\ CallRuns => gen = {}
    /\ stopped => CallRuns
    /\ rpc \in {"broadcast", "update", "count", "resume"} => ~trigger
    /\ rpc = "count" => counted = 0
    /\ rpc \in {"broadcast", "update"} => spent = 0
SettleInv ==
    ~Ended =>
        /\ Settling \/ CallRuns => Still
        /\ Settling => staleness = MaxRequired
        /\ CallRuns => paused /\ monitor # "recover" /\ trainer # "wait_valid"
        /\ monitor = "recover" /\ rpc = "pause" => Before(lockQ)
ExactInv ==
    ~Ended /\ ~Settling =>
        /\ Exact /\ staleness <= MaxRequired
        /\ proc = "take" => staleness < MaxRequired
        /\ weights = version /\ current = version
        /\ \A s \in gen : from[s] = version
        /\ \A i \in DOMAIN mq : mq[i] # End => Fresh(mq[i])
        /\ \A i \in DOMAIN batch : Fresh(batch[i])
StrictInv == QuietInv /\ SettleInv /\ ExactInv

\* What a restart may skip, and what the checkpoint would make the next one skip.
SkipUnit == MaxRequired + PendingSize + 1
SkipInv ==
    /\ fed <= taken + PendingSize
    /\ trainer \in {"last_sync", "final_sync", "last_wait"} => Times(version, PerUpdate) >= TotalSteps
    /\ skipped \in 0..Times(restarts, SkipUnit)
    /\ Times(ckpt.version, PerUpdate) < TotalSteps => ckpt.skips \in 0..Times(restarts + 1, SkipUnit)

-----------------------------------------------------------------------------
(* The lock.                                                               *)

\* A user that asks for the lock is behind the others.
LEMMA Joining ==
    ASSUME NEW q \in Seq(Users), OnceEach(q), NEW p \in Users, ~Among(p, q)
    PROVE  /\ Append(q, p) \in Seq(Users) /\ OnceEach(Append(q, p))
           /\ \A u : Among(u, Append(q, p)) <=> Among(u, q) \/ u = p
           /\ Append(q, p)[1] = IF q = <<>> THEN p ELSE q[1]
PROOF
  <1> DEFINE a == Append(q, p)
  <1>1. a \in Seq(Users) /\ Len(a) = Len(q) + 1 /\ DOMAIN a = 1..Len(q) + 1
        /\ DOMAIN q = 1..Len(q) /\ Len(q) \in Nat
    OBVIOUS
  <1>2. \A i \in 1..Len(q) : a[i] = q[i]
    OBVIOUS
  <1>3. a[Len(q) + 1] = p
    OBVIOUS
  <1> HIDE DEF a
  <1>4. OnceEach(a)
    BY <1>1, <1>2, <1>3 DEF OnceEach, Among
  <1>5. \A u : Among(u, a) <=> Among(u, q) \/ u = p
    BY <1>1, <1>2, <1>3 DEF Among
  <1>6. a[1] = IF q = <<>> THEN p ELSE q[1]
    BY <1>1, <1>2, <1>3
  <1> QED
    BY <1>1, <1>4, <1>5, <1>6 DEF a

\* The holder leaves, and nobody else.
LEMMA Leaving ==
    ASSUME NEW q \in Seq(Users), OnceEach(q), q # <<>>
    PROVE  /\ Tail(q) \in Seq(Users) /\ OnceEach(Tail(q))
           /\ \A u : Among(u, Tail(q)) <=> Among(u, q) /\ u # Head(q)
           /\ Head(q) = q[1] /\ Head(q) \in Users /\ Among(Head(q), q)
PROOF
  <1> DEFINE t == Tail(q)
  <1>1. t \in Seq(Users) /\ DOMAIN t = 1..Len(q) - 1 /\ DOMAIN q = 1..Len(q) /\ Len(q) \in Nat
        /\ Len(q) > 0 /\ Head(q) = q[1] /\ Head(q) \in Users
    OBVIOUS
  <1>2. \A i \in 1..Len(q) - 1 : t[i] = q[i + 1]
    OBVIOUS
  <1> HIDE DEF t
  <1>3. OnceEach(t)
    <2>1. ASSUME NEW i \in DOMAIN t, NEW j \in DOMAIN t, t[i] = t[j] PROVE i = j
      <3>1. i + 1 \in DOMAIN q /\ j + 1 \in DOMAIN q /\ q[i + 1] = q[j + 1]
        BY <2>1, <1>1, <1>2
      <3>2. i + 1 = j + 1
        BY <3>1 DEF OnceEach
      <3> QED
        BY <3>2, <1>1
    <2> QED
      BY <2>1 DEF OnceEach
  <1>4. ASSUME NEW u PROVE Among(u, t) <=> Among(u, q) /\ u # Head(q)
    <2>1. Among(u, t) => Among(u, q) /\ u # q[1]
      BY <1>1, <1>2 DEF Among, OnceEach
    <2>2. ASSUME NEW i \in DOMAIN q, q[i] = u, u # q[1] PROVE Among(u, t)
      <3>1. i - 1 \in DOMAIN t /\ t[i - 1] = u
        BY <2>2, <1>1, <1>2
      <3> QED
        BY <3>1 DEF Among
    <2> QED
      BY <2>1, <2>2, <1>1 DEF Among
  <1>5. Among(Head(q), q)
    BY <1>1 DEF Among
  <1> QED
    BY <1>1, <1>3, <1>4, <1>5 DEF t

\* The coroutines a notify_all wakes ask for the lock after the others.
LEMMA Rejoining ==
    ASSUME NEW q \in Seq(Users), OnceEach(q), NEW w \in {<<>>, <<"processor">>},
           w = <<>> \/ ~Among("processor", q)
    PROVE  /\ q \o w \in Seq(Users) /\ OnceEach(q \o w)
           /\ \A u : Among(u, q \o w) <=> Among(u, q) \/ (u = "processor" /\ w # <<>>)
           /\ q # <<>> => (q \o w)[1] = q[1]
PROOF
  <1> DEFINE c == q \o w
  <1>1. CASE w = <<>>
    <2>1. c = q
      BY <1>1
    <2> HIDE DEF c
    <2>2. /\ c \in Seq(Users) /\ OnceEach(c) /\ \A u : Among(u, c) <=> Among(u, q)
          /\ c[1] = q[1]
      BY <2>1
    <2>3. ~(w # <<>>)
      BY <1>1
    <2>4. \A u : Among(u, c) <=> Among(u, q) \/ (u = "processor" /\ w # <<>>)
      BY <2>2, <2>3
    <2> QED
      BY <2>2, <2>4 DEF c
  <1>2. CASE w = <<"processor">>
    <2>1. c = Append(q, "processor")
      BY <1>2
    <2>2. "processor" \in Users
      BY DEF Users
    <2>3. w # <<>>
      BY <1>2
    <2> HIDE DEF c
    <2>4. /\ c \in Seq(Users) /\ OnceEach(c)
          /\ \A u : Among(u, c) <=> Among(u, q) \/ u = "processor"
          /\ q # <<>> => c[1] = q[1]
      BY <2>1, <2>2, <2>3, Joining
    <2> QED
      BY <2>3, <2>4 DEF c
  <1> QED
    BY <1>1, <1>2

\* Nobody is in the empty queue.
LEMMA Nobody ==
    /\ <<>> \in Seq(Users) /\ OnceEach(<<>>) /\ <<"processor">> \in Seq(Users)
    /\ \A u : ~Among(u, <<>>)
PROOF
  BY DEF OnceEach, Among, Users

\* Nothing before a queue.
LEMMA EmptyFirst ==
    ASSUME NEW q \in Seq(Users)
    PROVE  <<>> \o q = q
PROOF
  OBVIOUS

-----------------------------------------------------------------------------
(* The steps, and what they all leave alone.                               *)

\* The kinds of step.
LEMMA Kinds ==
    ASSUME [Next]_vars
    PROVE  \/ Within(Feed)
           \/ Within(Top)
           \/ Within(Take)
           \/ Within(Locked)
           \/ Within(SendEnd)
           \/ Within(StopRunning)
           \/ Within(MonitorWakes)
           \/ Within(MonitorRecovers)
           \/ Within(MonitorChecks)
           \/ Within(PauseBegins)
           \/ Within(PauseEnds)
           \/ Within(WeightsMove)
           \/ Within(UpdateBegins)
           \/ Within(UpdateEnds)
           \/ Within(Resume)
           \/ Within(GetSample)
           \/ Within(Train)
           \/ Within(StartSync)
           \/ Within(Conclude)
           \/ \E s \in Samples : Within(Generated(s))
           \/ \E s \in Samples : Within(Cancelled(s))
           \/ Save \/ Restart \/ UNCHANGED vars
PROOF
  BY DEF Next, Within, Work, ProcessorNext, MonitorNext, TaskNext, CallNext, TrainerNext

\* The configuration is that of the job.
LEMMA SameConfig ==
    ASSUME [Next]_vars
    PROVE  config' = config
PROOF
  BY Kinds DEF Within, jobVars, Save, Restart, vars

-----------------------------------------------------------------------------
(* Who is in the lock's queue.                                             *)

\* Each user stands where the code leaves it, and waits for the lock exactly
\* when it has asked for it.
LEMMA LockStep ==
    ASSUME PlaceInv, LockInv, HandInv, PhaseInv, [Next]_vars
    PROVE  PlaceInv' /\ LockInv'
PROOF
  <1> USE DEF PlaceInv, LockInv
  <1>c. config' \in Configs
    BY SameConfig
  <1>t. lockQ # <<>> =>
          /\ Tail(lockQ) \in Seq(Users) /\ OnceEach(Tail(lockQ))
          /\ \A u : Among(u, Tail(lockQ)) <=> Among(u, lockQ) /\ u # Head(lockQ)
          /\ Head(lockQ) = lockQ[1] /\ Among(Head(lockQ), lockQ)
    BY Leaving
  <1>j. ASSUME NEW p \in Users, ~Among(p, lockQ)
        PROVE  /\ Append(lockQ, p) \in Seq(Users) /\ OnceEach(Append(lockQ, p))
               /\ \A u : Among(u, Append(lockQ, p)) <=> Among(u, lockQ) \/ u = p
               /\ lockQ # <<>> => Append(lockQ, p)[1] = lockQ[1]
    BY <1>j, Joining
  <1>r. ASSUME NEW p \in Users, lockQ # <<>>, ~Among(p, lockQ) \/ p = Head(lockQ)
        PROVE  /\ Append(Tail(lockQ), p) \in Seq(Users) /\ OnceEach(Append(Tail(lockQ), p))
               /\ \A u : Among(u, Append(Tail(lockQ), p))
                           <=> (Among(u, lockQ) /\ u # Head(lockQ)) \/ u = p
    BY <1>t, <1>r, Joining
  <1>u. "processor" \in Users /\ "monitor" \in Users /\ "rpc" \in Users /\ "main" \in Users
    BY DEF Users
  <1>e. lockQ = <<>> => \A u : ~Among(u, lockQ)
    BY Nobody
  <1> DEFINE Same == UNCHANGED <<proc, monitor, lockQ, rpc, trainer>>
  <1>s. Same => PlaceInv' /\ LockInv'
    BY <1>c
  <1>1. CASE Within(Feed)
    BY <1>1, <1>s DEF Within, Feed, trainVars
  <1> DEFINE Asks == /\ UNCHANGED <<monitor, rpc, trainer>> /\ proc \in {"top", "take"}
                     /\ \/ lockQ' = lockQ /\ proc' \in {"take", "end"}
                        \/ /\ lockQ' = Append(lockQ, "processor")
                           /\ proc' \in {"pausing", "limit", "submit", "finish"}
  <1>v. Asks => PlaceInv' /\ LockInv'
    <2> SUFFICES ASSUME Asks PROVE PlaceInv' /\ LockInv'
      OBVIOUS
    <2>1. UNCHANGED <<monitor, rpc, trainer>> /\ ~Among("processor", lockQ) /\ ~Among("main", lockQ)
      OBVIOUS
    <2>2. CASE lockQ' = lockQ /\ proc' \in {"take", "end"}
      BY <1>c, <2>1, <2>2
    <2>3. CASE /\ lockQ' = Append(lockQ, "processor")
               /\ proc' \in {"pausing", "limit", "submit", "finish"}
      <3>1. /\ lockQ' \in Seq(Users) /\ OnceEach(lockQ')
            /\ \A u : Among(u, lockQ') <=> Among(u, lockQ) \/ u = "processor"
            /\ lockQ # <<>> => lockQ'[1] = lockQ[1]
        BY <2>1, <2>3, <1>u, <1>j
      <3>2. rpc' \in {"gather", "count"} => lockQ'[1] = "rpc"
        BY <1>e, <2>1, <3>1
      <3> QED
        BY <1>c, <2>1, <2>3, <3>1, <3>2
    <2> QED
      BY <2>2, <2>3
  <1>2. CASE Within(Top)
    <2>1. Asks
      BY <1>2 DEF Within, Top, Carry, TakePending, Enter, trainVars
    <2> QED
      BY <1>v, <2>1
  <1>3. CASE Within(Take)
    <2>1. Asks
      BY <1>3 DEF Within, Take, Carry, TakePending, Enter, trainVars
    <2> QED
      BY <1>v, <2>1
  <1>4. CASE Within(Locked)
    <2>1. /\ lockQ # <<>> /\ Head(lockQ) = "processor" /\ UNCHANGED <<monitor, rpc, trainer>>
          /\ \/ /\ lockQ' = Append(Tail(lockQ), "processor")
                /\ proc' \in {"park", "drain", "limit", "submit", "finish"}
             \/ lockQ' = Tail(lockQ) /\ proc' \in {"parked", "top", "held", "end"}
      BY <1>4 DEF Within, Locked, Holds, Leave, LeaveAndEnter, trainVars
    <2>2. /\ lockQ[1] = "processor" /\ Among("processor", lockQ)
          /\ rpc \notin {"gather", "count"} /\ ~Among("main", lockQ)
      BY <2>1, <1>t
    <2>3. CASE /\ lockQ' = Append(Tail(lockQ), "processor")
               /\ proc' \in {"park", "drain", "limit", "submit", "finish"}
      <3>1. /\ lockQ' \in Seq(Users) /\ OnceEach(lockQ')
            /\ \A u : Among(u, lockQ')
                        <=> (Among(u, lockQ) /\ u # "processor") \/ u = "processor"
        BY <2>1, <2>3, <1>u, <1>r
      <3> QED
        BY <1>c, <2>1, <2>2, <2>3, <3>1
    <2>4. CASE lockQ' = Tail(lockQ) /\ proc' \in {"parked", "top", "held", "end"}
      <3>1. /\ lockQ' \in Seq(Users) /\ OnceEach(lockQ')
            /\ \A u : Among(u, lockQ') <=> Among(u, lockQ) /\ u # "processor"
        BY <2>1, <2>4, <1>t
      <3> QED
        BY <1>c, <2>1, <2>2, <2>4, <3>1
    <2> QED
      BY <2>1, <2>3, <2>4
  <1>5. CASE Within(SendEnd)
    BY <1>5, <1>c, <1>u, <1>j, <1>e DEF Within, SendEnd, Enter, trainVars
  <1>6. CASE Within(StopRunning)
    BY <1>6, <1>c, <1>u, <1>t, <1>e DEF Within, StopRunning, Holds, Leave, rolloutVars, trainVars
  <1>7. CASE Within(MonitorWakes)
    <2>1. lockQ \o <<"monitor">> \o <<>> = Append(lockQ, "monitor")
      OBVIOUS
    <2>2. /\ monitor = "sleep" /\ UNCHANGED <<proc, rpc, trainer>>
          /\ \/ lockQ' = Append(lockQ, "monitor") /\ monitor' \in {"recover", "check"}
             \/ lockQ = <<>> /\ lockQ' = <<>> /\ monitor' \in {"sleep", "ended"}
      BY <1>7, <2>1 DEF Within, MonitorWakes, NextRound, Enter, rolloutVars, trainVars
    <2>3. CASE lockQ' = Append(lockQ, "monitor") /\ monitor' \in {"recover", "check"}
      <3>1. ~Among("monitor", lockQ)
        BY <2>2
      <3>2. /\ lockQ' \in Seq(Users) /\ OnceEach(lockQ')
            /\ \A u : Among(u, lockQ') <=> Among(u, lockQ) \/ u = "monitor"
            /\ lockQ # <<>> => lockQ'[1] = lockQ[1]
        BY <2>3, <3>1, <1>u, <1>j
      <3> QED
        BY <1>c, <1>e, <2>2, <2>3, <3>2
    <2>4. CASE lockQ = <<>> /\ lockQ' = <<>> /\ monitor' \in {"sleep", "ended"}
      BY <1>c, <1>e, <2>2, <2>4, Nobody
    <2> QED
      BY <2>2, <2>3, <2>4
  <1>8. CASE Within(MonitorRecovers)
    <2> DEFINE t == Tail(lockQ)
               m == Append(t, "monitor")
    <2>1. /\ lockQ # <<>> /\ Head(lockQ) = "monitor" /\ monitor = "recover"
          /\ proc' = CASE proc = "parked" -> "park" [] proc = "held" -> "submit" [] OTHER -> proc
          /\ UNCHANGED <<rpc, trainer>>
          /\ IF t = <<>> THEN lockQ' = Woken /\ monitor' \in {"sleep", "ended"}
                         ELSE lockQ' = t \o <<"monitor">> \o Woken /\ monitor' = "check"
      BY <1>8 DEF Within, MonitorRecovers, Holds, NextRound, Notify, trainVars
    <2>2. /\ t \in Seq(Users) /\ OnceEach(t) /\ \A u : Among(u, t) <=> Among(u, lockQ) /\ u # "monitor"
          /\ rpc \notin {"gather", "count"}
      BY <2>1, <1>t
    <2>3. /\ m \in Seq(Users) /\ OnceEach(m) /\ t \o <<"monitor">> = m
          /\ \A u : Among(u, m) <=> Among(u, lockQ)
      <3>1. t \o <<"monitor">> = m
        BY <2>2
      <3>2. ~Among("monitor", t) /\ Among("monitor", lockQ)
        BY <2>1, <2>2, <1>t
      <3> HIDE DEF t
      <3>3. /\ m \in Seq(Users) /\ OnceEach(m)
            /\ \A u : Among(u, m) <=> Among(u, t) \/ u = "monitor"
        BY <2>2, <3>2, <1>u, Joining
      <3> QED
        BY <2>2, <3>1, <3>2, <3>3
    <2>4. Woken \in {<<>>, <<"processor">>}
      BY DEF Woken
    <2>5. ~Among("processor", lockQ) \/ Woken = <<>>
      BY DEF Woken
    <2>6. Woken # <<>> <=> proc \in {"parked", "held"}
      BY DEF Woken
    <2>7. CASE t = <<>>
      <3>1. t \o Woken = Woken
        <4>1. Woken \in Seq(Users)
          BY <2>4, Nobody
        <4> QED
          BY <2>7, <4>1, Zenon, EmptyFirst
      <3>2. /\ lockQ' \in Seq(Users) /\ OnceEach(lockQ')
            /\ \A u : Among(u, lockQ') <=> Among(u, t) \/ (u = "processor" /\ Woken # <<>>)
        <4>1. Woken = <<>> \/ ~Among("processor", t)
          BY <2>2, <2>5
        <4>2. lockQ' = t \o Woken
          BY <2>1, <2>7, <3>1
        <4> HIDE DEF t
        <4> QED
          BY <2>2, <2>4, <4>1, <4>2, Rejoining
      <3> QED
        BY <1>c, <2>1, <2>2, <2>6, <2>7, <3>2
    <2>8. CASE t # <<>>
      <3>1. /\ lockQ' \in Seq(Users) /\ OnceEach(lockQ')
            /\ \A u : Among(u, lockQ') <=> Among(u, m) \/ (u = "processor" /\ Woken # <<>>)
        <4>1. Woken = <<>> \/ ~Among("processor", m)
          BY <2>3, <2>5
        <4>2. lockQ' = m \o Woken
          BY <2>1, <2>3, <2>8
        <4> HIDE DEF m
        <4> QED
          BY <2>3, <2>4, <4>1, <4>2, Rejoining
      <3>2. /\ Among("processor", lockQ') <=> Among("processor", lockQ) \/ proc \in {"parked", "held"}
            /\ \A u \in {"monitor", "rpc", "main"} : Among(u, lockQ') <=> Among(u, lockQ)
        BY <2>3, <2>6, <3>1
      <3>3. /\ monitor' = "check" /\ Among("monitor", lockQ)
            /\ proc' \in {"parked", "held"} => FALSE
            /\ proc \notin {"parked", "held"} => proc' = proc
            /\ proc \in {"parked", "held"} => proc' \in {"park", "submit"}
        BY <2>1, <2>2, <2>8
      <3>4. PlaceInv'
        BY <1>c, <2>1, <3>3
      <3> QED
        BY <2>1, <2>2, <3>1, <3>2, <3>3, <3>4
    <2> QED
      BY <2>7, <2>8
  <1>9. CASE Within(MonitorChecks)
    BY <1>9, <1>c, <1>u, <1>t, <1>e DEF Within, MonitorChecks, Holds, Leave, rolloutVars, trainVars
  <1>10. CASE Within(PauseBegins)
    BY <1>10, <1>c, <1>t, <1>e DEF Within, PauseBegins, Holds, rolloutVars, trainVars
  <1>11. CASE Within(PauseEnds)
    BY <1>11, <1>c, <1>u, <1>t, <1>e DEF Within, PauseEnds, Leave, trainVars
  <1>12. CASE Within(WeightsMove)
    BY <1>12, <1>c, <1>u, <1>j, <1>e DEF Within, WeightsMove, Enter, rolloutVars, PhaseInv
  <1>13. CASE Within(UpdateBegins)
    BY <1>13, <1>c, <1>t, <1>e DEF Within, UpdateBegins, Holds, rolloutVars, trainVars
  <1>14. CASE Within(UpdateEnds)
    BY <1>14, <1>c, <1>u, <1>t, <1>r, <1>e DEF Within, UpdateEnds, LeaveAndEnter, trainVars
  <1>15. CASE Within(Resume)
    <2>1. /\ lockQ # <<>> /\ Head(lockQ) = "rpc" /\ rpc = "resume" /\ rpc' = "idle"
          /\ proc' = CASE proc = "parked" -> "park" [] proc = "held" -> "submit" [] OTHER -> proc
          /\ UNCHANGED <<monitor, trainer>>
          /\ lockQ' = Tail(lockQ) \o Woken
      BY <1>15 DEF Within, Resume, Holds, Notify, trainVars
    <2>2. Woken \in {<<>>, <<"processor">>}
      BY DEF Woken
    <2>3. ~Among("processor", lockQ) \/ Woken = <<>>
      BY DEF Woken
    <2>4. Woken # <<>> <=> proc \in {"parked", "held"}
      BY DEF Woken
    <2>5. /\ lockQ' \in Seq(Users) /\ OnceEach(lockQ')
          /\ \A u : Among(u, lockQ') <=> Among(u, Tail(lockQ)) \/ (u = "processor" /\ Woken # <<>>)
      BY <2>1, <2>2, <2>3, <1>t, Rejoining
    <2>6. /\ Among("processor", lockQ') <=> Among("processor", lockQ) \/ proc \in {"parked", "held"}
          /\ \A u \in {"monitor", "main"} : Among(u, lockQ') <=> Among(u, lockQ)
          /\ ~Among("rpc", lockQ')
      BY <2>1, <2>4, <2>5, <1>t
    <2>7. /\ proc \notin {"parked", "held"} => proc' = proc
          /\ proc \in {"parked", "held"} => proc' \in {"park", "submit"}
      BY <2>1
    <2>8. PlaceInv'
      BY <1>c, <2>1, <2>7
    <2> QED
      BY <2>1, <2>5, <2>6, <2>7, <2>8
  <1>16. CASE Within(GetSample)
    BY <1>16, <1>c DEF Within, GetSample, rolloutVars
  <1>17. CASE Within(Train)
    BY <1>17, <1>c DEF Within, Train, rolloutVars
  <1>18. CASE Within(StartSync)
    BY <1>18, <1>c, <1>u, <1>j, <1>e DEF Within, StartSync, Enter, rolloutVars
  <1>19. CASE Within(Conclude)
    BY <1>19, <1>c DEF Within, Conclude, rolloutVars
  <1>20. ASSUME NEW s \in Samples, Within(Generated(s)) PROVE PlaceInv' /\ LockInv'
    BY <1>20, <1>s DEF Within, Generated, rolloutVars, trainVars
  <1>21. ASSUME NEW s \in Samples, Within(Cancelled(s)) PROVE PlaceInv' /\ LockInv'
    BY <1>21, <1>s DEF Within, Cancelled, rolloutVars, trainVars
  <1>22. CASE Save
    BY <1>22, <1>c DEF Save, rolloutVars
  <1>23. CASE Restart
    BY <1>23, <1>c, Nobody DEF Restart
  <1>24. CASE UNCHANGED vars
    BY <1>24, <1>s DEF vars
  <1> QED
    BY <1>1, <1>2, <1>3, <1>4, <1>5, <1>6, <1>7, <1>8, <1>9, <1>10, <1>11, <1>12, <1>13, <1>14,
       <1>15, <1>16, <1>17, <1>18, <1>19, <1>20, <1>21, <1>22, <1>23, <1>24, Kinds

-----------------------------------------------------------------------------
(* The sizes of a configuration.                                           *)

\* One factor more, one less, and none.
LEMMA TimesFacts ==
    ASSUME NEW k \in Int, NEW n \in Nat
    PROVE  /\ Times(k, n) \in Int /\ (k \in Nat => Times(k, n) \in Nat)
           /\ Times(k + 1, n) = Times(k, n) + n /\ Times(0, n) = 0
           /\ Times(k - 1, n) = Times(k, n) - n
PROOF
  BY DEF Times

\* More factors are not less.
LEMMA TimesGrows ==
    ASSUME NEW k \in Int, NEW l \in Int, k <= l, NEW n \in Nat
    PROVE  Times(k, n) <= Times(l, n)
PROOF
  <1>1. (l - k) * n >= 0 /\ l * n = k * n + (l - k) * n
    OBVIOUS
  <1> QED
    BY <1>1 DEF Times

\* The sizes are positive, and the Rollouter may be ahead by a whole update.
LEMMA Sizes ==
    ASSUME config \in Configs
    PROVE  /\ TotalSteps \in Nat \ {0} /\ Required \in Nat \ {0} /\ TriggerStep \in Nat \ {0}
           /\ PendingSize \in Nat \ {0} /\ config.threshold \in Nat /\ config.partial \in BOOLEAN
           /\ config.max_restarts \in Nat
           /\ PerUpdate \in Nat \ {0} /\ Required <= PerUpdate
           /\ PerUpdate = Times(TriggerStep, Required)
           /\ MaxRequired \in Nat \ {0} /\ PerUpdate <= MaxRequired
           /\ config.threshold = 0 => MaxRequired = PerUpdate
           /\ DONE = TotalSteps + 1 /\ MaxQueue = MaxRequired /\ Samples = 1..TotalSteps /\ End = 0
PROOF
  <1>1. /\ TotalSteps \in Nat \ {0} /\ Required \in Nat \ {0} /\ TriggerStep \in Nat \ {0}
        /\ PendingSize \in Nat \ {0} /\ config.threshold \in Nat /\ config.partial \in BOOLEAN
        /\ config.max_restarts \in Nat
    BY ConfigsAssumption DEF Config, TotalSteps, Required, TriggerStep, PendingSize
  <1>2. PerUpdate \in Nat \ {0} /\ Required <= PerUpdate /\ PerUpdate = Times(TriggerStep, Required)
    <2>1. \A r, t \in Nat \ {0} : r * t \in Nat \ {0} /\ r <= r * t /\ r * t = t * r
      OBVIOUS
    <2> QED
      BY <1>1, <2>1 DEF PerUpdate, Times
  <1>3. MaxRequired = (PerUpdate * (100 + config.threshold)) \div 100
    BY DEF MaxRequired, PerUpdate
  <1>4. \A n \in Nat \ {0}, t \in Nat : /\ (n * (100 + t)) \div 100 \in Nat
                                        /\ n <= (n * (100 + t)) \div 100
                                        /\ (n * (100 + 0)) \div 100 = n
    <2>1. SUFFICES ASSUME NEW n \in Nat \ {0}, NEW t \in Nat
                   PROVE  /\ (n * (100 + t)) \div 100 \in Nat
                          /\ n <= (n * (100 + t)) \div 100
                          /\ (n * (100 + 0)) \div 100 = n
      OBVIOUS
    <2>2. n * t \in Nat /\ n * (100 + t) = 100 * n + n * t
      OBVIOUS
    <2> QED
      BY <2>2
  <1>5. MaxRequired \in Nat /\ PerUpdate <= MaxRequired
    BY <1>1, <1>2, <1>3, <1>4
  <1>6. config.threshold = 0 => MaxRequired = PerUpdate
    BY <1>2, <1>3, <1>4
  <1> QED
    BY <1>1, <1>2, <1>5, <1>6 DEF DONE, MaxQueue, Samples, End

\* A step changes none of them.
LEMMA SameSizes ==
    ASSUME config' = config
    PROVE  /\ TotalSteps' = TotalSteps /\ Required' = Required /\ TriggerStep' = TriggerStep
           /\ PendingSize' = PendingSize /\ MaxRequired' = MaxRequired /\ MaxQueue' = MaxQueue
           /\ PerUpdate' = PerUpdate /\ Samples' = Samples /\ DONE' = DONE
           /\ Items' = Items /\ SkipUnit' = SkipUnit /\ End' = End
PROOF
  BY DEF TotalSteps, Required, TriggerStep, PendingSize, MaxRequired, MaxQueue, PerUpdate,
         Samples, DONE, Items, SkipUnit, End

\* The steps of a version are what its updates consumed.
LEMMA StepsAre ==
    ASSUME config \in Configs, NEW v \in Int
    PROVE  StepsOf(v) = Times(v, PerUpdate)
PROOF
  <1>1. \A r, t \in Nat : v * r * t = v * (r * t)
    OBVIOUS
  <1> QED
    BY <1>1, Sizes DEF StepsOf, Times, PerUpdate

-----------------------------------------------------------------------------
(* The queues.                                                             *)

\* put_sample on a queue of at most m: the oldest element makes room.
Put(q, m, x) == Append(IF Len(q) >= m THEN Tail(q) ELSE q, x)
\* What such a queue holds afterwards.
LEMMA PutFacts ==
    ASSUME NEW S, NEW q \in Seq(S), NEW x \in S, NEW m \in Nat \ {0}, Len(q) <= m
    PROVE  /\ Put(q, m, x) \in Seq(S)
           /\ Len(Put(q, m, x)) = IF Len(q) >= m THEN Len(q) ELSE Len(q) + 1
           /\ Put(q, m, x)[Len(Put(q, m, x))] = x
           /\ \A i \in 1..Len(Put(q, m, x)) - 1 :
                Put(q, m, x)[i] = IF Len(q) >= m THEN q[i + 1] ELSE q[i]
PROOF
  <1> DEFINE b == IF Len(q) >= m THEN Tail(q) ELSE q
  <1>1. /\ b \in Seq(S) /\ Len(b) = (IF Len(q) >= m THEN Len(q) - 1 ELSE Len(q))
        /\ Len(q) \in Nat /\ Len(b) \in Nat
        /\ \A i \in 1..Len(b) : b[i] = IF Len(q) >= m THEN q[i + 1] ELSE q[i]
    <2>1. CASE Len(q) >= m
      <3>1. q # <<>> /\ b = Tail(q)
        BY <2>1
      <3> QED
        BY <2>1, <3>1
    <2>2. CASE ~(Len(q) >= m)
      BY <2>2
    <2> QED
      BY <2>1, <2>2
  <1>2. Put(q, m, x) = Append(b, x)
    BY DEF Put
  <1> HIDE DEF b
  <1> QED
    BY <1>1, <1>2

\* Without its head a queue holds the others, one place further on.
LEMMA TailFacts ==
    ASSUME NEW S, NEW q \in Seq(S), q # <<>>
    PROVE  /\ Tail(q) \in Seq(S) /\ Len(Tail(q)) = Len(q) - 1
           /\ Head(q) = q[1] /\ Head(q) \in S /\ Len(q) \in Nat /\ Len(q) >= 1
           /\ \A i \in 1..Len(q) - 1 : Tail(q)[i] = q[i + 1]
PROOF
  OBVIOUS

\* With one more element a queue holds the others where they were.
LEMMA AppendFacts ==
    ASSUME NEW S, NEW q \in Seq(S), NEW x \in S
    PROVE  /\ Append(q, x) \in Seq(S) /\ Len(Append(q, x)) = Len(q) + 1 /\ Len(q) \in Nat
           /\ \A i \in 1..Len(q) : Append(q, x)[i] = q[i]
           /\ Append(q, x)[Len(q) + 1] = x
PROOF
  OBVIOUS

\* put_sample is such a step, and counts what it throws away.
LEMMA PutSampleIs ==
    ASSUME NEW x, PutSample(x)
    PROVE  /\ mq' = Put(mq, MaxQueue, x)
           /\ dropped' = IF Len(mq) >= MaxQueue THEN dropped + 1 ELSE dropped
PROOF
  BY DEF PutSample, Full, Put

\* Samples are finitely many.
LEMMA Finite ==
    ASSUME config \in Configs, gen \subseteq Samples
    PROVE  IsFiniteSet(gen) /\ Cardinality(gen) \in Nat
PROOF
  <1>1. IsFiniteSet(Samples)
    <2>1. 1 \in Int /\ TotalSteps \in Int
      BY Sizes
    <2> QED
      BY <2>1, FS_Interval DEF Samples
  <1> QED
    BY <1>1, FS_Subset, FS_CardinalityType

-----------------------------------------------------------------------------
(* The data.                                                               *)

\* Every step keeps every variable in its range.
LEMMA DataStep ==
    ASSUME PlaceInv, LockInv, DataInv, HandInv, [Next]_vars
    PROVE  DataInv'
PROOF
  <1> USE DEF DataInv
  <1>a. /\ TotalSteps \in Nat \ {0} /\ Required \in Nat \ {0} /\ TriggerStep \in Nat \ {0}
        /\ PendingSize \in Nat \ {0} /\ MaxRequired \in Nat \ {0}
        /\ DONE = TotalSteps + 1 /\ MaxQueue = MaxRequired /\ Samples = 1..TotalSteps /\ End = 0
    BY Sizes DEF PlaceInv
  <1>b. /\ TotalSteps' = TotalSteps /\ Required' = Required /\ TriggerStep' = TriggerStep
        /\ MaxQueue' = MaxQueue /\ Samples' = Samples /\ DONE' = DONE /\ End' = End
        /\ Items' = Items
    BY SameConfig, SameSizes
  <1>i. Samples \subseteq Items /\ End \in Items /\ (\A x \in Items : x # End => x \in Samples)
    BY DEF Items
  <1>s. \A v \in Nat : StepsOf(v) \in Nat
    <2>1. SUFFICES ASSUME NEW v \in Nat PROVE StepsOf(v) \in Nat
      OBVIOUS
    <2>2. PerUpdate \in Nat /\ config \in Configs
      BY Sizes DEF PlaceInv
    <2>3. v \in Int
      OBVIOUS
    <2> HIDE DEF DataInv
    <2>4. Times(v, PerUpdate) \in Nat
      BY <2>2, <2>3, TimesFacts
    <2>5. StepsOf(v) = Times(v, PerUpdate)
      BY <2>2, <2>3, StepsAre
    <2> QED
      BY <2>4, <2>5
  <1>f. Cardinality(gen) \in Nat
    BY Finite DEF PlaceInv
  <1>h. proc = "submit" => hand \in Samples
    BY DEF HandInv
  <1>p. ASSUME NEW x \in Items, PutSample(x)
        PROVE  mq' \in Seq(Items) /\ Len(mq') <= MaxQueue /\ dropped' \in Nat
    <2>1. /\ mq' = Put(mq, MaxQueue, x)
          /\ dropped' = IF Len(mq) >= MaxQueue THEN dropped + 1 ELSE dropped
      BY <1>p, PutSampleIs
    <2>2. MaxQueue \in Nat \ {0} /\ mq \in Seq(Items) /\ Len(mq) <= MaxQueue
      BY <1>a
    <2>3. /\ mq' \in Seq(Items)
          /\ Len(mq') = IF Len(mq) >= MaxQueue THEN Len(mq) ELSE Len(mq) + 1
      BY <1>p, <2>1, <2>2, PutFacts
    <2>4. Len(mq) \in Nat
      BY <2>2
    <2> QED
      BY <2>1, <2>2, <2>3, <2>4
  <1> DEFINE Kept == UNCHANGED <<fed, taken, hand, busy, paused, trigger, running, gen, spent,
                 cancelQ, stopped, mq, dropped, counted, batch, trained, version,
                 step, from, tag, ckpt, skipped, restarts, current, staleness, weights>>
  <1>k. Kept => DataInv'
    BY <1>b
  <1>1. CASE Within(Feed)
    <2>1. fed' \in 0..DONE /\ taken' = taken /\ taken' \in 0..fed'
      BY <1>1, <1>a DEF Within, Feed
    <2>2. UNCHANGED <<hand, busy, paused, trigger, running, gen, spent, cancelQ, stopped, mq, dropped,
             counted, batch, trained, version, step, from, tag, ckpt, skipped, restarts, current,
             staleness, weights>>
      BY <1>1 DEF Within, Feed, trainVars, jobVars
    <2> QED
      BY <2>1, <2>2, <1>b
  <1>2. CASE Within(Top)
    <2>1. busy' \in BOOLEAN
      BY <1>2 DEF Within, Top, RunOn
    <2>2. /\ taken' \in 0..fed /\ hand' \in Samples \cup {End} /\ cancelQ' \in Seq(Samples)
          /\ staleness' \in Nat
      <3>1. CASE cancelQ # <<>> /\ hand' = Head(cancelQ) /\ cancelQ' = Tail(cancelQ)
                 /\ UNCHANGED <<taken, staleness>>
        BY <3>1
      <3>2. CASE TakePending /\ UNCHANGED cancelQ
        BY <3>2, <1>a DEF TakePending, Carry
      <3>3. CASE UNCHANGED <<taken, hand, cancelQ, staleness>>
        BY <3>3
      <3> QED
        BY <1>2, <3>1, <3>2, <3>3 DEF Within, Top, Carry
    <2>3. UNCHANGED <<fed, paused, trigger, running, gen, spent, stopped, mq, dropped, counted,
             batch, trained, version, step, from, tag, ckpt, skipped, restarts, current, weights>>
      BY <1>2 DEF Within, Top, trainVars, jobVars
    <2> QED
      BY <2>1, <2>2, <2>3, <1>b
  <1>3. CASE Within(Take)
    <2>1. busy' \in BOOLEAN
      BY <1>3 DEF Within, Take, RunOn
    <2>2. taken' \in 0..fed /\ hand' \in Samples \cup {End} /\ staleness' \in Nat
      BY <1>3, <1>a, SMTT(30) DEF Within, Take, TakePending, Carry
    <2>3. UNCHANGED <<fed, paused, trigger, running, gen, spent, stopped, mq, dropped, counted, cancelQ,
             batch, trained, version, step, from, tag, ckpt, skipped, restarts, current, weights>>
      BY <1>3 DEF Within, Take, trainVars, jobVars
    <2> QED
      BY <2>1, <2>2, <2>3, <1>b
  <1>4. CASE Within(Locked)
    <2>1. busy' \in BOOLEAN
      BY <1>4 DEF Within, Locked, RunOn
    <2>2. paused' \in BOOLEAN
      BY <1>4 DEF Within, Locked
    <2>3. /\ hand' \in Samples \cup {End} /\ gen' \subseteq Samples /\ spent' \in Nat
          /\ from' \in [Samples -> Nat]
      <3>1. CASE UNCHANGED <<hand, gen, from>> /\ spent' \in {0, spent}
        BY <3>1
      <3>2. CASE /\ proc = "submit" /\ gen' = gen \cup {hand} /\ hand' = End
                 /\ from' = [from EXCEPT ![hand] = weights] /\ spent' = spent
        BY <3>2, <1>h
      <3> QED
        BY <1>4, <3>1, <3>2 DEF Within, Locked, Reap
    <2>4. UNCHANGED <<fed, taken, trigger, running, stopped, mq, dropped, counted, cancelQ, staleness,
             batch, trained, version, step, tag, ckpt, skipped, restarts, current, weights>>
      BY <1>4 DEF Within, Locked, trainVars, jobVars
    <2> QED
      BY <2>1, <2>2, <2>3, <2>4, <1>b
  <1>5. CASE Within(SendEnd)
    BY <1>5, <1>a, <1>b, <1>i, <1>p DEF Within, SendEnd, trainVars, jobVars
  <1>6. CASE Within(StopRunning)
    BY <1>6, <1>a, <1>b DEF Within, StopRunning, rolloutVars, trainVars, jobVars
  <1>7. CASE Within(MonitorWakes)
    BY <1>7, <1>k DEF Within, MonitorWakes, rolloutVars, trainVars, jobVars
  <1>8. CASE Within(MonitorRecovers)
    BY <1>8, <1>a, <1>b DEF Within, MonitorRecovers, trainVars, jobVars
  <1>9. CASE Within(MonitorChecks)
    BY <1>9, <1>k DEF Within, MonitorChecks, rolloutVars, trainVars, jobVars
  <1>10. CASE Within(PauseBegins)
    <2>1. config.partial \in BOOLEAN
      BY Sizes DEF PlaceInv
    <2> QED
      BY <1>10, <2>1, <1>a, <1>b DEF Within, PauseBegins, rolloutVars, trainVars, jobVars
  <1>11. CASE Within(PauseEnds)
    BY <1>11, <1>a, <1>b DEF Within, PauseEnds, trainVars, jobVars
  <1>12. CASE Within(WeightsMove)
    BY <1>12, <1>a, <1>b DEF Within, WeightsMove, rolloutVars, jobVars
  <1>13. CASE Within(UpdateBegins)
    <2>1. counted' \in Nat
      BY <1>13, <1>f DEF Within, UpdateBegins, Active
    <2> QED
      BY <1>13, <2>1, <1>a, <1>b DEF Within, UpdateBegins, rolloutVars, trainVars, jobVars
  <1>14. CASE Within(UpdateEnds)
    BY <1>14, <1>a, <1>b, SMTT(30) DEF Within, UpdateEnds, trainVars, jobVars
  <1>15. CASE Within(Resume)
    BY <1>15, <1>a, <1>b DEF Within, Resume, trainVars, jobVars
  <1>16. CASE Within(GetSample)
    <2>1. /\ mq # <<>> /\ mq' = Tail(mq) /\ Len(batch) < Required
          /\ (Head(mq) # End /\ batch' = Append(batch, Head(mq))) \/ batch' = <<>>
      BY <1>16 DEF Within, GetSample
    <2>2. mq' \in Seq(Items) /\ Len(mq') <= MaxQueue /\ Head(mq) \in Items
      <3>1. mq' \in Seq(Items) /\ Len(mq') = Len(mq) - 1 /\ Head(mq) \in Items /\ Len(mq) \in Nat
        <4>1. mq \in Seq(Items)
          OBVIOUS
        <4>2. mq # <<>> /\ mq' = Tail(mq)
          BY <2>1
        <4> HIDE DEF DataInv
        <4> QED
          BY <4>1, <4>2, TailFacts
      <3> QED
        BY <3>1, <1>a
    <2>3. batch' \in Seq(Samples) /\ Len(batch') <= Required
      <3>2. CASE Head(mq) # End /\ batch' = Append(batch, Head(mq))
        <4>1. Head(mq) \in Samples
          BY <2>2, <3>2, <1>i
        <4>2. batch' \in Seq(Samples) /\ Len(batch') = Len(batch) + 1 /\ Len(batch) \in Nat
          BY <3>2, <4>1, AppendFacts
        <4> QED
          BY <2>1, <4>2, <1>a
      <3>3. CASE batch' = <<>>
        BY <3>3, <1>a
      <3> QED
        BY <2>1, <3>2, <3>3
    <2>4. UNCHANGED <<fed, taken, hand, busy, paused, trigger, running, gen, spent, cancelQ, stopped,
             dropped, counted, trained, version, step, from, tag, ckpt, skipped, restarts, current,
             staleness, weights>>
      BY <1>16 DEF Within, GetSample, rolloutVars, jobVars
    <2> QED
      BY <2>2, <2>3, <2>4, <1>b
  <1>17. CASE Within(Train)
    <2>1. /\ batch' = <<>> /\ trained' = trained + Required
          /\ \/ step < TriggerStep /\ step' = step + 1 /\ version' = version
             \/ step' = 1 /\ version' = version + 1
      BY <1>17 DEF Within, Train
    <2>2. UNCHANGED <<fed, taken, hand, busy, paused, trigger, running, gen, spent, cancelQ, stopped,
             dropped, counted, mq, from, tag, ckpt, skipped, restarts, current,
             staleness, weights>>
      BY <1>17 DEF Within, Train, rolloutVars, jobVars
    <2>3. batch' \in Seq(Samples) /\ Len(batch') = 0
      BY <2>1
    <2>4. trained' \in Nat /\ version' \in Nat /\ step' \in 1..TriggerStep
      BY <2>1, <1>a, SMTT(30)
    <2> QED
      BY <2>2, <2>3, <2>4, <1>a, <1>b
  <1>18. CASE Within(StartSync)
    BY <1>18, <1>k DEF Within, StartSync, rolloutVars, jobVars
  <1>19. CASE Within(Conclude)
    <2>1. \/ step' = 1 /\ version' = version + 1
          \/ UNCHANGED <<step, version>>
      BY <1>19 DEF Within, Conclude
    <2>2. UNCHANGED <<fed, taken, hand, busy, paused, trigger, running, gen, spent, cancelQ, stopped,
             dropped, counted, mq, batch, trained, from, tag, ckpt, skipped, restarts, current,
             staleness, weights>>
      BY <1>19 DEF Within, Conclude, rolloutVars, jobVars
    <2>3. version' \in Nat /\ step' \in 1..TriggerStep
      BY <2>1, <1>a
    <2> QED
      BY <2>2, <2>3, <1>b
  <1>20. ASSUME NEW s \in Samples, Within(Generated(s)) PROVE DataInv'
    <2>1. PutSample(s) /\ gen' = gen \ {s} /\ spent' = spent + 1 /\ tag' = [tag EXCEPT ![s] = current]
      BY <1>20 DEF Within, Generated
    <2>2. mq' \in Seq(Items) /\ Len(mq') <= MaxQueue /\ dropped' \in Nat
      BY <2>1, <1>i, <1>p
    <2>3. UNCHANGED <<fed, taken, hand, busy, paused, trigger, running, cancelQ, stopped,
             counted, batch, trained, version, step, from, ckpt, skipped, restarts, current,
             staleness, weights>>
      BY <1>20 DEF Within, Generated, rolloutVars, trainVars, jobVars
    <2> QED
      BY <2>1, <2>2, <2>3, <1>b
  <1>21. ASSUME NEW s \in Samples, Within(Cancelled(s)) PROVE DataInv'
    BY <1>21, <1>a, <1>b DEF Within, Cancelled, rolloutVars, trainVars, jobVars
  <1>22. CASE Save
    <2>1. UNCHANGED <<fed, taken, hand, busy, paused, trigger, running, gen, spent, cancelQ, stopped,
             dropped, counted, mq, batch, trained, version, step, from, tag, skipped, restarts, current,
             staleness, weights>>
      BY <1>22 DEF Save, rolloutVars
    <2>2. ckpt' \in [version : Nat, skips : Int]
      <3>1. StepsOf(version) \in Int
        BY <1>s
      <3>2. Drawn \in Int
        BY <1>a DEF Drawn
      <3>3. ckpt' = ckpt \/ ckpt' = [version |-> version, skips |-> skipped + Drawn - StepsOf(version)]
        BY <1>22 DEF Save
      <3> QED
        BY <3>1, <3>2, <3>3
    <2> QED
      BY <2>1, <2>2, <1>b
  <1>23. CASE Restart
    <2>1. /\ StepsOf(ckpt.version) < TotalSteps /\ StepsOf(ckpt.version) \in Nat
          /\ ckpt.version \in Nat /\ ckpt.skips \in Int
      BY <1>23, <1>s DEF Restart
    <2>2. taken' \in 0..fed' /\ fed' \in 0..DONE
      <3>1. /\ taken' = StepsOf(ckpt.version)
            /\ fed' = IF taken' + PendingSize < DONE THEN taken' + PendingSize ELSE DONE
        BY <1>23 DEF Restart
      <3> HIDE DEF DataInv
      <3>2. StepsOf(ckpt.version) \in 0..TotalSteps
        BY <2>1, <1>a
      <3> QED
        BY <3>1, <3>2, <1>a
    <2>3. /\ hand' = End /\ gen' = {} /\ spent' = 0 /\ cancelQ' = <<>> /\ mq' = <<>> /\ batch' = <<>>
          /\ dropped' = 0 /\ staleness' = 0 /\ counted' = 0 /\ step' = 1 /\ trained' = taken'
          /\ from' = [x \in Samples |-> 0] /\ tag' = [x \in Samples |-> 0]
          /\ version' = ckpt.version /\ weights' = ckpt.version /\ current' = ckpt.version
          /\ ckpt' = ckpt /\ restarts' = restarts + 1 /\ skipped' = ckpt.skips
      BY <1>23 DEF Restart
    <2>4. /\ busy' \in BOOLEAN /\ paused' \in BOOLEAN /\ trigger' \in BOOLEAN
          /\ running' \in BOOLEAN /\ stopped' \in BOOLEAN
      BY <1>23 DEF Restart
    <2>5. trained' \in Nat
      BY <2>1, <1>23 DEF Restart
    <2> QED
      BY <2>1, <2>2, <2>3, <2>4, <2>5, <1>a, <1>b
  <1>24. CASE UNCHANGED vars
    BY <1>24, <1>k DEF vars, jobVars
  <1> QED
    BY <1>1, <1>2, <1>3, <1>4, <1>5, <1>6, <1>7, <1>8, <1>9, <1>10, <1>11, <1>12, <1>13, <1>14,
       <1>15, <1>16, <1>17, <1>18, <1>19, <1>20, <1>21, <1>22, <1>23, <1>24, Kinds

-----------------------------------------------------------------------------
(* The sample in hand and the end of the data.                             *)

\* No step separates the sample in hand from where the processor stands.
LEMMA HandStep ==
    ASSUME PlaceInv, DataInv, HandInv, [Next]_vars
    PROVE  HandInv'
PROOF
  <1> USE DEF HandInv
  <1>a. /\ DONE = TotalSteps + 1 /\ Samples = 1..TotalSteps /\ End = 0 /\ TotalSteps \in Nat
        /\ DONE' = DONE /\ End' = End
    BY SameConfig, SameSizes, Sizes DEF PlaceInv
  <1>e. Active = 0 => gen = {}
    <2>1. IsFiniteSet(gen) /\ Cardinality(gen) \in Nat
      BY Finite DEF PlaceInv, DataInv
    <2>2. Active = 0 => Cardinality(gen) = 0
      BY <2>1 DEF Active, DataInv
    <2> QED
      BY <2>1, <2>2, FS_EmptySet
  <1>n. ASSUME Notify PROVE \/ proc' = proc
                            \/ proc = "parked" /\ proc' = "park"
                            \/ proc = "held" /\ proc' = "submit"
    BY <1>n DEF Notify
  <1> DEFINE Kept == UNCHANGED <<proc, hand, taken, gen>>
  <1>k. Kept => HandInv'
    BY <1>a
  <1>1. CASE Within(Feed)
    BY <1>1, <1>k DEF Within, Feed, trainVars, jobVars
  <1>2. CASE Within(Top)
    <2>1. CASE TakePending /\ gen' = gen
      <3>1. /\ taken' = taken + 1
            /\ \/ taken' # DONE /\ hand' = taken' /\ proc' \in {"limit", "submit"}
               \/ taken' = DONE /\ hand' = hand /\ proc' = "end" /\ gen = {}
               \/ taken' = DONE /\ hand' = hand /\ proc' = "finish"
        BY <2>1, <1>e DEF TakePending, Carry
      <3>2. hand = End /\ taken \in Nat
        BY <1>2, <1>a DEF Within, Top, Take, DataInv
      <3> QED
        BY <2>1, <3>1, <3>2, <1>a
    <2>2. CASE cancelQ # <<>> /\ Carry(Head(cancelQ)) /\ UNCHANGED <<taken, gen>>
      <3>1. Head(cancelQ) # End
        BY <2>2, <1>a, TailFacts DEF DataInv
      <3>2. hand' = Head(cancelQ) /\ proc' \in {"limit", "submit"} /\ proc = "top"
        BY <1>2, <2>2 DEF Carry, Within, Top
      <3> QED
        BY <2>2, <3>1, <3>2, <1>a
    <2>3. CASE proc' \in {"pausing", "take"} /\ UNCHANGED <<taken, hand, gen>>
      BY <1>2, <2>3, <1>a DEF Within, Top
    <2> QED
      BY <1>2, <2>1, <2>2, <2>3 DEF Within, Top
  <1>3. CASE Within(Take)
    <2>1. CASE TakePending /\ gen' = gen
      <3>1. /\ taken' = taken + 1
            /\ \/ taken' # DONE /\ hand' = taken' /\ proc' \in {"limit", "submit"}
               \/ taken' = DONE /\ hand' = hand /\ proc' = "end" /\ gen = {}
               \/ taken' = DONE /\ hand' = hand /\ proc' = "finish"
        BY <2>1, <1>e DEF TakePending, Carry
      <3>2. hand = End /\ taken \in Nat
        BY <1>3, <1>a DEF Within, Top, Take, DataInv
      <3> QED
        BY <2>1, <3>1, <3>2, <1>a
    <2> QED
      BY <1>3, <2>1 DEF Within, Take
  <1>4. CASE Within(Locked)
    <2>1. CASE proc = "submit" /\ hand' = End /\ proc' = "top" /\ taken' = taken
      BY <2>1, <1>a
    <2>2. CASE /\ UNCHANGED <<hand, gen, taken>>
               /\ \/ proc = "pausing" /\ proc' \in {"park", "drain"}
                  \/ proc = "drain" /\ proc' \in {"park", "drain"}
                  \/ proc = "park" /\ proc' \in {"parked", "top"}
                  \/ proc = "limit" /\ proc' \in {"limit", "submit"}
                  \/ proc = "submit" /\ proc' = "held"
                  \/ proc = "finish" /\ proc' = "finish"
                  \/ proc = "finish" /\ proc' = "end" /\ gen = {}
      BY <2>2, <1>a
    <2> QED
      BY <1>4, <2>1, <2>2 DEF Within, Locked, trainVars, jobVars
  <1>5. CASE Within(SendEnd)
    BY <1>5, <1>a DEF Within, SendEnd
  <1>6. CASE Within(StopRunning)
    BY <1>6, <1>k DEF Within, StopRunning, rolloutVars, trainVars, jobVars
  <1>7. CASE Within(MonitorWakes)
    BY <1>7, <1>k DEF Within, MonitorWakes, rolloutVars, trainVars, jobVars
  <1>8. CASE Within(MonitorRecovers)
    BY <1>8, <1>a, <1>n DEF Within, MonitorRecovers
  <1>9. CASE Within(MonitorChecks)
    BY <1>9, <1>k DEF Within, MonitorChecks, rolloutVars, trainVars, jobVars
  <1>10. CASE Within(PauseBegins)
    BY <1>10, <1>k DEF Within, PauseBegins, rolloutVars, trainVars, jobVars
  <1>11. CASE Within(PauseEnds)
    BY <1>11, <1>k DEF Within, PauseEnds, trainVars, jobVars
  <1>12. CASE Within(WeightsMove)
    BY <1>12, <1>k DEF Within, WeightsMove, rolloutVars, jobVars
  <1>13. CASE Within(UpdateBegins)
    BY <1>13, <1>k DEF Within, UpdateBegins, rolloutVars, trainVars, jobVars
  <1>14. CASE Within(UpdateEnds)
    BY <1>14, <1>k DEF Within, UpdateEnds, trainVars, jobVars
  <1>15. CASE Within(Resume)
    BY <1>15, <1>a, <1>n DEF Within, Resume
  <1>16. CASE Within(GetSample)
    BY <1>16, <1>k DEF Within, GetSample, rolloutVars, jobVars
  <1>17. CASE Within(Train)
    BY <1>17, <1>k DEF Within, Train, rolloutVars, jobVars
  <1>18. CASE Within(StartSync)
    BY <1>18, <1>k DEF Within, StartSync, rolloutVars, jobVars
  <1>19. CASE Within(Conclude)
    BY <1>19, <1>k DEF Within, Conclude, rolloutVars, jobVars
  <1>20. ASSUME NEW s \in Samples, Within(Generated(s)) PROVE HandInv'
    BY <1>20, <1>a DEF Within, Generated, rolloutVars
  <1>21. ASSUME NEW s \in Samples, Within(Cancelled(s)) PROVE HandInv'
    BY <1>21, <1>a DEF Within, Cancelled, rolloutVars
  <1>22. CASE Save
    BY <1>22, <1>k DEF Save, rolloutVars
  <1>23. CASE Restart
    <2>1. /\ hand' = End /\ gen' = {} /\ proc' = "top" /\ taken' = StepsOf(ckpt.version)
          /\ StepsOf(ckpt.version) < TotalSteps /\ StepsOf(ckpt.version) \in Int
      <3>1. ckpt.version \in Int /\ PerUpdate \in Nat /\ config \in Configs
        BY Sizes DEF PlaceInv, DataInv
      <3>2. StepsOf(ckpt.version) \in Int
        BY <3>1, StepsAre, TimesFacts
      <3> QED
        BY <1>23, <3>2 DEF Restart
    <2> QED
      BY <2>1, <1>a
  <1>24. CASE UNCHANGED vars
    BY <1>24, <1>k DEF vars, jobVars
  <1> QED
    BY <1>1, <1>2, <1>3, <1>4, <1>5, <1>6, <1>7, <1>8, <1>9, <1>10, <1>11, <1>12, <1>13, <1>14,
       <1>15, <1>16, <1>17, <1>18, <1>19, <1>20, <1>21, <1>22, <1>23, <1>24, Kinds

\* The end of the message queue is its last element, and the Trainer meets it last.
LEMMA EndStep ==
    ASSUME PlaceInv, DataInv, HandInv, EndInv, PhaseInv, [Next]_vars
    PROVE  EndInv'
PROOF
  <1> USE DEF EndInv
  <1>a. End' = End /\ MaxQueue' = MaxQueue /\ MaxQueue \in Nat \ {0} /\ mq \in Seq(Items) /\ Len(mq) <= MaxQueue
        /\ Len(mq) \in Nat /\ DOMAIN mq = 1..Len(mq)
    <2>1. mq \in Seq(Items) /\ Len(mq) <= MaxQueue /\ config \in Configs
      BY DEF DataInv, PlaceInv
    <2>2. MaxQueue \in Nat \ {0}
      BY <2>1, Sizes
    <2>3. Len(mq) \in Nat /\ DOMAIN mq = 1..Len(mq)
      BY <2>1
    <2> QED
      BY <2>1, <2>2, <2>3, SameConfig, SameSizes
  <1>n. ASSUME Notify PROVE /\ proc' = "stopping" <=> proc = "stopping"
                            /\ proc \in {"end", "stopping"} => proc' = proc
    BY <1>n DEF Notify
  <1>p. ASSUME NEW x \in Items, PutSample(x), proc # "stopping"
        PROVE  /\ mq' # <<>> /\ mq'[Len(mq')] = x /\ DOMAIN mq' = 1..Len(mq')
               /\ Len(mq') \in Nat /\ \A i \in 1..Len(mq') - 1 : mq'[i] # End
    <2>1. /\ mq' \in Seq(Items) /\ mq'[Len(mq')] = x
          /\ Len(mq') = IF Len(mq) >= MaxQueue THEN Len(mq) ELSE Len(mq) + 1
          /\ \A i \in 1..Len(mq') - 1 : mq'[i] = IF Len(mq) >= MaxQueue THEN mq[i + 1] ELSE mq[i]
      BY <1>p, <1>a, PutSampleIs, PutFacts
    <2>2. DOMAIN mq' = 1..Len(mq') /\ Len(mq') \in Nat
      BY <2>1
    <2>3. mq' # <<>>
      BY <2>1, <1>a
    <2>4. ASSUME NEW i \in 1..Len(mq') - 1 PROVE mq'[i] # End
      <3>1. CASE Len(mq) >= MaxQueue
        BY <2>1, <3>1, <1>a, <1>p
      <3>2. CASE ~(Len(mq) >= MaxQueue)
        BY <2>1, <3>2, <1>a, <1>p
      <3> QED
        BY <3>1, <3>2
    <2> QED
      BY <2>1, <2>2, <2>3, <2>4
  <1> DEFINE Kept == UNCHANGED <<proc, mq, trainer, batch>>
  <1>k. Kept => EndInv'
    BY <1>a DEF Ended
  <1>1. CASE Within(Feed)
    BY <1>1, <1>k DEF Within, Feed, trainVars, jobVars
  <1>2. CASE Within(Top)
    <2>1. proc = "top" /\ proc' # "stopping" /\ UNCHANGED <<mq, trainer, batch>>
      BY <1>2 DEF Within, Top, Carry, TakePending, trainVars
    <2> QED
      BY <2>1, <1>a DEF Ended
  <1>3. CASE Within(Take)
    <2>1. proc = "take" /\ proc' # "stopping" /\ UNCHANGED <<mq, trainer, batch>>
      BY <1>3 DEF Within, Take, Carry, TakePending, trainVars
    <2> QED
      BY <2>1, <1>a DEF Ended
  <1>4. CASE Within(Locked)
    <2>1. proc # "stopping" /\ proc' # "stopping" /\ UNCHANGED <<mq, trainer, batch>>
      BY <1>4 DEF Within, Locked, trainVars
    <2> QED
      BY <2>1, <1>a DEF Ended
  <1>5. CASE Within(SendEnd)
    <2>1. proc = "end" /\ proc' = "stopping" /\ PutSample(End) /\ UNCHANGED <<trainer, batch>>
      BY <1>5 DEF Within, SendEnd, trainVars
    <2>2. End \in Items
      BY DEF Items
    <2> QED
      BY <2>1, <2>2, <1>a, <1>p DEF Ended
  <1>6. CASE Within(StopRunning)
    BY <1>6, <1>k DEF Within, StopRunning, rolloutVars, trainVars, jobVars
  <1>7. CASE Within(MonitorWakes)
    BY <1>7, <1>k DEF Within, MonitorWakes, rolloutVars, trainVars, jobVars
  <1>8. CASE Within(MonitorRecovers)
    <2>1. Notify /\ UNCHANGED <<mq, trainer, batch>>
      BY <1>8 DEF Within, MonitorRecovers, trainVars
    <2> QED
      BY <2>1, <1>a, <1>n DEF Ended
  <1>9. CASE Within(MonitorChecks)
    BY <1>9, <1>k DEF Within, MonitorChecks, rolloutVars, trainVars, jobVars
  <1>10. CASE Within(PauseBegins)
    BY <1>10, <1>k DEF Within, PauseBegins, rolloutVars, trainVars, jobVars
  <1>11. CASE Within(PauseEnds)
    BY <1>11, <1>k DEF Within, PauseEnds, trainVars, jobVars
  <1>12. CASE Within(WeightsMove)
    <2>1. /\ rpc = "broadcast" /\ trainer' = (IF trainer = "sync" THEN "save" ELSE "last_wait")
          /\ UNCHANGED <<proc, mq, batch>>
      BY <1>12 DEF Within, WeightsMove, rolloutVars
    <2>2. trainer \in {"sync", "final_sync"}
      BY <2>1 DEF PhaseInv
    <2>3. Ended' <=> Ended
      BY <2>1, <2>2 DEF Ended
    <2> QED
      BY <2>1, <2>3, <1>a
  <1>13. CASE Within(UpdateBegins)
    BY <1>13, <1>k DEF Within, UpdateBegins, rolloutVars, trainVars, jobVars
  <1>14. CASE Within(UpdateEnds)
    BY <1>14, <1>k DEF Within, UpdateEnds, trainVars, jobVars
  <1>15. CASE Within(Resume)
    <2>1. Notify /\ UNCHANGED <<mq, trainer, batch>>
      BY <1>15 DEF Within, Resume, trainVars
    <2> QED
      BY <2>1, <1>a, <1>n DEF Ended
  <1>16. CASE Within(GetSample)
    <2>1. /\ trainer = "collect" /\ mq # <<>> /\ mq' = Tail(mq) /\ UNCHANGED proc
          /\ \/ Head(mq) # End /\ UNCHANGED trainer
             \/ Head(mq) = End /\ batch' = <<>> /\ trainer' = "end_wait"
      BY <1>16 DEF Within, GetSample, rolloutVars
    <2>2. /\ mq' \in Seq(Items) /\ Len(mq') = Len(mq) - 1 /\ Head(mq) = mq[1] /\ Len(mq) >= 1
          /\ \A i \in 1..Len(mq) - 1 : mq'[i] = mq[i + 1]
      BY <2>1, <1>a, TailFacts
    <2>3. DOMAIN mq' = 1..Len(mq')
      BY <2>2
    <2>4. ~Ended
      BY <2>1 DEF Ended
    <2>5. CASE Head(mq) # End /\ UNCHANGED trainer
      <3>1. ~Ended'
        BY <2>4, <2>5 DEF Ended
      <3>2. \A i \in DOMAIN mq' : mq'[i] = End <=> i = Len(mq') /\ proc' = "stopping"
        BY <2>1, <2>2, <2>3, <1>a
      <3>3. proc' = "stopping" => mq' # <<>>
        <4>1. SUFFICES ASSUME proc = "stopping" PROVE mq' # <<>>
          BY <2>1
        <4>2. mq[Len(mq)] = End
          BY <4>1, <2>2, <1>a
        <4>3. Len(mq') # 0
          BY <4>2, <2>2, <2>5, <1>a
        <4> QED
          BY <4>3
      <3> QED
        BY <3>1, <3>2, <3>3
    <2>6. CASE Head(mq) = End /\ batch' = <<>> /\ trainer' = "end_wait"
      <3>1. Len(mq) = 1 /\ proc = "stopping"
        BY <2>2, <2>6, <1>a
      <3>2. mq' = <<>>
        BY <2>2, <3>1
      <3>3. Ended'
        BY <2>6 DEF Ended
      <3> QED
        BY <2>1, <2>6, <3>1, <3>2, <3>3
    <2> QED
      BY <2>1, <2>5, <2>6
  <1>17. CASE Within(Train)
    <2>1. /\ trainer = "collect" /\ batch' = <<>> /\ trainer' \in {"collect", "wait_valid"}
          /\ UNCHANGED <<proc, mq>>
      BY <1>17 DEF Within, Train, rolloutVars
    <2>2. ~Ended /\ ~Ended'
      BY <2>1 DEF Ended
    <2> QED
      BY <2>1, <2>2, <1>a
  <1>18. CASE Within(StartSync)
    <2>1. /\ trainer \in {"wait_valid", "last_sync"}
          /\ trainer' = (IF trainer = "wait_valid" THEN "sync" ELSE "final_sync")
          /\ UNCHANGED <<proc, mq, batch>>
      BY <1>18 DEF Within, StartSync, rolloutVars
    <2>2. Ended' <=> Ended
      BY <2>1 DEF Ended
    <2> QED
      BY <2>1, <2>2, <1>a
  <1>19. CASE Within(Conclude)
    <2>1. /\ trainer = "end_wait" /\ trainer' \in {"last_sync", "done"} /\ UNCHANGED <<proc, mq, batch>>
      BY <1>19 DEF Within, Conclude, rolloutVars
    <2>2. Ended' /\ Ended
      BY <2>1 DEF Ended
    <2> QED
      BY <2>1, <2>2, <1>a
  <1>20. ASSUME NEW s \in Samples, Within(Generated(s)) PROVE EndInv'
    <2>1. s \in gen /\ PutSample(s) /\ UNCHANGED <<proc, trainer, batch>>
      BY <1>20 DEF Within, Generated, rolloutVars, trainVars
    <2>2. proc # "stopping" /\ ~Ended /\ ~Ended'
      BY <2>1 DEF HandInv, Ended
    <2>3. s \in Items /\ s # End
      BY Sizes DEF Items, PlaceInv
    <2> QED
      BY <2>1, <2>2, <2>3, <1>a, <1>p
  <1>21. ASSUME NEW s \in Samples, Within(Cancelled(s)) PROVE EndInv'
    BY <1>21, <1>k DEF Within, Cancelled, rolloutVars, trainVars, jobVars
  <1>22. CASE Save
    <2>1. /\ \/ trainer = "save" /\ trainer' = "collect"
             \/ trainer = "last_wait" /\ trainer' = "done"
          /\ UNCHANGED <<proc, mq, batch>>
      BY <1>22 DEF Save, rolloutVars
    <2>2. Ended' <=> Ended
      BY <2>1 DEF Ended
    <2> QED
      BY <2>1, <2>2, <1>a
  <1>23. CASE Restart
    <2>1. mq' = <<>> /\ proc' = "top" /\ trainer' = "collect"
      BY <1>23 DEF Restart
    <2> QED
      BY <2>1 DEF Ended
  <1>24. CASE UNCHANGED vars
    BY <1>24, <1>k DEF vars, jobVars
  <1> QED
    BY <1>1, <1>2, <1>3, <1>4, <1>5, <1>6, <1>7, <1>8, <1>9, <1>10, <1>11, <1>12, <1>13, <1>14,
       <1>15, <1>16, <1>17, <1>18, <1>19, <1>20, <1>21, <1>22, <1>23, <1>24, Kinds

\* The Trainer, the call and the versions stay in phase.
LEMMA PhaseStep ==
    ASSUME PlaceInv, DataInv, PhaseInv, [Next]_vars
    PROVE  PhaseInv'
PROOF
  <1> USE DEF PhaseInv
  <1>a. /\ PerUpdate' = PerUpdate /\ Required' = Required /\ PerUpdate \in Nat /\ Required \in Nat \ {0}
        /\ TriggerStep \in Nat \ {0} /\ PerUpdate = Times(TriggerStep, Required)
        /\ version \in Nat /\ weights \in Nat /\ current \in Nat /\ step \in 1..TriggerStep
        /\ trained \in Nat
    BY SameConfig, SameSizes, Sizes DEF PlaceInv, DataInv
  <1>p. trainer \in {"collect", "wait_valid", "sync", "save", "end_wait", "last_sync", "final_sync",
                    "last_wait", "done"}
    BY DEF PlaceInv
  <1>q. Ended <=> trainer \in {"end_wait", "last_sync", "final_sync", "last_wait", "done"}
    BY DEF Ended
  <1>r. Ended' <=> trainer' \in {"end_wait", "last_sync", "final_sync", "last_wait", "done"}
    BY DEF Ended
  <1> DEFINE Kept == UNCHANGED <<trainer, rpc, step, batch, version, weights, current, trained>>
  <1>k. Kept => PhaseInv'
    BY <1>a DEF Ended
  <1>1. CASE Within(Feed)
    BY <1>1, <1>k DEF Within, Feed, trainVars, jobVars
  <1>2. CASE Within(Top)
    BY <1>2, <1>k DEF Within, Top, trainVars, jobVars
  <1>3. CASE Within(Take)
    BY <1>3, <1>k DEF Within, Take, trainVars, jobVars
  <1>4. CASE Within(Locked)
    BY <1>4, <1>k DEF Within, Locked, trainVars, jobVars
  <1>5. CASE Within(SendEnd)
    BY <1>5, <1>k DEF Within, SendEnd, trainVars, jobVars
  <1>6. CASE Within(StopRunning)
    BY <1>6, <1>k DEF Within, StopRunning, rolloutVars, trainVars, jobVars
  <1>7. CASE Within(MonitorWakes)
    BY <1>7, <1>k DEF Within, MonitorWakes, rolloutVars, trainVars, jobVars
  <1>8. CASE Within(MonitorRecovers)
    BY <1>8, <1>k DEF Within, MonitorRecovers, trainVars, jobVars
  <1>9. CASE Within(MonitorChecks)
    BY <1>9, <1>k DEF Within, MonitorChecks, rolloutVars, trainVars, jobVars
  <1>10. CASE Within(PauseBegins)
    <2>1. rpc = "pause" /\ rpc' = "gather" /\ UNCHANGED <<trainer, step, batch, version, weights, trained, current>>
      BY <1>10 DEF Within, PauseBegins, rolloutVars, trainVars
    <2> QED
      BY <2>1, <1>a, <1>q, <1>r
  <1>11. CASE Within(PauseEnds)
    <2>1. rpc = "gather" /\ rpc' = "broadcast" /\ UNCHANGED <<trainer, step, batch, version, weights, trained, current>>
      BY <1>11 DEF Within, PauseEnds, trainVars
    <2> QED
      BY <2>1, <1>a, <1>q, <1>r
  <1>12. CASE Within(WeightsMove)
    <2>1. /\ rpc = "broadcast" /\ rpc' = "update" /\ weights' = version
          /\ trainer' = (IF trainer = "sync" THEN "save" ELSE "last_wait")
          /\ UNCHANGED <<step, batch, version, trained, current>>
      BY <1>12 DEF Within, WeightsMove, rolloutVars
    <2>2. trainer \in {"sync", "final_sync"}
      BY <2>1
    <2> QED
      BY <2>1, <2>2, <1>a, <1>q, <1>r
  <1>13. CASE Within(UpdateBegins)
    <2>1. rpc = "update" /\ rpc' = "count" /\ current' = weights
          /\ UNCHANGED <<trainer, step, batch, version, weights, trained>>
      BY <1>13 DEF Within, UpdateBegins, rolloutVars, trainVars
    <2> QED
      BY <2>1, <1>a, <1>q, <1>r
  <1>14. CASE Within(UpdateEnds)
    <2>1. rpc = "count" /\ rpc' = "resume" /\ UNCHANGED <<trainer, step, batch, version, weights, trained, current>>
      BY <1>14 DEF Within, UpdateEnds, trainVars
    <2> QED
      BY <2>1, <1>a, <1>q, <1>r
  <1>15. CASE Within(Resume)
    <2>1. rpc = "resume" /\ rpc' = "idle" /\ UNCHANGED <<trainer, step, batch, version, weights, trained, current>>
      BY <1>15 DEF Within, Resume, trainVars
    <2> QED
      BY <2>1, <1>a, <1>q, <1>r
  <1>16. CASE Within(GetSample)
    <2>1. /\ trainer = "collect" /\ trainer' \in {"collect", "end_wait"}
          /\ UNCHANGED <<rpc, step, version, weights, trained, current>>
      BY <1>16 DEF Within, GetSample, rolloutVars
    <2> QED
      BY <2>1, <1>a, <1>q, <1>r
  <1>17. CASE Within(Train)
    <2>1. /\ trainer = "collect" /\ batch' = <<>> /\ trained' = trained + Required
          /\ \/ step < TriggerStep /\ step' = step + 1 /\ UNCHANGED <<version, trainer>>
             \/ step >= TriggerStep /\ step' = 1 /\ version' = version + 1 /\ trainer' = "wait_valid"
          /\ UNCHANGED <<rpc, weights, current>>
      BY <1>17 DEF Within, Train, rolloutVars
    <2>2. trained = Times(version, PerUpdate) + Times(step - 1, Required)
      BY <2>1, <1>q
    <2>3. /\ Times(step, Required) = Times(step - 1, Required) + Required
          /\ Times(step, Required) \in Nat
      <3>1. step \in Int /\ Required \in Nat
        BY <1>a
      <3>2. step \in Nat
        BY <1>a
      <3>3. Times(step - 1, Required) = Times(step, Required) - Required /\ Times(step, Required) \in Nat
        BY <3>1, <3>2, TimesFacts
      <3> QED
        BY <3>1, <3>3
    <2>4. Times(version + 1, PerUpdate) = Times(version, PerUpdate) + PerUpdate
      BY <1>a, TimesFacts
    <2>5. Times(0, Required) = 0 /\ Times(version, PerUpdate) \in Nat /\ Times(step - 1, Required) \in Int
      <3>1. 0 \in Int /\ version \in Int /\ step - 1 \in Int /\ Required \in Nat
        BY <1>a
      <3>2. Times(0, Required) = 0 /\ Times(step - 1, Required) \in Int
        BY <3>1, TimesFacts
      <3>3. Times(version, PerUpdate) \in Nat
        BY <3>1, <1>a, TimesFacts
      <3> QED
        BY <3>2, <3>3
    <2>6. trained' = Times(version', PerUpdate) + Times(step' - 1, Required)
      <3>1. CASE step < TriggerStep /\ step' = step + 1 /\ version' = version
        <4>1. step' - 1 = step
          BY <3>1, <1>a
        <4> QED
          BY <2>1, <2>2, <2>3, <2>5, <3>1, <4>1, <1>a
      <3>2. CASE step >= TriggerStep /\ step' = 1 /\ version' = version + 1
        <4>1. step = TriggerStep /\ step' - 1 = 0
          BY <3>2, <1>a
        <4> QED
          BY <2>1, <2>2, <2>3, <2>4, <2>5, <3>2, <4>1, <1>a, SMTT(30)
      <3> QED
        BY <2>1, <3>1, <3>2
    <2>7. rpc \notin {"pause", "gather", "broadcast"}
      BY <2>1
    <2> QED
      BY <2>1, <2>6, <2>7, <1>a, <1>q, <1>r
  <1>18. CASE Within(StartSync)
    <2>1. /\ rpc = "idle" /\ rpc' = "pause" /\ trainer \in {"wait_valid", "last_sync"}
          /\ trainer' = (IF trainer = "wait_valid" THEN "sync" ELSE "final_sync")
          /\ UNCHANGED <<step, batch, version, weights, trained, current>>
      BY <1>18 DEF Within, StartSync, rolloutVars
    <2> QED
      BY <2>1, <1>a, <1>q, <1>r
  <1>19. CASE Within(Conclude)
    <2>1. /\ rpc = "idle" /\ trainer = "end_wait" /\ UNCHANGED <<rpc, weights, current>>
          /\ \/ trainer' = "last_sync" /\ version' = version + 1
             \/ trainer' = "done" /\ version' = version
      BY <1>19 DEF Within, Conclude, rolloutVars
    <2> QED
      BY <2>1, <1>a, <1>q, <1>r
  <1>20. ASSUME NEW s \in Samples, Within(Generated(s)) PROVE PhaseInv'
    BY <1>20, <1>k DEF Within, Generated, rolloutVars, trainVars, jobVars
  <1>21. ASSUME NEW s \in Samples, Within(Cancelled(s)) PROVE PhaseInv'
    BY <1>21, <1>k DEF Within, Cancelled, rolloutVars, trainVars, jobVars
  <1>22. CASE Save
    <2>1. /\ \/ trainer = "save" /\ trainer' = "collect"
             \/ trainer = "last_wait" /\ trainer' = "done"
          /\ UNCHANGED <<rpc, step, batch, version, weights, trained, current>>
      BY <1>22 DEF Save, rolloutVars
    <2> QED
      BY <2>1, <1>a, <1>q, <1>r
  <1>23. CASE Restart
    <2>1. /\ rpc' = "idle" /\ trainer' = "collect" /\ step' = 1 /\ batch' = <<>>
          /\ version' = ckpt.version /\ weights' = ckpt.version /\ current' = ckpt.version
          /\ trained' = StepsOf(ckpt.version)
      BY <1>23 DEF Restart
    <2>2. ckpt.version \in Int /\ config \in Configs
      BY DEF DataInv, PlaceInv
    <2>3. trained' = Times(ckpt.version, PerUpdate) + Times(0, Required)
      <3>1. Times(ckpt.version, PerUpdate) \in Int /\ Times(0, Required) = 0
        BY <2>2, <1>a, TimesFacts
      <3> QED
        BY <2>1, <2>2, <3>1, StepsAre
    <2> QED
      BY <2>1, <2>2, <2>3, <1>a, <1>q, <1>r
  <1>24. CASE UNCHANGED vars
    BY <1>24, <1>k DEF vars, jobVars
  <1> QED
    BY <1>1, <1>2, <1>3, <1>4, <1>5, <1>6, <1>7, <1>8, <1>9, <1>10, <1>11, <1>12, <1>13, <1>14,
       <1>15, <1>16, <1>17, <1>18, <1>19, <1>20, <1>21, <1>22, <1>23, <1>24, Kinds

\* No step puts a sample in two places.
LEMMA OneplaceStep ==
    ASSUME PlaceInv, DataInv, HandInv, OneplaceInv, [Next]_vars
    PROVE  OneplaceInv'
PROOF
  <1> USE DEF OneplaceInv
  <1>a. /\ TotalSteps' = TotalSteps /\ DONE' = DONE /\ End' = End /\ DONE = TotalSteps + 1 /\ End = 0
        /\ TotalSteps \in Nat /\ taken \in 0..DONE
        /\ cancelQ \in Seq(Samples) /\ Len(cancelQ) \in Nat /\ DOMAIN cancelQ = 1..Len(cancelQ)
    <2>1. cancelQ \in Seq(Samples) /\ config \in Configs /\ taken \in 0..fed /\ fed \in 0..DONE
      BY DEF DataInv, PlaceInv
    <2>2. Len(cancelQ) \in Nat /\ DOMAIN cancelQ = 1..Len(cancelQ)
      BY <2>1
    <2>3. DONE = TotalSteps + 1 /\ End = 0 /\ TotalSteps \in Nat
      BY <2>1, Sizes
    <2>4. taken \in 0..DONE
      BY <2>1, <2>3
    <2> QED
      BY <2>1, <2>2, <2>3, <2>4, SameConfig, SameSizes
  <1>b. 0 \notin Taken /\ \A i \in DOMAIN cancelQ : cancelQ[i] # End
    BY <1>a DEF Taken
  <1> DEFINE Kept == UNCHANGED <<taken, hand, gen, cancelQ>>
  <1>k. Kept => OneplaceInv'
    BY <1>a DEF Taken
  <1>1. CASE Within(Feed)
    BY <1>1, <1>k DEF Within, Feed, trainVars, jobVars
  <1>2. CASE Within(Top)
    <2>1. CASE TakePending /\ UNCHANGED <<gen, cancelQ>>
      <3>1. /\ taken' = taken + 1 /\ taken < fed
            /\ \/ taken' # DONE /\ hand' = taken'
               \/ taken' = DONE /\ hand' = hand
        BY <2>1 DEF TakePending, Carry
      <3>2. Taken \subseteq Taken'
        BY <3>1, <1>a DEF Taken
      <3>3. CASE taken' # DONE /\ hand' = taken'
        <4>1. taken' \in Taken' /\ taken' \notin Taken
          BY <3>1, <3>3, <1>a DEF Taken, DataInv
        <4> QED
          BY <2>1, <3>2, <3>3, <4>1, <1>a
      <3>4. CASE taken' = DONE /\ hand' = hand
        BY <2>1, <3>2, <3>4, <1>a
      <3> QED
        BY <3>1, <3>3, <3>4
    <2>2. CASE cancelQ # <<>> /\ hand' = Head(cancelQ) /\ cancelQ' = Tail(cancelQ)
               /\ UNCHANGED <<taken, gen>>
      <3>1. /\ hand' = cancelQ[1] /\ Len(cancelQ') = Len(cancelQ) - 1 /\ Len(cancelQ) >= 1
            /\ cancelQ' \in Seq(Samples)
            /\ \A i \in 1..Len(cancelQ) - 1 : cancelQ'[i] = cancelQ[i + 1]
        BY <2>2, <1>a, TailFacts
      <3>2. DOMAIN cancelQ' = 1..Len(cancelQ) - 1
        BY <3>1
      <3>3. Taken' = Taken
        BY <2>2, <1>a DEF Taken
      <3>4. hand' \in Taken' /\ hand' \notin gen'
        BY <2>2, <3>1, <3>3, <1>a
      <3>5. ASSUME NEW i \in DOMAIN cancelQ'
            PROVE  cancelQ'[i] \in Taken' /\ cancelQ'[i] # hand' /\ cancelQ'[i] \notin gen'
        <4>1. i + 1 \in DOMAIN cancelQ /\ 1 \in DOMAIN cancelQ /\ i + 1 # 1 /\ cancelQ'[i] = cancelQ[i + 1]
          BY <3>1, <3>2, <1>a
        <4> QED
          BY <2>2, <3>1, <3>3, <4>1
      <3>6. ASSUME NEW i \in DOMAIN cancelQ', NEW j \in DOMAIN cancelQ', cancelQ'[i] = cancelQ'[j]
            PROVE  i = j
        <4>1. /\ i + 1 \in DOMAIN cancelQ /\ j + 1 \in DOMAIN cancelQ
              /\ cancelQ[i + 1] = cancelQ[j + 1] /\ i \in Int /\ j \in Int
          BY <3>1, <3>2, <3>6, <1>a
        <4>2. i + 1 = j + 1
          BY <4>1
        <4> QED
          BY <4>1, <4>2
      <3> QED
        BY <2>2, <3>3, <3>4, <3>5, <3>6
    <2>3. CASE UNCHANGED <<taken, hand, cancelQ, gen>>
      BY <2>3, <1>k
    <2> QED
      BY <1>2, <2>1, <2>2, <2>3 DEF Within, Top, Carry
  <1>3. CASE Within(Take)
    <2>1. CASE TakePending /\ UNCHANGED <<gen, cancelQ>>
      <3>1. /\ taken' = taken + 1 /\ taken < fed
            /\ \/ taken' # DONE /\ hand' = taken'
               \/ taken' = DONE /\ hand' = hand
        BY <2>1 DEF TakePending, Carry
      <3>2. Taken \subseteq Taken'
        BY <3>1, <1>a DEF Taken
      <3>3. CASE taken' # DONE /\ hand' = taken'
        <4>1. taken' \in Taken' /\ taken' \notin Taken
          BY <3>1, <3>3, <1>a DEF Taken, DataInv
        <4> QED
          BY <2>1, <3>2, <3>3, <4>1, <1>a
      <3>4. CASE taken' = DONE /\ hand' = hand
        BY <2>1, <3>2, <3>4, <1>a
      <3> QED
        BY <3>1, <3>3, <3>4
    <2> QED
      BY <1>3, <2>1 DEF Within, Take
  <1>4. CASE Within(Locked)
    <2>1. CASE hand' = End /\ gen' = gen \cup {hand} /\ UNCHANGED <<taken, cancelQ>> /\ hand \in Taken
      <3>1. Taken' = Taken
        BY <2>1, <1>a DEF Taken
      <3> QED
        BY <2>1, <3>1, <1>a, <1>b
    <2>2. CASE UNCHANGED <<taken, hand, cancelQ, gen>>
      BY <2>2, <1>k
    <2>3. proc = "submit" => hand \in Taken
      BY DEF HandInv
    <2> QED
      BY <1>4, <2>1, <2>2, <2>3 DEF Within, Locked
  <1>5. CASE Within(SendEnd)
    BY <1>5, <1>k DEF Within, SendEnd, trainVars, jobVars
  <1>6. CASE Within(StopRunning)
    BY <1>6, <1>k DEF Within, StopRunning, rolloutVars, trainVars, jobVars
  <1>7. CASE Within(MonitorWakes)
    BY <1>7, <1>k DEF Within, MonitorWakes, rolloutVars, trainVars, jobVars
  <1>8. CASE Within(MonitorRecovers)
    BY <1>8, <1>k DEF Within, MonitorRecovers, trainVars, jobVars
  <1>9. CASE Within(MonitorChecks)
    BY <1>9, <1>k DEF Within, MonitorChecks, rolloutVars, trainVars, jobVars
  <1>10. CASE Within(PauseBegins)
    BY <1>10, <1>k DEF Within, PauseBegins, rolloutVars, trainVars, jobVars
  <1>11. CASE Within(PauseEnds)
    BY <1>11, <1>k DEF Within, PauseEnds, trainVars, jobVars
  <1>12. CASE Within(WeightsMove)
    BY <1>12, <1>k DEF Within, WeightsMove, rolloutVars, jobVars
  <1>13. CASE Within(UpdateBegins)
    BY <1>13, <1>k DEF Within, UpdateBegins, rolloutVars, trainVars, jobVars
  <1>14. CASE Within(UpdateEnds)
    BY <1>14, <1>k DEF Within, UpdateEnds, trainVars, jobVars
  <1>15. CASE Within(Resume)
    BY <1>15, <1>k DEF Within, Resume, trainVars, jobVars
  <1>16. CASE Within(GetSample)
    BY <1>16, <1>k DEF Within, GetSample, rolloutVars, jobVars
  <1>17. CASE Within(Train)
    BY <1>17, <1>k DEF Within, Train, rolloutVars, jobVars
  <1>18. CASE Within(StartSync)
    BY <1>18, <1>k DEF Within, StartSync, rolloutVars, jobVars
  <1>19. CASE Within(Conclude)
    BY <1>19, <1>k DEF Within, Conclude, rolloutVars, jobVars
  <1>20. ASSUME NEW s \in Samples, Within(Generated(s)) PROVE OneplaceInv'
    <2>1. gen' = gen \ {s} /\ UNCHANGED <<taken, hand, cancelQ>>
      BY <1>20 DEF Within, Generated, rolloutVars
    <2> QED
      BY <2>1, <1>a DEF Taken
  <1>21. ASSUME NEW s \in Samples, Within(Cancelled(s)) PROVE OneplaceInv'
    <2>1. s \in gen /\ gen' = gen \ {s} /\ cancelQ' = Append(cancelQ, s) /\ UNCHANGED <<taken, hand>>
      BY <1>21 DEF Within, Cancelled, rolloutVars
    <2>2. /\ cancelQ' \in Seq(Samples) /\ Len(cancelQ') = Len(cancelQ) + 1 /\ cancelQ'[Len(cancelQ) + 1] = s
          /\ \A i \in 1..Len(cancelQ) : cancelQ'[i] = cancelQ[i]
      BY <2>1, <1>a, AppendFacts
    <2>3. DOMAIN cancelQ' = 1..Len(cancelQ) + 1
      BY <2>2, <1>a
    <2>4. Taken' = Taken
      BY <2>1, <1>a DEF Taken
    <2>5. ASSUME NEW i \in DOMAIN cancelQ'
          PROVE  cancelQ'[i] \in Taken' /\ cancelQ'[i] # hand' /\ cancelQ'[i] \notin gen'
      BY <2>1, <2>2, <2>3, <2>4, <1>a
    <2>6. ASSUME NEW i \in DOMAIN cancelQ', NEW j \in DOMAIN cancelQ', cancelQ'[i] = cancelQ'[j]
          PROVE  i = j
      BY <2>1, <2>2, <2>3, <2>6, <1>a
    <2> QED
      BY <2>1, <2>4, <2>5, <2>6, <1>a
  <1>22. CASE Save
    BY <1>22, <1>k DEF Save, rolloutVars
  <1>23. CASE Restart
    <2>1. gen' = {} /\ hand' = End /\ cancelQ' = <<>>
      BY <1>23 DEF Restart
    <2> QED
      BY <2>1, <1>a
  <1>24. CASE UNCHANGED vars
    BY <1>24, <1>k DEF vars, jobVars
  <1> QED
    BY <1>1, <1>2, <1>3, <1>4, <1>5, <1>6, <1>7, <1>8, <1>9, <1>10, <1>11, <1>12, <1>13, <1>14,
       <1>15, <1>16, <1>17, <1>18, <1>19, <1>20, <1>21, <1>22, <1>23, <1>24, Kinds

-----------------------------------------------------------------------------
(* How far ahead the Rollouter is, step by step.                           *)

Basics == PlaceInv /\ LockInv /\ DataInv /\ HandInv /\ EndInv /\ PhaseInv /\ OneplaceInv

\* The counts are naturals, and the whole is not less than its parts.
LEMMA AheadTypes ==
    ASSUME Basics
    PROVE  /\ Cardinality(gen) \in Nat /\ Len(cancelQ) \in Nat /\ Len(mq) \in Nat /\ Queued \in Nat
           /\ Ahead \in Nat /\ Cardinality(gen) + Len(cancelQ) + Queued <= Ahead
           /\ Queued <= Len(mq) /\ (proc # "stopping" => ~Ended /\ Queued = Len(mq))
           /\ Ahead <= Cardinality(gen) + Len(cancelQ) + Queued + 1
           /\ Len(batch) \in Nat /\ Len(mq) <= MaxQueue
PROOF
  <1>1. Cardinality(gen) \in Nat
    BY Finite DEF Basics, PlaceInv, DataInv
  <1>2. mq \in Seq(Items) /\ cancelQ \in Seq(Samples) /\ batch \in Seq(Samples) /\ Len(mq) <= MaxQueue
    BY DEF Basics, DataInv
  <1>3. Len(mq) \in Nat /\ Len(cancelQ) \in Nat /\ Len(batch) \in Nat /\ (mq # <<>> => Len(mq) >= 1)
    BY <1>2
  <1>4. /\ proc = "stopping" /\ ~Ended => mq # <<>>
        /\ proc # "stopping" => ~Ended
    BY DEF Basics, EndInv
  <1>5. Queued \in Nat /\ Queued <= Len(mq) /\ (proc # "stopping" => Queued = Len(mq))
    BY <1>3, <1>4 DEF Queued
  <1> QED
    BY <1>1, <1>2, <1>3, <1>4, <1>5 DEF Ahead

\* What leaves the samples where they are leaves the counts alone.
LEMMA AheadKept ==
    ASSUME UNCHANGED <<gen, cancelQ, mq, hand>>, proc' = "stopping" <=> proc = "stopping",
           Ended' <=> Ended
    PROVE  Ahead' = Ahead /\ Queued' = Queued
PROOF
  BY DEF Ahead, Queued, End

\* The processor takes the next item: a sample more, or the end signal.
LEMMA AheadTakes ==
    ASSUME Basics, config' = config, TakePending, proc \in {"top", "take"},
           UNCHANGED <<gen, cancelQ, mq, trainer>>
    PROVE  /\ taken' = taken + 1 /\ taken < DONE /\ staleness' = staleness + 1
           /\ proc' \notin {"take", "stopping"}
           /\ taken' # DONE => Ahead' = Ahead + 1 /\ hand' # End
           /\ taken' = DONE => Ahead' = Ahead /\ hand' = End
           /\ hand = End
PROOF
  <1>1. /\ taken' = taken + 1 /\ staleness' = staleness + 1
        /\ proc' \in {"limit", "submit", "end", "finish"}
        /\ taken < fed
        /\ taken' # DONE => hand' = taken'
        /\ taken' = DONE => hand' = hand
    BY DEF TakePending, Carry
  <1>2. hand = End /\ taken \in 0..fed /\ fed \in 0..DONE /\ config \in Configs
    BY DEF Basics, HandInv, DataInv, PlaceInv
  <1>3. End = 0 /\ DONE \in Nat
    BY <1>2, Sizes
  <1>4. proc' # "stopping" /\ proc # "stopping" /\ Ended' = Ended /\ proc' # "take"
    BY <1>1 DEF Ended
  <1>5. Queued' = Queued
    BY <1>4 DEF Queued
  <1>6. Cardinality(gen) \in Nat /\ Len(cancelQ) \in Nat /\ Queued \in Nat
    BY AheadTypes
  <1>7. taken < DONE
    BY <1>1, <1>2, <1>3
  <1>8. taken' # DONE => hand' # End
    BY <1>1, <1>2, <1>3
  <1>9. Ahead' = Cardinality(gen) + Len(cancelQ) + Queued + (IF hand' = End THEN 0 ELSE 1)
    BY <1>5 DEF Ahead, End
  <1> QED
    BY <1>1, <1>2, <1>4, <1>6, <1>7, <1>8, <1>9 DEF Ahead

\* The processor takes back an interrupted sample.
LEMMA AheadPops ==
    ASSUME Basics, proc = "top", cancelQ # <<>>, Carry(Head(cancelQ)), cancelQ' = Tail(cancelQ),
           UNCHANGED <<gen, mq, trainer>>
    PROVE  Ahead' = Ahead /\ hand' # End
PROOF
  <1>1. cancelQ \in Seq(Samples) /\ hand = End /\ config \in Configs
    BY DEF Basics, DataInv, HandInv, PlaceInv
  <1>2. Len(cancelQ') = Len(cancelQ) - 1 /\ Head(cancelQ) \in Samples
    BY <1>1, TailFacts
  <1>3. Head(cancelQ) # End
    BY <1>1, <1>2, Sizes
  <1>4. hand' = Head(cancelQ) /\ proc' # "stopping"
    BY DEF Carry
  <1>5. Queued' = Queued
    BY <1>4 DEF Queued, Ended
  <1>6. Cardinality(gen) \in Nat /\ Len(cancelQ) \in Nat /\ Queued \in Nat
    BY AheadTypes
  <1> QED
    BY <1>1, <1>2, <1>3, <1>4, <1>5, <1>6 DEF Ahead, End

\* The sample in hand is submitted.
LEMMA AheadSubmits ==
    ASSUME Basics, proc = "submit", proc' = "top", gen' = gen \cup {hand}, hand' = End,
           UNCHANGED <<cancelQ, mq, trainer>>
    PROVE  Ahead' = Ahead /\ Cardinality(gen') = Cardinality(gen) + 1
PROOF
  <1>1. hand # End /\ hand \notin gen /\ config \in Configs /\ gen \subseteq Samples
    BY DEF Basics, HandInv, OneplaceInv, PlaceInv, DataInv
  <1>2. Cardinality(gen') = Cardinality(gen) + 1
    BY <1>1, Finite, FS_AddElement
  <1>3. Queued' = Queued
    BY DEF Queued, Ended
  <1>4. Cardinality(gen) \in Nat /\ Len(cancelQ) \in Nat /\ Queued \in Nat
    BY AheadTypes
  <1> QED
    BY <1>1, <1>2, <1>3, <1>4 DEF Ahead, End

\* A task that leaves is one task less.
LEMMA OneLess ==
    ASSUME Basics, NEW s \in gen, gen' = gen \ {s}
    PROVE  Cardinality(gen') = Cardinality(gen) - 1
PROOF
  <1>1. config \in Configs /\ gen \subseteq Samples
    BY DEF Basics, PlaceInv, DataInv
  <1> QED
    BY <1>1, Finite, FS_RemoveElement

\* What is put in the queue: one element more, unless it is full.
LEMMA Puts ==
    ASSUME Basics, NEW x \in Items, PutSample(x)
    PROVE  \/ Len(mq) < MaxQueue /\ Len(mq') = Len(mq) + 1 /\ dropped' = dropped
           \/ Len(mq) = MaxQueue /\ Len(mq') = Len(mq) /\ dropped' = dropped + 1
PROOF
  <1>1. mq \in Seq(Items) /\ Len(mq) <= MaxQueue /\ config \in Configs
    BY DEF Basics, PlaceInv, DataInv
  <1>2. MaxQueue \in Nat \ {0}
    BY <1>1, Sizes
  <1>3. /\ Len(mq') = IF Len(mq) >= MaxQueue THEN Len(mq) ELSE Len(mq) + 1
        /\ dropped' = IF Len(mq) >= MaxQueue THEN dropped + 1 ELSE dropped
    BY <1>1, <1>2, PutSampleIs, PutFacts
  <1>4. Len(mq) \in Nat
    BY <1>1
  <1> QED
    BY <1>1, <1>2, <1>3, <1>4

\* A finished sample moves to the queue, where it may push another out.
LEMMA AheadGenerates ==
    ASSUME Basics, NEW s \in gen, gen' = gen \ {s}, PutSample(s),
           UNCHANGED <<hand, proc, cancelQ, trainer>>
    PROVE  /\ proc # "stopping" /\ Cardinality(gen') = Cardinality(gen) - 1
           /\ \/ Len(mq) < MaxQueue /\ Len(mq') = Len(mq) + 1 /\ dropped' = dropped /\ Ahead' = Ahead
              \/ Len(mq) = MaxQueue /\ Len(mq') = Len(mq) /\ dropped' = dropped + 1 /\ Ahead' = Ahead - 1
PROOF
  <1>1. proc # "stopping" /\ s \in Items
    BY DEF Basics, HandInv, DataInv, Items
  <1>2. Cardinality(gen') = Cardinality(gen) - 1
    BY OneLess
  <1>3. \/ Len(mq) < MaxQueue /\ Len(mq') = Len(mq) + 1 /\ dropped' = dropped
        \/ Len(mq) = MaxQueue /\ Len(mq') = Len(mq) /\ dropped' = dropped + 1
    BY <1>1, Puts
  <1>4. Queued = Len(mq) /\ Queued' = Len(mq')
    BY <1>1, AheadTypes DEF Queued
  <1>5. Cardinality(gen) \in Nat /\ Len(cancelQ) \in Nat /\ Len(mq) \in Nat
    BY AheadTypes
  <1>6. Ahead = Cardinality(gen) + Len(cancelQ) + Len(mq) + (IF hand = End THEN 0 ELSE 1)
    BY <1>4 DEF Ahead
  <1>7. Ahead' = Cardinality(gen) - 1 + Len(cancelQ) + Len(mq') + (IF hand = End THEN 0 ELSE 1)
    BY <1>2, <1>4 DEF Ahead, End
  <1>8. Ahead' = Ahead - 1 + (Len(mq') - Len(mq))
    BY <1>3, <1>5, <1>6, <1>7
  <1> QED
    BY <1>1, <1>2, <1>3, <1>5, <1>8, AheadTypes

\* An interrupted sample is put back.
LEMMA AheadCancels ==
    ASSUME Basics, NEW s \in gen, gen' = gen \ {s}, cancelQ' = Append(cancelQ, s),
           UNCHANGED <<hand, proc, mq, trainer>>
    PROVE  /\ Ahead' = Ahead /\ Len(cancelQ') = Len(cancelQ) + 1
           /\ Cardinality(gen') = Cardinality(gen) - 1
PROOF
  <1>1. cancelQ \in Seq(Samples) /\ s \in Samples
    BY DEF Basics, DataInv
  <1>2. Cardinality(gen') = Cardinality(gen) - 1
    BY OneLess
  <1>3. Len(cancelQ') = Len(cancelQ) + 1
    BY <1>1, AppendFacts
  <1>4. Queued' = Queued
    BY DEF Queued, Ended
  <1>5. Cardinality(gen) \in Nat /\ Len(cancelQ) \in Nat /\ Queued \in Nat
    BY AheadTypes
  <1> QED
    BY <1>2, <1>3, <1>4, <1>5 DEF Ahead, End

\* The end of the stream is put in the queue, where it may push a sample out.
LEMMA AheadEnds ==
    ASSUME Basics, proc = "end", proc' = "stopping", PutSample(End),
           UNCHANGED <<hand, gen, cancelQ, trainer>>
    PROVE  /\ ~Ended
           /\ \/ Len(mq) < MaxQueue /\ Len(mq') = Len(mq) + 1 /\ dropped' = dropped /\ Ahead' = Ahead
              \/ Len(mq) = MaxQueue /\ Len(mq') = Len(mq) /\ dropped' = dropped + 1 /\ Ahead' = Ahead - 1
PROOF
  <1>1. End \in Items
    BY DEF Items
  <1>3. \/ Len(mq) < MaxQueue /\ Len(mq') = Len(mq) + 1 /\ dropped' = dropped
        \/ Len(mq) = MaxQueue /\ Len(mq') = Len(mq) /\ dropped' = dropped + 1
    BY <1>1, Puts
  <1>4. ~Ended /\ Queued = Len(mq)
    BY AheadTypes
  <1>5. Queued' = Len(mq') - 1
    BY <1>4 DEF Queued, Ended
  <1>6. Cardinality(gen) \in Nat /\ Len(cancelQ) \in Nat /\ Len(mq) \in Nat
    BY AheadTypes
  <1> QED
    BY <1>3, <1>4, <1>5, <1>6 DEF Ahead, End

\* The Trainer takes a sample, or meets the end of the stream.
LEMMA AheadGets ==
    ASSUME Basics, Within(GetSample)
    PROVE  /\ ~Ended /\ trainer = "collect"
           /\ \/ /\ ~Ended' /\ Ahead' = Ahead - 1 /\ batch' = Append(batch, mq[1])
                 /\ Len(batch') = Len(batch) + 1 /\ mq[1] # End /\ mq[1] \in Samples
              \/ /\ Ended' /\ trainer' = "end_wait" /\ Ahead' = Ahead /\ batch' = <<>>
                 /\ gen = {} /\ hand = End /\ taken = DONE /\ Ahead = Len(cancelQ)
PROOF
  <1>1. /\ trainer = "collect" /\ Len(batch) < Required /\ mq # <<>> /\ mq' = Tail(mq)
        /\ UNCHANGED <<hand, proc, gen, cancelQ>>
        /\ \/ Head(mq) # End /\ batch' = Append(batch, Head(mq)) /\ UNCHANGED trainer
           \/ Head(mq) = End /\ batch' = <<>> /\ trainer' = "end_wait"
    BY DEF Within, GetSample, rolloutVars
  <1>2. mq \in Seq(Items) /\ batch \in Seq(Samples)
    BY DEF Basics, DataInv
  <1>3. /\ Len(mq') = Len(mq) - 1 /\ Head(mq) = mq[1] /\ Head(mq) \in Items /\ Len(mq) >= 1
        /\ Len(mq) \in Nat
    BY <1>1, <1>2, TailFacts
  <1>4. ~Ended
    BY <1>1 DEF Ended
  <1>5. Cardinality(gen) \in Nat /\ Len(cancelQ) \in Nat
    BY AheadTypes
  <1>6. CASE Head(mq) # End /\ batch' = Append(batch, Head(mq)) /\ UNCHANGED trainer
    <2>1. ~Ended'
      BY <1>4, <1>6 DEF Ended
    <2>2. Queued' = Queued - 1 /\ Queued \in Int
      BY <1>1, <1>3, <1>4, <2>1 DEF Queued
    <2>3. Head(mq) \in Samples
      BY <1>3, <1>6 DEF Items
    <2>4. Len(batch') = Len(batch) + 1
      BY <1>2, <1>6, <2>3, AppendFacts
    <2>5. Ahead' = Ahead - 1
      BY <1>1, <1>5, <2>2 DEF Ahead, End
    <2> QED
      BY <1>1, <1>3, <1>4, <1>6, <2>1, <2>3, <2>4, <2>5
  <1>7. CASE Head(mq) = End /\ batch' = <<>> /\ trainer' = "end_wait"
    <2>1. Ended'
      BY <1>7 DEF Ended
    <2>2. 1 \in DOMAIN mq /\ mq[1] = End
      BY <1>2, <1>3, <1>7
    <2>3. proc = "stopping" /\ Len(mq) = 1
      BY <2>2 DEF Basics, EndInv
    <2>4. Queued = 0 /\ Queued' = 0
      BY <1>1, <1>3, <1>4, <2>1, <2>3 DEF Queued
    <2>5. gen = {} /\ hand = End /\ taken = DONE
      BY <2>3 DEF Basics, HandInv
    <2>6. Cardinality(gen) = 0
      BY <2>5, FS_EmptySet
    <2> QED
      BY <1>1, <1>4, <1>5, <1>7, <2>1, <2>4, <2>5, <2>6 DEF Ahead, End
  <1> QED
    BY <1>1, <1>6, <1>7

\* The steps that move no sample.
Bystanders ==
    \/ Within(Feed) \/ Within(StopRunning)
    \/ Within(MonitorWakes) \/ Within(MonitorRecovers) \/ Within(MonitorChecks)
    \/ Within(PauseBegins) \/ Within(PauseEnds) \/ Within(WeightsMove)
    \/ Within(UpdateBegins) \/ Within(UpdateEnds) \/ Within(Resume)
    \/ Within(StartSync) \/ Within(Conclude) \/ Save \/ UNCHANGED vars

\* They leave every sample where it is.
LEMMA BystandersKeep ==
    ASSUME Basics, Bystanders
    PROVE  /\ UNCHANGED <<taken, hand, gen, cancelQ, mq, dropped, batch, trained, from, tag>>
           /\ Ended' <=> Ended
           /\ proc' = "stopping" <=> proc = "stopping"
           /\ proc' = "take" <=> proc = "take"
           /\ Ahead' = Ahead
PROOF
  <1>n. ASSUME Notify
        PROVE  /\ proc' = "stopping" <=> proc = "stopping"
               /\ proc' = "take" <=> proc = "take"
    BY <1>n DEF Notify
  <1>1. UNCHANGED <<taken, hand, gen, cancelQ, mq, dropped, batch, trained, from, tag>>
    BY DEF Bystanders, Within, Feed, StopRunning, MonitorWakes, MonitorRecovers, MonitorChecks,
           PauseBegins, PauseEnds, WeightsMove, UpdateBegins, UpdateEnds, Resume, StartSync,
           Conclude, Save, vars, rolloutVars, trainVars
  <1>2. UNCHANGED proc \/ Notify
    BY DEF Bystanders, Within, Feed, StopRunning, MonitorWakes, MonitorRecovers, MonitorChecks,
           PauseBegins, PauseEnds, WeightsMove, UpdateBegins, UpdateEnds, Resume, StartSync,
           Conclude, Save, vars, rolloutVars, trainVars
  <1>3. Ended' <=> Ended
    <2>1. CASE Within(WeightsMove)
      <3>1. rpc = "broadcast" /\ trainer' = (IF trainer = "sync" THEN "save" ELSE "last_wait")
        BY <2>1 DEF Within, WeightsMove
      <3>2. trainer \in {"sync", "final_sync"}
        BY <3>1 DEF Basics, PhaseInv
      <3> QED
        BY <3>1, <3>2 DEF Ended
    <2>2. CASE Within(StartSync) \/ Within(Conclude) \/ Save
      BY <2>2 DEF Within, StartSync, Conclude, Save, Ended
    <2>3. CASE UNCHANGED trainer
      BY <2>3 DEF Ended
    <2>4. Within(WeightsMove) \/ Within(StartSync) \/ Within(Conclude) \/ Save \/ UNCHANGED trainer
      BY DEF Bystanders, Within, Feed, StopRunning, MonitorWakes, MonitorRecovers, MonitorChecks,
             PauseBegins, PauseEnds, UpdateBegins, UpdateEnds, Resume, vars, trainVars
    <2> QED
      BY <2>1, <2>2, <2>3, <2>4
  <1> QED
    BY <1>1, <1>2, <1>3, <1>n, AheadKept

\* The other steps.
LEMMA Movers ==
    ASSUME [Next]_vars
    PROVE  \/ Bystanders \/ Within(Top) \/ Within(Take) \/ Within(Locked) \/ Within(SendEnd)
           \/ Within(GetSample) \/ Within(Train) \/ (\E s \in Samples : Within(Generated(s)))
           \/ (\E s \in Samples : Within(Cancelled(s))) \/ Restart
PROOF
  BY Kinds DEF Bystanders

\* At the top the processor pauses, takes back a sample, waits for one or takes one.
LEMMA TopMoves ==
    ASSUME Basics, Within(Top)
    PROVE  /\ config' = config /\ proc = "top" /\ proc' # "stopping" /\ ~Ended /\ ~Ended' /\ hand = End
           /\ UNCHANGED <<gen, mq, dropped, trainVars, rpc, counted, current, weights, stopped, trigger,
                          spent, from, tag, ckpt, skipped, restarts>>
           /\ \/ /\ paused \/ ShouldPause
                 /\ Ahead' = Ahead /\ proc' # "take" /\ UNCHANGED <<taken, hand, staleness, cancelQ>>
              \/ /\ ~ShouldPause /\ cancelQ # <<>> /\ Len(cancelQ') = Len(cancelQ) - 1
                 /\ Ahead' = Ahead /\ proc' # "take" /\ UNCHANGED <<taken, staleness>>
              \/ /\ ~paused /\ ~ShouldPause
                 /\ Ahead' = Ahead /\ proc' = "take" /\ UNCHANGED <<taken, hand, staleness, cancelQ>>
              \/ /\ ~paused /\ ~ShouldPause
                 /\ taken' = taken + 1 /\ taken < DONE /\ staleness' = staleness + 1
                 /\ proc' # "take" /\ UNCHANGED cancelQ
                 /\ taken' # DONE => Ahead' = Ahead + 1
                 /\ taken' = DONE => Ahead' = Ahead /\ hand' = End
PROOF
  <1>1. proc = "top" /\ UNCHANGED <<gen, mq, dropped, trainVars, rpc, counted, current, weights,
                                    stopped, trigger, spent, from, tag, jobVars>>
    BY DEF Within, Top
  <1>2. config' = config /\ UNCHANGED <<trainer, ckpt, skipped, restarts>>
    BY <1>1 DEF jobVars, trainVars
  <1>3. ~Ended
    BY <1>1, AheadTypes
  <1>4. ~Ended' /\ hand = End
    BY <1>1, <1>2, <1>3 DEF Ended, Basics, HandInv
  <1>5. CASE /\ paused \/ ShouldPause
             /\ proc' = "pausing" /\ UNCHANGED <<taken, hand, cancelQ, staleness>>
    <2>1. Ahead' = Ahead
      BY <1>1, <1>3, <1>4, <1>5, AheadKept
    <2> QED
      BY <1>1, <1>2, <1>3, <1>4, <1>5, <2>1
  <1>6. CASE /\ ~ShouldPause /\ cancelQ # <<>> /\ Carry(Head(cancelQ)) /\ cancelQ' = Tail(cancelQ)
             /\ UNCHANGED <<taken, staleness>>
    <2>1. Ahead' = Ahead
      BY <1>1, <1>2, <1>6, AheadPops
    <2>2. Len(cancelQ') = Len(cancelQ) - 1
      BY <1>6, TailFacts DEF Basics, DataInv
    <2>3. proc' \in {"limit", "submit"}
      BY <1>6 DEF Carry
    <2> QED
      BY <1>1, <1>2, <1>3, <1>4, <1>6, <2>1, <2>2, <2>3
  <1>7. CASE /\ ~paused /\ ~ShouldPause /\ proc' = "take"
             /\ UNCHANGED <<taken, hand, lockQ, staleness, cancelQ>>
    <2>1. Ahead' = Ahead
      BY <1>1, <1>3, <1>4, <1>7, AheadKept
    <2> QED
      BY <1>1, <1>2, <1>3, <1>4, <1>7, <2>1
  <1>8. CASE ~paused /\ ~ShouldPause /\ TakePending /\ UNCHANGED cancelQ
    BY <1>1, <1>2, <1>3, <1>4, <1>8, AheadTakes
  <1> QED
    BY <1>5, <1>6, <1>7, <1>8 DEF Within, Top

\* The item the processor waited for is there.
LEMMA TakeMoves ==
    ASSUME Basics, Within(Take)
    PROVE  /\ config' = config /\ proc = "take" /\ proc' \notin {"take", "stopping"} /\ ~Ended /\ ~Ended'
           /\ hand = End
           /\ UNCHANGED <<gen, mq, dropped, trainVars, rpc, counted, current, weights, stopped, trigger,
                          spent, cancelQ, from, tag, ckpt, skipped, restarts>>
           /\ taken' = taken + 1 /\ taken < DONE /\ staleness' = staleness + 1
           /\ taken' # DONE => Ahead' = Ahead + 1
           /\ taken' = DONE => Ahead' = Ahead /\ hand' = End
PROOF
  <1>1. /\ proc = "take" /\ TakePending
        /\ UNCHANGED <<gen, mq, dropped, trainVars, rpc, counted, current, weights, stopped, trigger,
                       spent, cancelQ, from, tag, jobVars>>
    BY DEF Within, Take
  <1>2. config' = config /\ UNCHANGED <<trainer, ckpt, skipped, restarts>>
    BY <1>1 DEF jobVars, trainVars
  <1>3. ~Ended
    BY <1>1, AheadTypes
  <1>4. ~Ended'
    BY <1>2, <1>3 DEF Ended
  <1> QED
    BY <1>1, <1>2, <1>3, <1>4, AheadTakes

\* With the lock it waits for its tasks or submits the sample in hand.
LEMMA LockedMoves ==
    ASSUME Basics, Within(Locked)
    PROVE  /\ config' = config /\ proc \notin {"take", "stopping"} /\ proc' \notin {"take", "stopping"}
           /\ ~Ended /\ ~Ended' /\ Ahead' = Ahead /\ rpc \notin {"gather", "count"}
           /\ UNCHANGED <<taken, mq, dropped, trainVars, rpc, counted, current, weights, stopped, trigger,
                          cancelQ, staleness, tag, ckpt, skipped, restarts>>
           /\ \/ UNCHANGED <<gen, hand, from>>
              \/ /\ hand # End /\ ~paused /\ proc = "submit" /\ gen' = gen \cup {hand} /\ hand' = End
                 /\ from' = [from EXCEPT ![hand] = weights] /\ UNCHANGED spent
PROOF
  <1>1. /\ proc \in {"pausing", "drain", "park", "limit", "submit", "finish"}
        /\ proc' \in {"park", "drain", "parked", "top", "limit", "submit", "held", "end", "finish"}
        /\ UNCHANGED <<taken, mq, dropped, trainVars, rpc, counted, current, weights, stopped, trigger,
                       cancelQ, staleness, tag, jobVars>>
        /\ \/ UNCHANGED <<gen, hand, from>>
           \/ /\ proc = "submit" /\ proc' = "top" /\ ~paused /\ gen' = gen \cup {hand} /\ hand' = End
              /\ from' = [from EXCEPT ![hand] = weights] /\ UNCHANGED spent
    BY DEF Within, Locked
  <1>2. config' = config /\ UNCHANGED <<trainer, ckpt, skipped, restarts>>
    BY <1>1 DEF jobVars, trainVars
  <1>3. ~Ended
    BY <1>1, AheadTypes
  <1>4. ~Ended'
    BY <1>2, <1>3 DEF Ended
  <1>5. Ahead' = Ahead
    <2>1. CASE UNCHANGED <<gen, hand, from>>
      BY <1>1, <1>3, <1>4, <2>1, AheadKept
    <2>2. CASE proc = "submit" /\ proc' = "top" /\ gen' = gen \cup {hand} /\ hand' = End
      BY <1>1, <1>2, <2>2, AheadSubmits
    <2> QED
      BY <1>1, <2>1, <2>2
  <1>6. rpc \notin {"gather", "count"}
    <2>1. lockQ # <<>> /\ Head(lockQ) = "processor"
      BY DEF Within, Locked, Holds
    <2>2. Head(lockQ) = lockQ[1]
      BY <2>1, TailFacts DEF Basics, LockInv
    <2> QED
      BY <2>1, <2>2 DEF Basics, LockInv
  <1>7. proc = "submit" => hand # End
    BY DEF Basics, HandInv
  <1> QED
    BY <1>1, <1>2, <1>3, <1>4, <1>5, <1>6, <1>7

\* Training empties the batch into what was trained on.
LEMMA TrainMoves ==
    ASSUME Basics, Within(Train)
    PROVE  /\ config' = config /\ ~Ended /\ ~Ended' /\ Ahead' = Ahead /\ trainer = "collect"
           /\ UNCHANGED <<taken, hand, proc, staleness, gen, cancelQ, mq, dropped, rpc, counted, current,
                          weights, stopped, trigger, spent, paused, monitor, lockQ, from, tag,
                          ckpt, skipped, restarts>>
           /\ Len(batch) = Required /\ batch' = <<>> /\ Len(batch') = 0 /\ trained' = trained + Required
           /\ \/ step < TriggerStep /\ step' = step + 1 /\ UNCHANGED <<version, trainer>>
              \/ step = TriggerStep /\ step' = 1 /\ version' = version + 1 /\ trainer' = "wait_valid"
PROOF
  <1>1. /\ trainer = "collect" /\ Len(batch) = Required /\ batch' = <<>>
        /\ trained' = trained + Required
        /\ UNCHANGED <<taken, hand, proc, staleness, gen, cancelQ, mq, dropped, rpc, counted, current,
                       weights, stopped, trigger, spent, paused, monitor, lockQ, from, tag,
                       config, ckpt, skipped, restarts>>
        /\ \/ step < TriggerStep /\ step' = step + 1 /\ UNCHANGED <<version, trainer>>
           \/ step >= TriggerStep /\ step' = 1 /\ version' = version + 1 /\ trainer' = "wait_valid"
    BY DEF Within, Train, rolloutVars, jobVars
  <1>2. ~Ended /\ ~Ended'
    BY <1>1 DEF Ended
  <1>3. Ahead' = Ahead
    BY <1>1, <1>2, AheadKept
  <1>4. step >= TriggerStep => step = TriggerStep
    BY Sizes DEF Basics, DataInv, PlaceInv
  <1>5. Len(batch') = 0
    BY <1>1
  <1> QED
    BY <1>1, <1>2, <1>3, <1>4, <1>5

\* What the other steps leave alone.
LEMMA GetLeaves ==
    ASSUME Within(GetSample)
    PROVE  /\ config' = config /\ mq # <<>> /\ mq' = Tail(mq) /\ Len(batch) < Required
           /\ UNCHANGED <<taken, hand, proc, staleness, gen, cancelQ, dropped, rpc, counted, current,
                          trained, version, step, weights, stopped, trigger, spent, paused, monitor,
                          lockQ, from, tag, ckpt, skipped, restarts>>
PROOF
  BY DEF Within, GetSample, rolloutVars, jobVars

\* The end signal may push a sample out of the queue.
LEMMA SendLeaves ==
    ASSUME Basics, Within(SendEnd)
    PROVE  /\ config' = config /\ proc = "end" /\ proc' = "stopping" /\ PutSample(End) /\ Ended' = Ended
           /\ UNCHANGED <<taken, hand, staleness, gen, cancelQ, rpc, counted, current, trainer, batch,
                          trained, version, step, weights, stopped, trigger, spent, paused, monitor,
                          from, tag, ckpt, skipped, restarts>>
           /\ ~Ended
           /\ \/ Len(mq) < MaxQueue /\ Len(mq') = Len(mq) + 1 /\ dropped' = dropped /\ Ahead' = Ahead
              \/ Len(mq) = MaxQueue /\ Len(mq') = Len(mq) /\ dropped' = dropped + 1 /\ Ahead' = Ahead - 1
PROOF
  <1>1. /\ config' = config /\ proc = "end" /\ proc' = "stopping" /\ PutSample(End)
        /\ UNCHANGED <<taken, hand, staleness, gen, cancelQ, rpc, counted, current, trainer, batch,
                       trained, version, step, weights, stopped, trigger, spent, paused, monitor,
                       from, tag, ckpt, skipped, restarts>>
    BY DEF Within, SendEnd, trainVars, jobVars
  <1> QED
    BY <1>1, AheadEnds DEF Ended

\* A finished sample goes to the queue and may push another one out.
LEMMA GeneratedLeaves ==
    ASSUME Basics, NEW s \in Samples, Within(Generated(s))
    PROVE  /\ config' = config /\ PutSample(s) /\ s \in gen /\ ~Ended /\ ~Ended'
           /\ gen' = gen \ {s} /\ tag' = [tag EXCEPT ![s] = current] /\ (stopped => rpc = "gather")
           /\ UNCHANGED <<taken, hand, proc, staleness, cancelQ, rpc, counted, current, trainer, batch,
                          trained, version, step, weights, stopped, trigger, paused, monitor,
                          lockQ, from, ckpt, skipped, restarts>>
           /\ proc # "stopping" /\ Cardinality(gen') = Cardinality(gen) - 1
           /\ \/ Len(mq) < MaxQueue /\ Len(mq') = Len(mq) + 1 /\ dropped' = dropped /\ Ahead' = Ahead
              \/ Len(mq) = MaxQueue /\ Len(mq') = Len(mq) /\ dropped' = dropped + 1 /\ Ahead' = Ahead - 1
PROOF
  <1>1. /\ config' = config /\ PutSample(s) /\ s \in gen /\ gen' = gen \ {s}
        /\ tag' = [tag EXCEPT ![s] = current] /\ (stopped => rpc = "gather")
        /\ UNCHANGED <<taken, hand, proc, staleness, cancelQ, rpc, counted, current, trainer, batch,
                       trained, version, step, weights, stopped, trigger, paused, monitor,
                       lockQ, from, ckpt, skipped, restarts>>
    BY DEF Within, Generated, rolloutVars, trainVars, jobVars
  <1>2. proc # "stopping"
    BY <1>1, AheadGenerates
  <1>3. ~Ended /\ ~Ended'
    BY <1>1, <1>2, AheadTypes DEF Ended
  <1> QED
    BY <1>1, <1>3, AheadGenerates

\* An interrupted sample goes to cancel_queue.
LEMMA CancelledLeaves ==
    ASSUME Basics, NEW s \in Samples, Within(Cancelled(s))
    PROVE  /\ config' = config /\ s \in gen /\ stopped /\ ~Ended /\ ~Ended' /\ gen' = gen \ {s}
           /\ UNCHANGED <<taken, hand, proc, staleness, mq, dropped, rpc, counted, current, trainer, batch,
                          trained, version, step, weights, stopped, trigger, paused, monitor,
                          lockQ, from, tag, ckpt, skipped, restarts>>
           /\ Ahead' = Ahead /\ Len(cancelQ') = Len(cancelQ) + 1
           /\ Cardinality(gen') = Cardinality(gen) - 1
PROOF
  <1>1. /\ config' = config /\ s \in gen /\ stopped /\ gen' = gen \ {s} /\ cancelQ' = Append(cancelQ, s)
        /\ UNCHANGED <<taken, hand, proc, staleness, mq, dropped, rpc, counted, current, trainer, batch,
                       trained, version, step, weights, stopped, trigger, paused, monitor,
                       lockQ, from, tag, ckpt, skipped, restarts>>
    BY DEF Within, Cancelled, rolloutVars, trainVars, jobVars
  <1>2. proc # "stopping"
    BY <1>1 DEF Basics, HandInv
  <1>3. ~Ended /\ ~Ended'
    BY <1>1, <1>2, AheadTypes DEF Ended
  <1> QED
    BY <1>1, <1>3, AheadCancels

\* A restart begins behind the samples of its checkpoint.
LEMMA RestartMoves ==
    ASSUME Basics, Restart
    PROVE  /\ config' = config /\ Ahead' = 0 /\ ~Ended' /\ trained' = taken' /\ taken' < TotalSteps
           /\ taken' = Times(ckpt.version, PerUpdate) /\ taken' \in Nat
PROOF
  <1>1. /\ config' = config /\ taken' = StepsOf(ckpt.version) /\ trained' = taken'
        /\ StepsOf(ckpt.version) < TotalSteps /\ gen' = {} /\ cancelQ' = <<>> /\ mq' = <<>>
        /\ hand' = End /\ proc' = "top" /\ trainer' = "collect"
    BY DEF Restart
  <1>2. ckpt.version \in Nat /\ config \in Configs
    BY DEF Basics, DataInv, PlaceInv
  <1>3. StepsOf(ckpt.version) = Times(ckpt.version, PerUpdate) /\ Times(ckpt.version, PerUpdate) \in Nat
    <2>1. PerUpdate \in Nat /\ ckpt.version \in Int
      BY <1>2, Sizes
    <2>2. StepsOf(ckpt.version) = Times(ckpt.version, PerUpdate)
      BY <1>2, <2>1, StepsAre
    <2> QED
      BY <1>2, <2>1, <2>2, TimesFacts
  <1>4. Ahead' = 0
    <2>1. Cardinality(gen') = 0 /\ Len(cancelQ') = 0 /\ Len(mq') = 0
      BY <1>1, FS_EmptySet
    <2> QED
      BY <1>1, <2>1 DEF Ahead, Queued, End
  <1> QED
    BY <1>1, <1>3, <1>4 DEF Ended

-----------------------------------------------------------------------------
(* Where the samples are.                                                  *)

\* No step loses sight of a sample.
LEMMA AccountStep ==
    ASSUME Basics, AccountInv, [Next]_vars
    PROVE  AccountInv'
PROOF
  <1> DEFINE Known == IF taken < TotalSteps THEN taken ELSE TotalSteps
  <1>a. /\ config \in Configs /\ TotalSteps' = TotalSteps /\ Required' = Required /\ TotalSteps \in Nat
        /\ Required \in Nat \ {0} /\ DONE = TotalSteps + 1
        /\ taken \in Nat /\ trained \in Nat /\ dropped \in Nat /\ Ahead \in Nat /\ Len(batch) \in Nat
        /\ Len(cancelQ) \in Nat
    <2>1. config \in Configs /\ taken \in 0..fed /\ fed \in 0..DONE /\ trained \in Nat /\ dropped \in Nat
      BY DEF Basics, PlaceInv, DataInv
    <2>2. TotalSteps \in Nat /\ Required \in Nat \ {0} /\ DONE = TotalSteps + 1
      BY <2>1, Sizes
    <2>3. TotalSteps' = TotalSteps /\ Required' = Required
      BY SameConfig, SameSizes
    <2> QED
      BY <2>1, <2>2, <2>3, AheadTypes
  <1>s. ASSUME UNCHANGED <<taken, trained>>, Len(batch') = Len(batch), Len(cancelQ') = Len(cancelQ),
               Ended' <=> Ended,
               \/ dropped' = dropped /\ Ahead' = Ahead
               \/ dropped' = dropped + 1 /\ Ahead' = Ahead - 1 /\ ~Ended
        PROVE  AccountInv'
    BY <1>a, <1>s DEF AccountInv
  <1>1. CASE Bystanders
    <2>1. /\ UNCHANGED <<taken, trained, batch, cancelQ, dropped>> /\ (Ended' <=> Ended) /\ Ahead' = Ahead
      BY <1>1, BystandersKeep
    <2> QED
      BY <1>a, <2>1, <1>s
  <1>2. CASE Within(Top)
    <2>1. ~Ended /\ ~Ended' /\ UNCHANGED <<batch, trained, dropped>>
      BY <1>2, TopMoves DEF trainVars
    <2>2. \/ UNCHANGED taken /\ Ahead' = Ahead
          \/ /\ taken' = taken + 1 /\ taken < DONE
             /\ taken' # DONE => Ahead' = Ahead + 1
             /\ taken' = DONE => Ahead' = Ahead
      BY <1>2, TopMoves
    <2> QED
      BY <1>a, <2>1, <2>2 DEF AccountInv
  <1>3. CASE Within(Take)
    <2>1. ~Ended /\ ~Ended' /\ UNCHANGED <<batch, trained, dropped>>
      BY <1>3, TakeMoves DEF trainVars
    <2>2. /\ taken' = taken + 1 /\ taken < DONE
          /\ taken' # DONE => Ahead' = Ahead + 1
          /\ taken' = DONE => Ahead' = Ahead
      BY <1>3, TakeMoves
    <2> QED
      BY <1>a, <2>1, <2>2 DEF AccountInv
  <1>4. CASE Within(Locked)
    <2>1. /\ ~Ended /\ ~Ended' /\ UNCHANGED <<batch, trained, dropped, taken, cancelQ>> /\ Ahead' = Ahead
      BY <1>4, LockedMoves DEF trainVars
    <2> QED
      BY <1>a, <2>1, <1>s
  <1>5. CASE Within(SendEnd)
    <2>1. /\ ~Ended /\ Ended' = Ended /\ UNCHANGED <<taken, trained, batch, cancelQ>>
          /\ \/ dropped' = dropped /\ Ahead' = Ahead
             \/ dropped' = dropped + 1 /\ Ahead' = Ahead - 1
      BY <1>5, <1>a, SendLeaves
    <2> QED
      BY <1>a, <2>1, <1>s
  <1>6. CASE Within(GetSample)
    <2>1. ~Ended /\ UNCHANGED <<taken, trained, dropped, cancelQ>> /\ Len(batch) < Required
      BY <1>6, AheadGets, GetLeaves
    <2>2. \/ ~Ended' /\ Ahead' = Ahead - 1 /\ Len(batch') = Len(batch) + 1
          \/ Ended' /\ taken = DONE /\ Ahead = Len(cancelQ)
      BY <1>6, AheadGets
    <2> QED
      BY <1>a, <2>1, <2>2 DEF AccountInv
  <1>7. CASE Within(Train)
    <2>1. /\ ~Ended /\ ~Ended' /\ UNCHANGED <<taken, dropped>> /\ Ahead' = Ahead
          /\ Len(batch) = Required /\ Len(batch') = 0 /\ trained' = trained + Required
      BY <1>7, TrainMoves
    <2> QED
      BY <1>a, <2>1 DEF AccountInv
  <1>8. ASSUME NEW s \in Samples, Within(Generated(s)) PROVE AccountInv'
    <2>1. /\ ~Ended /\ ~Ended' /\ UNCHANGED <<taken, trained, batch, cancelQ>>
          /\ \/ dropped' = dropped /\ Ahead' = Ahead
             \/ dropped' = dropped + 1 /\ Ahead' = Ahead - 1
      BY <1>8, <1>a, GeneratedLeaves
    <2> QED
      BY <1>a, <2>1, <1>s
  <1>9. ASSUME NEW s \in Samples, Within(Cancelled(s)) PROVE AccountInv'
    <2>1. ~Ended /\ ~Ended' /\ UNCHANGED <<taken, trained, batch, dropped>> /\ Ahead' = Ahead
      BY <1>9, CancelledLeaves
    <2> QED
      BY <1>a, <2>1 DEF AccountInv
  <1>10. CASE Restart
    <2>1. Ahead' = 0 /\ ~Ended' /\ trained' = taken' /\ taken' < TotalSteps /\ taken' \in Nat
      BY <1>10, RestartMoves
    <2>2. Len(batch') = 0 /\ dropped' = 0
      BY <1>10 DEF Restart
    <2>3. PICK n \in Nat : taken' = n
      BY <2>1
    <2>4. trained' = n /\ taken' = n /\ n < TotalSteps
      BY <2>1, <2>3
    <2> QED
      BY <1>a, <2>1, <2>2, <2>4 DEF AccountInv
  <1> QED
    BY <1>1, <1>2, <1>3, <1>4, <1>5, <1>6, <1>7, <1>8, <1>9, <1>10, Movers

-----------------------------------------------------------------------------
(* How far ahead the Rollouter runs.                                       *)

\* Nothing but a reset of the counter lets it miss a sample, and a queue that is full
\* when it misses one throws one away.
LEMMA BacklogStep ==
    ASSUME Basics, BacklogInv, [Next]_vars
    PROVE  BacklogInv'
PROOF
  <1>a. /\ config \in Configs /\ MaxRequired \in Nat \ {0} /\ MaxQueue = MaxRequired
        /\ staleness \in Nat /\ dropped \in Nat /\ current \in Nat /\ counted \in Nat /\ weights \in Nat
        /\ Ahead \in Nat /\ Cardinality(gen) \in Nat /\ Len(cancelQ) \in Nat /\ Len(mq) \in Nat
        /\ Cardinality(gen) + Len(cancelQ) + Queued <= Ahead
        /\ Ahead <= Cardinality(gen) + Len(cancelQ) + Queued + 1
        /\ Queued \in Nat /\ Queued <= Len(mq) /\ (proc # "stopping" => Queued = Len(mq))
    <2>1. /\ config \in Configs /\ staleness \in Nat /\ dropped \in Nat /\ current \in Nat /\ counted \in Nat
          /\ weights \in Nat
      BY DEF Basics, PlaceInv, DataInv
    <2> QED
      BY <2>1, Sizes, AheadTypes
  <1>m. MaxRequired' = MaxRequired
    BY SameConfig, SameSizes
  <1>p. PICK k \in {0, 1} : Within_(k)
    BY DEF BacklogInv
  <1>c. rpc = "count" => Cardinality(gen) + Len(cancelQ) <= counted
    BY DEF BacklogInv
  <1>w. Within_(k)' => Within_(0)' \/ Within_(1)'
    BY <1>p
  <1>1. CASE Bystanders
    <2>1. /\ UNCHANGED <<dropped, cancelQ, gen, mq>> /\ Ahead' = Ahead
          /\ proc' = "stopping" <=> proc = "stopping"
          /\ proc' = "take" <=> proc = "take"
      BY <1>1, BystandersKeep
    <2>2. CASE Within(UpdateEnds)
      <3>1. /\ rpc = "count" /\ rpc' = "resume" /\ staleness' = counted + Len(mq) /\ UNCHANGED current
        BY <2>2 DEF Within, UpdateEnds
      <3>2. Ahead <= counted + Len(mq) + 1
        BY <1>a, <1>c, <3>1
      <3>3. Within_(1)'
        BY <1>a, <1>m, <1>p, <2>1, <3>1, <3>2 DEF Within_
      <3> QED
        BY <3>1, <3>3 DEF BacklogInv
    <2>3. CASE Within(UpdateBegins)
      <3>1. /\ rpc = "update" /\ rpc' = "count" /\ current' = weights /\ UNCHANGED staleness
            /\ counted' = Active + Len(cancelQ)
        BY <2>3 DEF Within, UpdateBegins, rolloutVars
      <3>2. weights = current + 1 /\ spent \in Nat
        BY <3>1 DEF Basics, PhaseInv, DataInv
      <3>3. Within_(k)'
        BY <1>a, <1>m, <1>p, <2>1, <3>1, <3>2 DEF Within_
      <3>4. Cardinality(gen) + Len(cancelQ) <= Active + Len(cancelQ)
        BY <1>a, <3>2 DEF Active
      <3> QED
        BY <1>p, <2>1, <3>1, <3>3, <3>4 DEF BacklogInv
    <2>4. CASE UNCHANGED <<staleness, current, counted>> /\ (rpc' = "count" <=> rpc = "count")
      <3>1. Within_(k)'
        BY <1>a, <1>m, <1>p, <2>1, <2>4 DEF Within_
      <3> QED
        BY <1>p, <1>c, <2>1, <2>4, <3>1 DEF BacklogInv
    <2>5. \/ Within(UpdateEnds) \/ Within(UpdateBegins)
          \/ UNCHANGED <<staleness, current, counted>> /\ (rpc' = "count" <=> rpc = "count")
      BY <1>1 DEF Bystanders, Within, Feed, StopRunning, MonitorWakes, MonitorRecovers, MonitorChecks,
             PauseBegins, PauseEnds, WeightsMove, Resume, StartSync, Conclude, Save, vars, rolloutVars,
             trainVars
    <2> QED
      BY <2>2, <2>3, <2>4, <2>5
  <1>2. CASE Within(Top)
    <2>1. /\ proc = "top" /\ proc' # "stopping" /\ UNCHANGED <<gen, dropped, rpc, counted, current>>
      BY <1>2, TopMoves
    <2>2. \/ Ahead' = Ahead /\ proc' # "take" /\ UNCHANGED <<staleness, cancelQ>>
          \/ /\ Len(cancelQ') = Len(cancelQ) - 1 /\ Ahead' = Ahead /\ proc' # "take"
             /\ UNCHANGED staleness
          \/ ~ShouldPause /\ Ahead' = Ahead /\ UNCHANGED <<staleness, cancelQ>>
          \/ /\ ~ShouldPause /\ staleness' = staleness + 1 /\ proc' # "take" /\ UNCHANGED cancelQ
             /\ Ahead' = Ahead + 1 \/ Ahead' = Ahead
      BY <1>2, TopMoves
    <2>3. ~ShouldPause => staleness < MaxRequired
      BY <1>a DEF ShouldPause
    <2>4. Within_(k)'
      BY <1>a, <1>m, <1>p, <2>1, <2>2, <2>3 DEF Within_
    <2>5. rpc' = "count" => Cardinality(gen') + Len(cancelQ') <= counted'
      BY <1>a, <1>c, <2>1, <2>2
    <2> QED
      BY <1>p, <2>4, <2>5 DEF BacklogInv
  <1>3. CASE Within(Take)
    <2>1. /\ proc = "take" /\ proc' \notin {"take", "stopping"}
          /\ UNCHANGED <<gen, dropped, rpc, counted, current, cancelQ>>
          /\ staleness' = staleness + 1 /\ (Ahead' = Ahead + 1 \/ Ahead' = Ahead)
      BY <1>3, TakeMoves
    <2>2. Within_(k)'
      BY <1>a, <1>m, <1>p, <2>1 DEF Within_
    <2> QED
      BY <1>p, <1>c, <2>1, <2>2 DEF BacklogInv
  <1>4. CASE Within(Locked)
    <2>1. /\ proc \notin {"take", "stopping"} /\ proc' \notin {"take", "stopping"} /\ Ahead' = Ahead
          /\ rpc # "count" /\ UNCHANGED <<dropped, rpc, current, staleness>>
      BY <1>4, LockedMoves
    <2>2. Within_(k)'
      BY <1>a, <1>m, <1>p, <2>1 DEF Within_
    <2> QED
      BY <1>p, <2>1, <2>2 DEF BacklogInv
  <1>5. CASE Within(SendEnd)
    <2>1. /\ proc = "end" /\ proc' = "stopping" /\ UNCHANGED <<staleness, gen, cancelQ, rpc, counted, current>>
          /\ \/ dropped' = dropped /\ Ahead' = Ahead
             \/ dropped' = dropped + 1 /\ Ahead' = Ahead - 1
      BY <1>5, SendLeaves
    <2>2. Within_(k)'
      BY <1>a, <1>m, <1>p, <2>1 DEF Within_
    <2> QED
      BY <1>p, <1>c, <2>1, <2>2 DEF BacklogInv
  <1>6. CASE Within(GetSample)
    <2>1. /\ UNCHANGED <<proc, staleness, gen, cancelQ, dropped, rpc, counted, current>>
          /\ Ahead' = Ahead - 1 \/ Ahead' = Ahead
      BY <1>6, AheadGets, GetLeaves
    <2>2. Within_(k)'
      BY <1>a, <1>m, <1>p, <2>1 DEF Within_
    <2> QED
      BY <1>p, <1>c, <2>1, <2>2 DEF BacklogInv
  <1>7. CASE Within(Train)
    <2>1. UNCHANGED <<proc, staleness, gen, cancelQ, dropped, rpc, counted, current>> /\ Ahead' = Ahead
      BY <1>7, TrainMoves
    <2>2. Within_(k)'
      BY <1>a, <1>m, <1>p, <2>1 DEF Within_
    <2> QED
      BY <1>p, <1>c, <2>1, <2>2 DEF BacklogInv
  <1>8. ASSUME NEW s \in Samples, Within(Generated(s)) PROVE BacklogInv'
    <2>1. /\ proc # "stopping" /\ s \in gen /\ Cardinality(gen') = Cardinality(gen) - 1
          /\ UNCHANGED <<proc, staleness, cancelQ, rpc, counted, current>>
          /\ \/ dropped' = dropped /\ Ahead' = Ahead
             \/ Len(mq) = MaxQueue /\ dropped' = dropped + 1 /\ Ahead' = Ahead - 1
      BY <1>8, GeneratedLeaves
    <2>2. rpc' = "count" => Cardinality(gen') + Len(cancelQ') <= counted'
      BY <1>a, <1>c, <2>1
    <2>3. CASE dropped' = dropped /\ Ahead' = Ahead
      <3>1. Within_(k)'
        BY <1>a, <1>m, <1>p, <2>1, <2>3 DEF Within_
      <3> QED
        BY <1>p, <2>2, <3>1 DEF BacklogInv
    <2>4. CASE Len(mq) = MaxQueue /\ dropped' = dropped + 1 /\ Ahead' = Ahead - 1
      <3>1. Cardinality(gen) >= 1
        <4>1. gen # {} /\ IsFiniteSet(gen)
          BY <2>1, <1>a, Finite DEF Basics, DataInv
        <4> QED
          BY <4>1, <1>a, FS_EmptySet
      <3>2. Ahead >= MaxRequired + 1
        BY <1>a, <2>1, <2>4, <3>1
      <3>3. k = 1
        BY <1>a, <1>p, <3>2 DEF Within_
      <3>4. Within_(0)'
        BY <1>a, <1>m, <1>p, <2>1, <2>4, <3>2, <3>3 DEF Within_
      <3> QED
        BY <2>2, <3>4 DEF BacklogInv
    <2> QED
      BY <2>1, <2>3, <2>4
  <1>9. ASSUME NEW s \in Samples, Within(Cancelled(s)) PROVE BacklogInv'
    <2>1. /\ UNCHANGED <<proc, staleness, dropped, rpc, counted, current>> /\ Ahead' = Ahead
          /\ Cardinality(gen') = Cardinality(gen) - 1 /\ Len(cancelQ') = Len(cancelQ) + 1
      BY <1>9, CancelledLeaves
    <2>2. Within_(k)'
      BY <1>a, <1>m, <1>p, <2>1 DEF Within_
    <2>3. rpc' = "count" => Cardinality(gen') + Len(cancelQ') <= counted'
      BY <1>a, <1>c, <2>1
    <2> QED
      BY <1>p, <2>2, <2>3 DEF BacklogInv
  <1>10. CASE Restart
    <2>1. Ahead' = 0 /\ config' = config
      BY <1>10, RestartMoves
    <2>2. /\ dropped' = 0 /\ staleness' = 0 /\ proc' = "top" /\ rpc' = "idle" /\ current' = ckpt.version
      BY <1>10 DEF Restart
    <2>3. ckpt.version \in Nat
      BY DEF Basics, DataInv
    <2>4. Within_(0)'
      BY <1>a, <1>m, <2>1, <2>2, <2>3 DEF Within_
    <2> QED
      BY <2>2, <2>4 DEF BacklogInv
  <1> QED
    BY <1>1, <1>2, <1>3, <1>4, <1>5, <1>6, <1>7, <1>8, <1>9, <1>10, Movers

-----------------------------------------------------------------------------
(* How late the samples are used.                                          *)

\* The elements of a sequence.
LEMMA ElementsIn ==
    ASSUME NEW S, NEW q \in Seq(S)
    PROVE  DOMAIN q = 1..Len(q) /\ Len(q) \in Nat /\ \A i \in DOMAIN q : q[i] \in S
PROOF
  OBVIOUS

\* Whatever is outstanding fits in what the Trainer may consume before the next
\* reset of the counter and what may follow it.
LEMMA LagStep ==
    ASSUME Basics, BacklogInv, LagInv, [Next]_vars
    PROVE  LagInv'
PROOF
  <1>0. PICK P, M : P = PerUpdate /\ P = PerUpdate' /\ M = MaxRequired /\ M = MaxRequired'
    BY SameConfig, SameSizes
  <1> DEFINE Used == trained + Len(batch) + Ahead
             Reset == current + (IF rpc = "count" THEN 0 ELSE 1)
             Base == Times(Reset, P)
             Room == /\ Used <= Base + staleness + 1
                     /\ Used <= Base + M + 1
                     /\ proc = "take" => Used <= Base + M
             Late(v) == Times(v + 1, P) + M
             Tags == \A s \in Samples : tag[s] <= current
             InQueue == \A i \in DOMAIN mq : mq[i] # End => trained + Len(batch) + i - 1 <= Late(tag[mq[i]])
             InBatch == \A i \in DOMAIN batch : trained + i - 1 <= Late(tag[batch[i]])
  <1>i. (~Ended => Room) /\ Tags /\ InQueue /\ InBatch
    BY <1>0 DEF LagInv
  <1>q. (~Ended' => Room') /\ Tags' /\ InQueue' /\ InBatch' => LagInv'
    BY <1>0 DEF LagInv
  <1>a. /\ config \in Configs /\ M \in Nat \ {0} /\ MaxQueue = M
        /\ P \in Nat \ {0} /\ Required \in Nat \ {0} /\ Required <= P
        /\ staleness \in Nat /\ current \in Nat /\ counted \in Nat /\ weights \in Nat
        /\ version \in Nat /\ trained \in Nat /\ step \in 1..TriggerStep /\ TriggerStep \in Nat
    BY <1>0, Sizes DEF Basics, PlaceInv, DataInv
  <1>z. P = Times(TriggerStep, Required)
    BY <1>0, <1>a, Sizes
  <1>h. tag \in [Samples -> Nat] /\ mq \in Seq(Items) /\ batch \in Seq(Samples)
    BY DEF Basics, DataInv
  <1>b. /\ Ahead \in Nat /\ Cardinality(gen) \in Nat /\ Len(cancelQ) \in Nat /\ Len(mq) \in Nat
        /\ Len(batch) \in Nat /\ Cardinality(gen) + Len(cancelQ) + Queued <= Ahead
        /\ Ahead <= Cardinality(gen) + Len(cancelQ) + Queued + 1
        /\ Queued \in Nat /\ Queued <= Len(mq) /\ (proc # "stopping" => Queued = Len(mq))
    BY AheadTypes
  <1>d. /\ DOMAIN mq = 1..Len(mq) /\ DOMAIN batch = 1..Len(batch)
        /\ \A i \in DOMAIN mq : mq[i] \in Items
        /\ \A i \in DOMAIN batch : batch[i] \in Samples
    BY <1>h, ElementsIn
  <1>m. Samples' = Samples /\ End' = End /\ Items' = Items
    BY SameConfig, SameSizes
  <1>e. \A i \in DOMAIN mq : mq[i] # End => mq[i] \in Samples
    BY <1>d DEF Items
  <1>g. Base \in Nat /\ Times(current + 1, P) \in Nat /\ Base <= Times(current + 1, P)
    <2>1. Reset \in Int /\ current + 1 \in Int /\ Reset \in Nat /\ current + 1 \in Nat /\ Reset <= current + 1
          /\ P \in Nat
      BY <1>a
    <2> HIDE DEF Reset
    <2> QED
      BY <2>1, TimesFacts, TimesGrows
  <1>l. ASSUME NEW v \in Nat, NEW w \in Nat, v <= w PROVE Late(v) <= Late(w) /\ Late(v) \in Int
    <2>1. v + 1 \in Int /\ w + 1 \in Int /\ v + 1 <= w + 1 /\ P \in Nat
      BY <1>a, <1>l
    <2>2. Times(v + 1, P) <= Times(w + 1, P) /\ Times(v + 1, P) \in Int /\ Times(w + 1, P) \in Int
      BY <2>1, TimesFacts, TimesGrows
    <2> QED
      BY <1>a, <2>2
  <1> DEFINE Kept == UNCHANGED <<trained, batch, mq, tag>>
  <1>k. Kept => InQueue' /\ InBatch'
    BY <1>i, <1>m
  <1>t. ASSUME UNCHANGED tag, current' = current \/ current' = weights
        PROVE  Tags'
    <2>1. current <= current'
      BY <1>a, <1>t DEF Basics, PhaseInv
    <2>2. \A s \in Samples : tag[s] <= current /\ tag[s] \in Nat
      BY <1>i, <1>h
    <2> QED
      BY <1>a, <1>m, <1>t, <2>1, <2>2 DEF Basics, PhaseInv
  <1>u. Used \in Nat
    BY <1>a, <1>b
  <1> HIDE DEF Base
  <1>r. ASSUME UNCHANGED <<current, rpc>> PROVE Base' = Base
    BY <1>r DEF Base
  <1>1. CASE Bystanders
    <2>1. /\ UNCHANGED <<trained, batch, mq, tag, gen, cancelQ>> /\ Ahead' = Ahead
          /\ proc' = "take" <=> proc = "take"
          /\ Ended' <=> Ended
      BY <1>1, BystandersKeep
    <2>k. InQueue' /\ InBatch'
      BY <2>1, <1>k
    <2>2. CASE Within(UpdateEnds)
      <3>1. /\ rpc = "count" /\ rpc' = "resume" /\ staleness' = counted + Len(mq) /\ UNCHANGED current
        BY <2>2 DEF Within, UpdateEnds
      <3>2. Ahead <= counted + Len(mq) + 1
        <4>1. Cardinality(gen) + Len(cancelQ) <= counted
          BY <3>1 DEF BacklogInv
        <4> QED
          BY <4>1, <1>a, <1>b
      <3>3. Base = Times(current, P) /\ Base' = Times(current + 1, P)
        BY <3>1, <1>a DEF Base
      <3>4. Base' = Base + P /\ Base \in Nat
        BY <3>3, <1>a, <1>g, TimesFacts
      <3>5. ~Ended => trained + Len(batch) <= Base + P
        <4>1. SUFFICES ASSUME ~Ended PROVE trained + Len(batch) <= Base + P
          OBVIOUS
        <4>2. /\ weights = current /\ trained = Times(version, P) + Times(step - 1, Required)
              /\ version = weights + (IF trainer = "wait_valid" THEN 1 ELSE 0)
              /\ trainer = "wait_valid" => step = 1 /\ batch = <<>>
          BY <1>0, <1>a, <3>1, <4>1 DEF Basics, PhaseInv, Ended
        <4>3. Len(batch) <= Required
          BY DEF Basics, DataInv
        <4>4. CASE trainer = "wait_valid"
          <5>1. Len(batch) = 0 /\ step = 1 /\ version = current + 1
            BY <4>2, <4>4, <1>a
          <5>2. Times(step - 1, Required) = 0
            <6>1. step - 1 = 0 /\ Required \in Nat
              BY <5>1, <1>a
            <6> QED
              BY <6>1 DEF Times
          <5> QED
            BY <3>3, <3>4, <4>2, <5>1, <5>2, <1>a, <1>g
        <4>5. CASE trainer # "wait_valid"
          <5>1. version = current
            BY <4>2, <4>5, <1>a
          <5>2. /\ Times(step, Required) <= P /\ Times(step - 1, Required) = Times(step, Required) - Required
                /\ Times(step, Required) \in Int
            <6>1. step \in Int /\ step <= TriggerStep /\ TriggerStep \in Int /\ Required \in Nat
              BY <1>a
            <6> QED
              BY <6>1, <1>z, TimesFacts, TimesGrows
          <5>3. trained = Base + Times(step - 1, Required)
            BY <3>3, <4>2, <5>1
          <5> DEFINE before == Times(step - 1, Required)
                     after == Times(step, Required)
                     collected == Len(batch)
          <5>4. /\ before = after - Required /\ after <= P /\ trained = Base + before
                /\ collected <= Required /\ collected \in Nat /\ after \in Int
                /\ Base \in Nat /\ P \in Nat /\ Required \in Nat
            BY <3>4, <4>3, <5>2, <5>3, <1>a, <1>b
          <5> HIDE DEF before, after, collected
          <5>5. trained + collected <= Base + P
            BY ONLY <5>4
          <5> QED
            BY ONLY <5>5 DEF collected
        <4> QED
          BY <4>4, <4>5
      <3>6. ~Ended => Room'
        <4> SUFFICES ASSUME ~Ended PROVE Room'
          OBVIOUS
        <4>1. /\ Used <= Base + M + 1 /\ Used <= Base + P + counted + Len(mq) + 1
              /\ proc = "take" => Used <= Base + M
          BY <1>a, <1>b, <1>i, <3>2, <3>4, <3>5
        <4> QED
          BY <1>a, <1>b, <1>u, <2>1, <3>1, <3>4, <4>1
      <3>7. Tags'
        BY <2>1, <3>1, <1>t
      <3> QED
        BY <2>1, <2>k, <3>6, <3>7, <1>q
    <2>3. CASE Within(UpdateBegins)
      <3>1. /\ rpc = "update" /\ rpc' = "count" /\ current' = weights /\ UNCHANGED staleness
        BY <2>3 DEF Within, UpdateBegins, rolloutVars
      <3>2. weights = current + 1
        BY <3>1, <1>a DEF Basics, PhaseInv
      <3>3. Base' = Base
        <4>1. Reset' = Reset
          BY <3>1, <3>2, <1>a
        <4> QED
          BY <4>1 DEF Base
      <3>4. Tags'
        BY <2>1, <3>1, <1>t
      <3>5. ~Ended => Room'
        BY <1>i, <1>m, <2>1, <3>1, <3>3
      <3> QED
        BY <2>1, <2>k, <3>4, <3>5, <1>q
    <2>4. CASE UNCHANGED <<staleness, current>> /\ (rpc' = "count" <=> rpc = "count")
      <3>1. Base' = Base
        BY <2>4 DEF Base
      <3>2. ~Ended => Room'
        BY <1>i, <1>m, <2>1, <2>4, <3>1
      <3>3. Tags'
        BY <2>1, <2>4, <1>t
      <3> QED
        BY <2>1, <2>k, <3>2, <3>3, <1>q
    <2>5. \/ Within(UpdateEnds) \/ Within(UpdateBegins)
          \/ UNCHANGED <<staleness, current>> /\ (rpc' = "count" <=> rpc = "count")
      BY <1>1 DEF Bystanders, Within, Feed, StopRunning, MonitorWakes, MonitorRecovers, MonitorChecks,
             PauseBegins, PauseEnds, WeightsMove, Resume, StartSync, Conclude, Save, vars, rolloutVars,
             trainVars
    <2> QED
      BY <2>2, <2>3, <2>4, <2>5
  <1>2. CASE Within(Top)
    <2>1. /\ ~Ended /\ UNCHANGED <<mq, batch, trained, rpc, current, tag>>
      BY <1>2, TopMoves DEF trainVars
    <2>2. \/ Ahead' = Ahead /\ proc' # "take" /\ UNCHANGED staleness
          \/ ~ShouldPause /\ Ahead' = Ahead /\ UNCHANGED staleness
          \/ /\ ~ShouldPause /\ staleness' = staleness + 1 /\ proc' # "take"
             /\ Ahead' = Ahead + 1 \/ Ahead' = Ahead
      BY <1>2, TopMoves
    <2>3. ~ShouldPause => staleness < M
      BY <1>0, <1>a DEF ShouldPause
    <2>4. Room'
      <3>1. /\ Base' = Base
            /\ Ahead' = Ahead => Used' = Used
            /\ Ahead' = Ahead + 1 => Used' = Used + 1
        BY <2>1, <1>a, <1>b, <1>r
      <3> HIDE DEF Used
      <3> QED
        BY <1>a, <1>g, <1>i, <1>u, <2>1, <2>2, <2>3, <3>1
    <2> QED
      BY <2>1, <2>4, <1>k, <1>t, <1>q
  <1>3. CASE Within(Take)
    <2>1. /\ ~Ended /\ UNCHANGED <<mq, batch, trained, rpc, current, tag>>
          /\ proc = "take" /\ proc' # "take"
          /\ staleness' = staleness + 1 /\ (Ahead' = Ahead + 1 \/ Ahead' = Ahead)
      BY <1>3, TakeMoves DEF trainVars
    <2>2. Room'
      <3>1. Base' = Base /\ (Used' = Used \/ Used' = Used + 1)
        BY <2>1, <1>a, <1>b, <1>r
      <3> HIDE DEF Used
      <3> QED
        BY <1>a, <1>g, <1>i, <1>u, <2>1, <3>1
    <2> QED
      BY <2>1, <2>2, <1>k, <1>t, <1>q
  <1>4. CASE Within(Locked)
    <2>1. /\ ~Ended /\ UNCHANGED <<mq, batch, trained, rpc, current, tag, staleness>>
          /\ proc' # "take" /\ Ahead' = Ahead
      BY <1>4, LockedMoves DEF trainVars
    <2>2. Room'
      BY <1>i, <1>m, <1>r, <2>1
    <2> QED
      BY <2>1, <2>2, <1>k, <1>t, <1>q
  \* A queue with one more element at its end, and perhaps without its first.
  <1>p. ASSUME NEW x \in Items, PutSample(x), UNCHANGED <<trained, batch>>,
               \A s \in Samples : tag'[s] \in Nat /\ tag[s] <= tag'[s],
               x # End => trained + Len(batch) + Len(mq') - 1 <= Late(tag'[x])
        PROVE  InQueue' /\ InBatch'
    <2>1. ASSUME NEW s \in Samples PROVE Late(tag[s]) <= Late(tag'[s]) /\ Late(tag[s]) \in Int
      <3>1. tag[s] \in Nat /\ tag'[s] \in Nat /\ tag[s] <= tag'[s]
        BY <1>h, <1>p
      <3> QED
        BY <3>1, <1>l
    <2>2. /\ mq' \in Seq(Items) /\ mq'[Len(mq')] = x
          /\ Len(mq') = IF Len(mq) >= MaxQueue THEN Len(mq) ELSE Len(mq) + 1
          /\ \A i \in 1..Len(mq') - 1 : mq'[i] = IF Len(mq) >= MaxQueue THEN mq[i + 1] ELSE mq[i]
      <3>1. Len(mq) <= MaxQueue /\ MaxQueue \in Nat \ {0}
        BY <1>a DEF Basics, DataInv
      <3> QED
        BY <1>h, <1>p, <3>1, PutSampleIs, PutFacts
    <2>3. DOMAIN mq' = 1..Len(mq')
      BY <2>2
    <2>4. ASSUME NEW i \in DOMAIN mq', mq'[i] # End
          PROVE  trained + Len(batch) + i - 1 <= Late(tag'[mq'[i]])
      <3>1. CASE i = Len(mq')
        BY <1>p, <2>2, <2>4, <3>1
      <3>2. CASE i # Len(mq')
        <4>1. i \in 1..Len(mq') - 1 /\ i \in Nat
          BY <2>2, <2>3, <3>2, <1>b
        <4>2. PICK j \in Nat : j \in {i, i + 1} /\ j \in DOMAIN mq /\ mq'[i] = mq[j]
          <5>1. CASE Len(mq) >= MaxQueue
            <6>1. i + 1 \in DOMAIN mq /\ mq'[i] = mq[i + 1] /\ i + 1 \in Nat
              BY <5>1, <4>1, <2>2, <1>b, <1>d
            <6> QED
              BY <6>1
          <5>2. CASE ~(Len(mq) >= MaxQueue)
            <6>1. Len(mq') = Len(mq) + 1 /\ mq'[i] = mq[i]
              BY <5>2, <4>1, <2>2
            <6>2. i \in DOMAIN mq
              <7>1. Len(mq') - 1 = Len(mq)
                BY <6>1, <1>b
              <7>2. i \in 1..Len(mq)
                BY <4>1, <7>1
              <7> QED
                BY <7>2, <1>d
            <6> QED
              BY <4>1, <6>1, <6>2
          <5> QED
            BY <5>1, <5>2
        <4>3. PICK s \in Samples : s = mq[j] /\ s = mq'[i]
          BY <4>2, <2>4, <1>e
        <4>4. trained + Len(batch) + j - 1 <= Late(tag[s])
          BY <4>2, <4>3, <2>4, <1>i
        <4>5. Late(tag[s]) <= Late(tag'[s]) /\ Late(tag[s]) \in Int
          BY <2>1
        <4>6. /\ tag'[s] \in Nat /\ tag[s] \in Nat
          BY <1>h, <1>p
        <4>7. Late(tag'[s]) \in Int
          BY <4>6, <1>l
        <4> HIDE DEF Late
        <4>8. trained + Len(batch) + i - 1 <= Late(tag'[s])
          BY <4>1, <4>2, <4>4, <4>5, <4>7, <1>a, <1>b, SMTT(30)
        <4> QED
          BY <4>3, <4>8
      <3> QED
        BY <3>1, <3>2
    <2>5. InQueue'
      BY <2>4, <1>m, <1>p
    <2>6. ASSUME NEW i \in DOMAIN batch PROVE trained + i - 1 <= Late(tag'[batch[i]])
      <3>1. PICK s \in Samples : s = batch[i]
        BY <1>d
      <3>2. trained + i - 1 <= Late(tag[s])
        BY <3>1, <1>i
      <3>3. Late(tag[s]) <= Late(tag'[s]) /\ Late(tag[s]) \in Int
        BY <2>1
      <3>4. tag'[s] \in Nat /\ i \in Nat
        BY <1>p, <1>d
      <3>5. Late(tag'[s]) \in Int
        BY <3>4, <1>l
      <3> HIDE DEF Late
      <3>6. trained + i - 1 <= Late(tag'[s])
        BY <3>2, <3>3, <3>4, <3>5, <1>a
      <3> QED
        BY <3>1, <3>6
    <2> QED
      BY <2>5, <2>6, <1>p
  <1>5. CASE Within(SendEnd)
    <2>1. /\ ~Ended /\ proc' = "stopping" /\ PutSample(End)
          /\ UNCHANGED <<staleness, current, rpc, batch, trained, tag>>
          /\ Ahead' = Ahead \/ Ahead' = Ahead - 1
      BY <1>5, SendLeaves
    <2>2. Room'
      <3>1. /\ Base' = Base
            /\ Used' = Used \/ Used' = Used - 1
        BY <2>1, <1>a, <1>b, <1>r
      <3> HIDE DEF Used
      <3> QED
        BY <1>a, <1>g, <1>i, <1>u, <2>1, <3>1
    <2>3. InQueue' /\ InBatch'
      <3>1. End \in Items
        BY DEF Items
      <3>2. \A s \in Samples : tag'[s] \in Nat /\ tag[s] <= tag'[s]
        BY <1>h, <2>1
      <3> QED
        BY <2>1, <3>1, <3>2, <1>p
    <2> QED
      BY <2>1, <2>2, <2>3, <1>t, <1>q
  <1>6. CASE Within(GetSample)
    <2>1. /\ ~Ended /\ mq # <<>> /\ mq' = Tail(mq)
          /\ UNCHANGED <<proc, staleness, rpc, current, trained, tag>>
      BY <1>6, AheadGets, GetLeaves
    <2>2. /\ mq' \in Seq(Items) /\ Len(mq') = Len(mq) - 1 /\ Len(mq) >= 1
          /\ \A i \in 1..Len(mq) - 1 : mq'[i] = mq[i + 1]
      BY <1>h, <2>1, TailFacts
    <2>3. DOMAIN mq' = 1..Len(mq')
      BY <2>2
    <2>4. ASSUME NEW i \in DOMAIN mq', mq'[i] # End
          PROVE  /\ trained + Len(batch) + i <= Late(tag[mq'[i]]) /\ i \in Nat
                 /\ Late(tag[mq'[i]]) \in Int
      <3>1. i + 1 \in DOMAIN mq /\ mq'[i] = mq[i + 1] /\ i \in Nat
        BY <2>2, <2>3, <1>b, <1>d
      <3>2. PICK s \in Samples : s = mq'[i] /\ s = mq[i + 1]
        BY <3>1, <2>4, <1>e
      <3>3. trained + Len(batch) + (i + 1) - 1 <= Late(tag[s])
        BY <3>1, <3>2, <2>4, <1>i
      <3>4. tag[s] \in Nat
        BY <1>h
      <3>5. Late(tag[s]) \in Int
        BY <3>4, <1>l
      <3> HIDE DEF Late
      <3>6. trained + Len(batch) + i <= Late(tag[s])
        BY <3>1, <3>3, <3>5, <1>a, <1>b
      <3> QED
        BY <3>1, <3>2, <3>5, <3>6
    <2>5. CASE ~Ended' /\ Ahead' = Ahead - 1 /\ batch' = Append(batch, mq[1]) /\ mq[1] \in Samples
      <3>1. /\ batch' \in Seq(Samples) /\ Len(batch') = Len(batch) + 1
            /\ \A i \in 1..Len(batch) : batch'[i] = batch[i]
            /\ batch'[Len(batch) + 1] = mq[1]
        BY <1>h, <2>5, AppendFacts
      <3>2. DOMAIN batch' = 1..Len(batch) + 1
        BY <3>1, <1>b
      <3>3. Room'
        <4>1. Base' = Base /\ Used' = Used
          BY <2>1, <2>5, <3>1, <1>a, <1>b, <1>r
        <4> HIDE DEF Used
        <4> QED
          BY <1>i, <2>1, <4>1
      <3>4. InQueue'
        <4>1. ASSUME NEW i \in DOMAIN mq', mq'[i] # End
              PROVE  trained + Len(batch') + i - 1 <= Late(tag[mq'[i]])
          <5>1. trained + Len(batch) + i <= Late(tag[mq'[i]]) /\ i \in Nat
            BY <2>4, <4>1
          <5>2. trained + Len(batch') + i - 1 = trained + Len(batch) + i
            BY <3>1, <5>1, <1>a, <1>b
          <5> QED
            BY <5>1, <5>2
        <4> QED
          BY <4>1, <2>1, <1>m
      <3>5. InBatch'
        <4>1. ASSUME NEW i \in DOMAIN batch' PROVE trained + i - 1 <= Late(tag[batch'[i]])
          <5>1. CASE i \in 1..Len(batch)
            BY <5>1, <3>1, <1>d, <1>i
          <5>2. CASE i = Len(batch) + 1
            <6>1. mq[1] # End /\ 1 \in DOMAIN mq
              <7>1. End \notin Samples
                BY <1>a, Sizes
              <7> QED
                BY <7>1, <2>2, <2>5, <1>b, <1>d
            <6>2. trained + Len(batch) + 1 - 1 <= Late(tag[mq[1]])
              BY <6>1, <1>i
            <6>3. trained + i - 1 = trained + Len(batch) + 1 - 1
              BY <5>2, <1>a, <1>b
            <6> QED
              BY <5>2, <6>2, <6>3, <3>1
          <5> QED
            BY <5>1, <5>2, <3>2, <1>b
        <4> QED
          BY <4>1, <2>1, <1>m
      <3> QED
        BY <2>1, <3>3, <3>4, <3>5, <1>t, <1>q
    <2>6. CASE Ended' /\ batch' = <<>>
      <3>1. Len(batch') = 0 /\ DOMAIN batch' = {}
        BY <2>6
      <3>2. InBatch'
        BY <3>1
      <3>3. InQueue'
        <4>1. ASSUME NEW i \in DOMAIN mq', mq'[i] # End
              PROVE  trained + 0 + i - 1 <= Late(tag[mq'[i]])
          <5>1. trained + Len(batch) + i <= Late(tag[mq'[i]]) /\ i \in Nat /\ Late(tag[mq'[i]]) \in Int
            BY <2>4, <4>1
          <5> HIDE DEF Late
          <5> QED
            BY <5>1, <1>a, <1>b
        <4> QED
          BY <3>1, <4>1, <2>1, <1>m
      <3> QED
        BY <2>1, <2>6, <3>2, <3>3, <1>t, <1>q
    <2> QED
      BY <1>6, <2>5, <2>6, AheadGets
  <1>7. CASE Within(Train)
    <2>1. /\ ~Ended /\ UNCHANGED <<proc, staleness, mq, rpc, current, tag>> /\ Ahead' = Ahead
          /\ Len(batch) = Required /\ batch' = <<>> /\ Len(batch') = 0 /\ trained' = trained + Required
      BY <1>7, TrainMoves
    <2>2. trained' + Len(batch') = trained + Len(batch)
      BY <2>1, <1>a
    <2>3. Room'
      <3>1. Base' = Base /\ Used' = Used
        BY <2>1, <2>2, <1>r
      <3> HIDE DEF Used
      <3> QED
        BY <1>i, <2>1, <3>1
    <2>4. InQueue'
      BY <2>1, <2>2, <1>i, <1>m
    <2>5. InBatch'
      <3>1. DOMAIN batch' = {}
        BY <2>1
      <3> QED
        BY <3>1
    <2> QED
      BY <2>1, <2>3, <2>4, <2>5, <1>t, <1>q
  <1>8. ASSUME NEW s \in Samples, Within(Generated(s)) PROVE LagInv'
    <2>1. /\ ~Ended /\ PutSample(s) /\ s \in gen /\ tag' = [tag EXCEPT ![s] = current]
          /\ UNCHANGED <<proc, staleness, rpc, current, batch, trained>>
          /\ proc # "stopping" /\ Cardinality(gen') = Cardinality(gen) - 1
          /\ Len(mq') = Len(mq) + 1 \/ Len(mq') = Len(mq)
          /\ Ahead' = Ahead \/ Ahead' = Ahead - 1
      BY <1>8, GeneratedLeaves
    <2>2. Room'
      <3>1. /\ Base' = Base
            /\ Used' = Used \/ Used' = Used - 1
        BY <2>1, <1>a, <1>b, <1>r
      <3> HIDE DEF Used
      <3> QED
        BY <1>a, <1>g, <1>i, <1>u, <2>1, <3>1
    <2>3. \A r \in Samples : tag'[r] \in Nat /\ tag[r] <= tag'[r] /\ tag'[r] <= current
      <3>1. \A r \in Samples : tag[r] \in Nat /\ tag[r] <= current
        BY <1>h, <1>i
      <3>2. \A r \in Samples : tag'[r] = IF r = s THEN current ELSE tag[r]
        BY <1>h, <2>1
      <3> QED
        BY <3>1, <3>2, <1>a
    <2>4. Tags'
      BY <2>1, <2>3, <1>m
    <2>5. trained + Len(batch) + Len(mq') - 1 <= Late(tag'[s])
      <3>1. tag'[s] = current
        BY <1>h, <2>1
      <3>2. Cardinality(gen) >= 1
        <4>1. gen # {} /\ IsFiniteSet(gen)
          BY <2>1, <1>a, Finite DEF Basics, DataInv
        <4> QED
          BY <4>1, <1>b, FS_EmptySet
      <3>3. Used >= trained + Len(batch) + 1 + Len(mq)
        BY <3>2, <2>1, <1>a, <1>b
      <3>4. Used <= Times(current + 1, P) + M + 1
        <4> HIDE DEF Used
        <4> QED
          BY <2>1, <1>a, <1>g, <1>i, <1>u
      <3>5. trained + Len(batch) + Len(mq) <= Late(current)
        <4> HIDE DEF Used
        <4> QED
          BY <3>3, <3>4, <1>a, <1>b, <1>g, <1>u, SMTT(30)
      <3>6. Len(mq') - 1 <= Len(mq) /\ Len(mq') - 1 \in Int
        BY <2>1, <1>b
      <3>7. Late(current) \in Int
        BY <1>a, <1>l
      <3> HIDE DEF Late
      <3>8. trained + Len(batch) + Len(mq') - 1 <= Late(current)
        BY <2>1, <3>5, <3>7, <1>a, <1>b
      <3> QED
        BY <3>1, <3>8
    <2>6. InQueue' /\ InBatch'
      <3>1. s \in Items
        BY DEF Items
      <3> QED
        BY <2>1, <2>3, <2>5, <3>1, <1>p
    <2> QED
      BY <2>1, <2>2, <2>4, <2>6, <1>q
  <1>9. ASSUME NEW s \in Samples, Within(Cancelled(s)) PROVE LagInv'
    <2>1. /\ ~Ended /\ UNCHANGED <<proc, staleness, rpc, current, batch, trained, mq, tag>>
          /\ Ahead' = Ahead
      BY <1>9, CancelledLeaves
    <2>2. Room'
      BY <1>i, <1>r, <2>1
    <2> QED
      BY <2>1, <2>2, <1>k, <1>t, <1>q
  <1>10. CASE Restart
    <2>1. Ahead' = 0 /\ ~Ended' /\ trained' = taken' /\ taken' = Times(ckpt.version, P)
      BY <1>0, <1>10, RestartMoves
    <2>2. /\ mq' = <<>> /\ batch' = <<>> /\ current' = ckpt.version /\ rpc' = "idle" /\ staleness' = 0
          /\ proc' = "top" /\ tag' = [s \in Samples |-> 0]
      BY <1>10 DEF Restart
    <2>3. ckpt.version \in Nat /\ ckpt.version \in Int /\ P \in Nat
      BY <1>a DEF Basics, DataInv
    <2>4. Times(ckpt.version + 1, P) = Times(ckpt.version, P) + P /\ Times(ckpt.version, P) \in Nat
      BY <2>3, TimesFacts
    <2>5. PICK n \in Nat : Times(ckpt.version, P) = n
      BY <2>4
    <2>6. Base' = n + P
      BY <2>2, <2>4, <2>5 DEF Base
    <2>7. Used' = n
      <3>1. Len(batch') = 0 /\ trained' = n
        BY <2>1, <2>2, <2>5
      <3> QED
        BY <2>1, <2>5, <3>1
    <2>8. Room'
      <3> HIDE DEF Used
      <3> QED
        BY <2>2, <2>6, <2>7, <1>a
    <2>9. InQueue' /\ InBatch'
      <3>1. DOMAIN mq' = {} /\ DOMAIN batch' = {}
        BY <2>2
      <3> QED
        BY <3>1
    <2>10. Tags'
      BY <2>2, <2>3, <1>m
    <2> QED
      BY <2>8, <2>9, <2>10, <1>q
  <1> QED
    BY <1>1, <1>2, <1>3, <1>4, <1>5, <1>6, <1>7, <1>8, <1>9, <1>10, Movers

-----------------------------------------------------------------------------
(* Staleness threshold 0.                                                  *)

\* A monitor that is before the synchronizer's call stays before it.
LEMMA TailOrder ==
    ASSUME NEW q \in Seq(Users), q # <<>>, Before(q)
    PROVE  Before(Tail(q))
PROOF
  <1>1. /\ Len(Tail(q)) = Len(q) - 1 /\ Len(q) \in Nat /\ Len(q) >= 1 /\ Tail(q) \in Seq(Users)
        /\ \A i \in 1..Len(q) - 1 : Tail(q)[i] = q[i + 1]
    BY TailFacts
  <1>2. DOMAIN Tail(q) = 1..Len(q) - 1 /\ DOMAIN q = 1..Len(q)
    BY <1>1
  <1>3. ASSUME NEW i \in DOMAIN Tail(q), NEW j \in DOMAIN Tail(q),
               Tail(q)[i] = "monitor", Tail(q)[j] = "rpc"
        PROVE  i < j
    <2>1. i + 1 \in DOMAIN q /\ j + 1 \in DOMAIN q /\ q[i + 1] = "monitor" /\ q[j + 1] = "rpc"
      BY <1>1, <1>2, <1>3
    <2>2. i + 1 < j + 1 /\ i \in Int /\ j \in Int
      BY <2>1, <1>2 DEF Before
    <2> QED
      BY <2>2
  <1> QED
    BY <1>3 DEF Before

\* Nor when someone else comes behind it.
LEMMA AppendOrder ==
    ASSUME NEW q \in Seq(Users), NEW p \in Users, Before(q), p # "monitor",
           p = "rpc" => ~Among("rpc", q)
    PROVE  Before(Append(q, p))
PROOF
  <1>1. /\ Append(q, p) \in Seq(Users) /\ Len(Append(q, p)) = Len(q) + 1 /\ Len(q) \in Nat
        /\ \A i \in 1..Len(q) : Append(q, p)[i] = q[i]
        /\ Append(q, p)[Len(q) + 1] = p
    BY AppendFacts
  <1>2. DOMAIN Append(q, p) = 1..Len(q) + 1 /\ DOMAIN q = 1..Len(q)
    BY <1>1
  <1>3. ASSUME NEW i \in DOMAIN Append(q, p), NEW j \in DOMAIN Append(q, p),
               Append(q, p)[i] = "monitor", Append(q, p)[j] = "rpc"
        PROVE  i < j
    <2>1. i \in 1..Len(q) /\ q[i] = "monitor"
      BY <1>1, <1>2, <1>3
    <2>2. CASE j \in 1..Len(q)
      BY <2>1, <2>2, <1>1, <1>2, <1>3 DEF Before
    <2>3. CASE j = Len(q) + 1
      BY <2>1, <2>3, <1>1
    <2> QED
      BY <2>2, <2>3, <1>1, <1>2
  <1> QED
    BY <1>3 DEF Before

\* The counter, when it is exact, leaves no room in which the queue would be full.
LEMMA NeverFull ==
    ASSUME Basics, config.threshold = 0, StrictInv, ~Ended, ~Settling,
           gen # {} \/ taken = DONE, proc # "stopping"
    PROVE  Len(mq) < MaxQueue
PROOF
  <1>1. /\ config \in Configs /\ staleness \in Nat /\ step \in 1..TriggerStep
    BY DEF Basics, PlaceInv, DataInv
  <1>2. MaxQueue = MaxRequired /\ MaxRequired \in Nat /\ Required \in Nat /\ TriggerStep \in Nat
    BY <1>1, Sizes
  <1>3. Exact /\ staleness <= MaxRequired
    BY DEF StrictInv, ExactInv
  <1>4. Times(step - 1, Required) \in Nat
    <2>1. step - 1 \in Int /\ step - 1 \in Nat
      BY <1>1, <1>2
    <2> QED
      BY <2>1, <1>2, TimesFacts
  <1>5. /\ Ahead \in Nat /\ Len(mq) \in Nat /\ Queued \in Nat /\ Len(batch) \in Nat
        /\ Cardinality(gen) \in Nat /\ Len(cancelQ) \in Nat
        /\ Cardinality(gen) + Len(cancelQ) + Queued <= Ahead
    BY AheadTypes
  <1>6. PICK t \in Nat : t = Times(step - 1, Required)
    BY <1>4
  <1>7. staleness = Ahead + Len(batch) + t + (IF taken = DONE THEN 1 ELSE 0)
    BY <1>3, <1>6 DEF Exact
  <1>8. CASE gen # {}
    <2>1. Cardinality(gen) >= 1
      <3>1. IsFiniteSet(gen)
        BY <1>1, Finite DEF Basics, DataInv
      <3> QED
        BY <3>1, <1>5, <1>8, FS_EmptySet
    <2>2. Queued = Len(mq)
      BY AheadTypes
    <2> QED
      BY <1>1, <1>2, <1>3, <1>5, <1>7, <2>1, <2>2
  <1>9. CASE taken = DONE
    <2>1. Queued = Len(mq)
      BY <1>9, AheadTypes
    <2> QED
      BY <1>1, <1>2, <1>3, <1>5, <1>7, <1>9, <2>1
  <1> QED
    BY <1>8, <1>9

\* Where nothing moves, neither the processor nor the Trainer has anything to do.
LEMMA Blocked ==
    ASSUME Basics, config.threshold = 0, StrictInv, ~Ended, Settling \/ CallRuns
    PROVE  /\ Still /\ gen = {} /\ hand = End /\ mq = <<>> /\ batch = <<>> /\ taken # DONE /\ proc # "take"
           /\ Settling => ShouldPause
           /\ paused \/ ShouldPause
PROOF
  <1>1. config \in Configs /\ staleness \in Nat
    BY DEF Basics, PlaceInv, DataInv
  <1>2. MaxRequired \in Nat
    BY <1>1, Sizes
  <1>3. Settling => ShouldPause
    BY <1>1, <1>2 DEF StrictInv, SettleInv, ShouldPause
  <1> QED
    BY <1>3 DEF StrictInv, SettleInv, Still

\* The synchronizer pauses the Rollouter while the Trainer waits for it.
LEMMA PauseSettles ==
    ASSUME Basics, rpc \in {"pause", "gather", "broadcast"}, ~Ended
    PROVE  trainer = "sync" /\ Settling
PROOF
  BY DEF Basics, PhaseInv, Ended, Settling

\* While a synchronization runs nothing is generated, interrupted or thrown away.
LEMMA QuietStep ==
    ASSUME Basics, config.threshold = 0, StrictInv, [Next]_vars
    PROVE  QuietInv'
PROOF
  <1> USE DEF QuietInv
  <1>i. QuietInv
    BY DEF StrictInv
  <1>g. Ended => gen = {}
    BY DEF Basics, EndInv, HandInv
  <1>c. rpc' = rpc => (CallRuns' <=> CallRuns)
    BY DEF CallRuns
  <1> DEFINE Kept == /\ UNCHANGED <<cancelQ, dropped, rpc, stopped, trigger, counted>>
                     /\ gen' = gen \/ gen' \subseteq gen
                     /\ spent' = spent \/ spent' = 0
  <1>k. Kept => QuietInv'
    BY <1>i, <1>c
  <1>1. CASE Bystanders
    <2>1. UNCHANGED <<cancelQ, dropped, gen>>
      BY <1>1, BystandersKeep
    <2>2. CASE Within(PauseBegins)
      <3>1. rpc = "pause" /\ rpc' = "gather"
        BY <2>2 DEF Within, PauseBegins
      <3>2. gen = {}
        BY <3>1, <1>g, PauseSettles, Blocked
      <3> QED
        BY <2>1, <3>1, <3>2, <1>i DEF CallRuns
    <2>3. CASE Within(PauseEnds)
      <3>1. rpc = "gather" /\ rpc' = "broadcast" /\ trigger' = FALSE /\ spent' = 0 /\ UNCHANGED stopped
        BY <2>3 DEF Within, PauseEnds
      <3> QED
        BY <2>1, <3>1, <1>i DEF CallRuns
    <2>4. CASE Within(WeightsMove)
      <3>1. rpc = "broadcast" /\ rpc' = "update" /\ UNCHANGED <<trigger, spent, stopped>>
        BY <2>4 DEF Within, WeightsMove
      <3> QED
        BY <2>1, <3>1, <1>i DEF CallRuns
    <2>5. CASE Within(UpdateBegins)
      <3>1. /\ rpc = "update" /\ rpc' = "count" /\ counted' = Active + Len(cancelQ)
            /\ UNCHANGED <<trigger, stopped>>
        BY <2>5 DEF Within, UpdateBegins
      <3>2. gen = {} /\ spent = 0 /\ cancelQ = <<>>
        BY <3>1, <1>i DEF CallRuns
      <3>3. Cardinality(gen) = 0 /\ Len(cancelQ) = 0
        BY <3>2, FS_EmptySet
      <3>4. counted' = 0
        BY <3>1, <3>2, <3>3 DEF Active
      <3> QED
        BY <2>1, <3>1, <3>4, <1>i DEF CallRuns
    <2>6. CASE Within(UpdateEnds)
      <3>1. rpc = "count" /\ rpc' = "resume" /\ UNCHANGED <<trigger, stopped>>
        BY <2>6 DEF Within, UpdateEnds
      <3> QED
        BY <2>1, <3>1, <1>i DEF CallRuns
    <2>7. CASE Within(Resume)
      <3>1. rpc' = "idle" /\ stopped' = FALSE
        BY <2>7 DEF Within, Resume
      <3> QED
        BY <2>1, <3>1, <1>i DEF CallRuns
    <2>8. CASE Within(StartSync)
      <3>1. rpc = "idle" /\ rpc' = "pause" /\ UNCHANGED stopped
        BY <2>8 DEF Within, StartSync
      <3> QED
        BY <2>1, <3>1, <1>i DEF CallRuns
    <2>9. CASE UNCHANGED <<rpc, stopped, trigger, counted, spent>>
      BY <2>1, <2>9, <1>k
    <2> QED
      BY <1>1, <2>2, <2>3, <2>4, <2>5, <2>6, <2>7, <2>8, <2>9
         DEF Bystanders, Within, Feed, StopRunning, MonitorWakes, MonitorRecovers, MonitorChecks,
             Conclude, Save, vars
  <1>2. CASE Within(Top)
    <2>1. UNCHANGED <<gen, dropped, rpc, counted, stopped, trigger, spent>>
      BY <1>2, TopMoves
    <2>2. cancelQ' = cancelQ
      <3>1. cancelQ # <<>> \/ cancelQ' = cancelQ
        BY <1>2 DEF Within, Top
      <3> QED
        BY <3>1, <1>i
    <2> QED
      BY <2>1, <2>2, <1>k
  <1>3. CASE Within(Take)
    BY <1>3, <1>k, TakeMoves
  <1>4. CASE Within(Locked)
    <2>1. UNCHANGED <<cancelQ, dropped, rpc, stopped, trigger, counted>>
      BY <1>4, LockedMoves
    <2>2. spent' = spent \/ spent' = 0
      BY <1>4 DEF Within, Locked, Reap
    <2>3. CASE UNCHANGED gen
      BY <2>1, <2>2, <2>3, <1>k
    <2>4. CASE hand # End /\ ~paused
      <3>1. ~CallRuns
        BY <2>4, <1>4, LockedMoves, Blocked DEF StrictInv, SettleInv
      <3> QED
        BY <2>1, <2>2, <3>1, <1>i, <1>c
    <2> QED
      BY <1>4, <2>3, <2>4, LockedMoves
  <1>5. CASE Within(SendEnd)
    <2>1. /\ proc = "end" /\ ~Ended /\ UNCHANGED <<gen, cancelQ, rpc, stopped, trigger, counted, spent>>
          /\ dropped' = dropped \/ Len(mq) = MaxQueue
      BY <1>5, SendLeaves
    <2>2. taken = DONE
      BY <2>1 DEF Basics, HandInv
    <2>3. ~Settling
      BY <2>1, <2>2, Blocked
    <2>4. Len(mq) < MaxQueue /\ Len(mq) \in Nat
      BY <2>1, <2>2, <2>3, NeverFull, AheadTypes
    <2> QED
      BY <2>1, <2>4, <1>k
  <1>6. CASE Within(GetSample)
    BY <1>6, <1>k, GetLeaves
  <1>7. CASE Within(Train)
    BY <1>7, <1>k, TrainMoves
  <1>8. ASSUME NEW s \in Samples, Within(Generated(s)) PROVE QuietInv'
    <2>1. /\ s \in gen /\ ~Ended /\ proc # "stopping" /\ gen' = gen \ {s}
          /\ UNCHANGED <<cancelQ, rpc, stopped, trigger, counted>>
          /\ dropped' = dropped \/ Len(mq) = MaxQueue
      BY <1>8, GeneratedLeaves
    <2>2. ~Settling /\ ~CallRuns
      BY <2>1, Blocked
    <2>3. Len(mq) < MaxQueue /\ Len(mq) \in Nat
      BY <2>1, <2>2, NeverFull, AheadTypes
    <2> QED
      BY <2>1, <2>2, <2>3, <1>i, <1>c DEF CallRuns
  <1>9. ASSUME NEW s \in Samples, Within(Cancelled(s)) PROVE QuietInv'
    <2>1. s \in gen /\ stopped
      BY <1>9, CancelledLeaves
    <2> QED
      BY <2>1, <1>i
  <1>10. CASE Restart
    BY <1>10 DEF Restart, CallRuns
  <1> QED
    BY <1>1, <1>2, <1>3, <1>4, <1>5, <1>6, <1>7, <1>8, <1>9, <1>10, Movers

\* From the last sample of an update to the reset of the counter nothing moves.
LEMMA SettleStep ==
    ASSUME Basics, config.threshold = 0, StrictInv, [Next]_vars
    PROVE  SettleInv'
PROOF
  <1> DEFINE Waits == monitor = "recover" /\ rpc = "pause" => Before(lockQ)
             Frozen == CallRuns => paused /\ monitor # "recover" /\ trainer # "wait_valid"
             Counted == Settling => staleness = MaxRequired
             Stands == Settling \/ CallRuns => Still
  <1>i. QuietInv /\ (~Ended => Waits /\ Frozen /\ Counted /\ Stands)
    BY DEF StrictInv, SettleInv
  <1>q. (~Ended' => Waits' /\ Frozen' /\ Counted' /\ Stands') => SettleInv'
    BY DEF SettleInv
  <1>m. MaxRequired' = MaxRequired /\ End' = End /\ DONE' = DONE
    BY SameConfig, SameSizes
  <1>l. lockQ \in Seq(Users) /\ "processor" \in Users /\ "rpc" \in Users
    BY DEF Basics, LockInv, Users
  <1>t. /\ lockQ # <<>> /\ Before(lockQ) => Before(Tail(lockQ)) /\ Before(Append(Tail(lockQ), "processor"))
        /\ Before(lockQ) => Before(Append(lockQ, "processor"))
    <2>1. ASSUME lockQ # <<>>, Before(lockQ)
          PROVE  Before(Tail(lockQ)) /\ Before(Append(Tail(lockQ), "processor"))
      <3>1. Tail(lockQ) \in Seq(Users)
        BY <1>l, <2>1, TailFacts
      <3>2. Before(Tail(lockQ))
        BY <1>l, <2>1, TailOrder
      <3> QED
        BY <1>l, <3>1, <3>2, AppendOrder
    <2> QED
      BY <1>l, <2>1, AppendOrder
  <1>p. ~Ended /\ rpc \in {"pause", "gather", "broadcast"} => trainer = "sync" /\ Settling
    BY PauseSettles
  <1>s. UNCHANGED <<rpc, trainer>> => (Settling' <=> Settling) /\ (CallRuns' <=> CallRuns)
    BY DEF Settling, CallRuns
  <1>v. ~Ended /\ ~Settling /\ ~CallRuns /\ UNCHANGED <<rpc, trainer>> => SettleInv'
    BY <1>p, <1>q, <1>s
  <1>1. CASE Bystanders
    <2>1. /\ UNCHANGED <<taken, hand, gen, mq, batch>> /\ (Ended' <=> Ended)
          /\ proc' = "take" <=> proc = "take"
      BY <1>1, BystandersKeep
    <2> SUFFICES ASSUME ~Ended PROVE Waits' /\ Frozen' /\ Counted' /\ Stands'
      BY <2>1, <1>q
    <2>2. UNCHANGED step => (Still' <=> Still)
      BY <2>1, <1>m DEF Still
    <2>3. CASE Within(MonitorWakes)
      <3>1. /\ UNCHANGED <<rpc, trainer, step, staleness, paused>>
            /\ monitor' = "recover" => trigger /\ ~ShouldPause
        BY <2>3 DEF Within, MonitorWakes, NextRound, rolloutVars, trainVars
      <3>2. CallRuns \/ rpc = "pause" => monitor' # "recover"
        <4>1. Settling => monitor' # "recover"
          BY <3>1, Blocked
        <4>2. CallRuns => rpc = "gather" \/ ~trigger
          BY <1>i DEF CallRuns, QuietInv
        <4> QED
          BY <3>1, <4>1, <4>2, <1>p
      <3> QED
        BY <3>1, <3>2, <2>2, <1>i, <1>m, <1>s
    <2>4. CASE Within(MonitorRecovers)
      <3>1. UNCHANGED <<rpc, trainer, step, staleness>> /\ monitor = "recover" /\ monitor' # "recover"
        BY <2>4 DEF Within, MonitorRecovers, NextRound, rolloutVars, trainVars
      <3> QED
        BY <3>1, <2>2, <1>i, <1>m, <1>s
    <2>5. CASE Within(MonitorChecks)
      <3>1. UNCHANGED <<rpc, trainer, step, staleness, paused>> /\ monitor' # "recover"
        BY <2>5 DEF Within, MonitorChecks, rolloutVars, trainVars
      <3> QED
        BY <3>1, <2>2, <1>i, <1>m, <1>s
    <2>6. CASE Within(StopRunning)
      <3>1. /\ UNCHANGED <<rpc, trainer, step, staleness, paused, monitor>>
            /\ lockQ # <<>> /\ lockQ' = Tail(lockQ)
        BY <2>6 DEF Within, StopRunning, Holds, Leave, rolloutVars, trainVars
      <3>2. Before(lockQ) => Before(lockQ')
        BY <3>1, <1>t
      <3> QED
        BY <3>1, <3>2, <2>2, <1>i, <1>m, <1>s
    <2>7. CASE Within(Feed) \/ UNCHANGED vars
      <3>1. UNCHANGED <<rpc, trainer, step, staleness, paused, monitor, lockQ>>
        BY <2>7 DEF Within, Feed, rolloutVars, trainVars, vars
      <3> QED
        BY <3>1, <2>2, <1>i, <1>m, <1>s
    <2>8. CASE Within(PauseBegins)
      <3>1. /\ rpc = "pause" /\ rpc' = "gather" /\ paused' = TRUE
            /\ UNCHANGED <<trainer, step, staleness, monitor>>
            /\ lockQ # <<>> /\ Head(lockQ) = "rpc"
        BY <2>8 DEF Within, PauseBegins, Holds, rolloutVars, trainVars
      <3>2. trainer = "sync" /\ Settling /\ Settling'
        BY <3>1, <1>p DEF Settling
      <3>3. monitor # "recover"
        <4>1. SUFFICES ASSUME monitor = "recover" PROVE FALSE
          OBVIOUS
        <4>2. Before(lockQ) /\ Among("monitor", lockQ)
          BY <3>1, <4>1, <1>i DEF Basics, LockInv
        <4>3. lockQ[1] = "rpc" /\ 1 \in DOMAIN lockQ /\ DOMAIN lockQ = 1..Len(lockQ)
          <5>1. lockQ[1] = "rpc" /\ Len(lockQ) >= 1
            BY <3>1, <1>l, TailFacts
          <5> QED
            BY <5>1, <1>l
        <4>4. PICK i \in DOMAIN lockQ : lockQ[i] = "monitor"
          BY <4>2 DEF Among
        <4>5. i < 1
          BY <4>2, <4>3, <4>4 DEF Before
        <4> QED
          BY <4>3, <4>4, <4>5
      <3> QED
        BY <3>1, <3>2, <3>3, <2>2, <1>i, <1>m
    <2>9. CASE Within(PauseEnds) \/ Within(WeightsMove) \/ Within(UpdateBegins)
      <3>1. /\ \/ rpc = "gather" /\ rpc' = "broadcast" /\ UNCHANGED trainer
               \/ /\ rpc = "broadcast" /\ rpc' = "update"
                  /\ trainer' = IF trainer = "sync" THEN "save" ELSE "last_wait"
               \/ rpc = "update" /\ rpc' = "count" /\ UNCHANGED trainer
            /\ UNCHANGED <<step, staleness, paused, monitor>>
        BY <2>9 DEF Within, PauseEnds, WeightsMove, UpdateBegins, rolloutVars, trainVars
      <3>2. CallRuns /\ CallRuns' /\ Settling
        BY <3>1, <1>p DEF CallRuns, Settling
      <3> QED
        BY <3>1, <3>2, <2>2, <1>i, <1>m
    <2>10. CASE Within(UpdateEnds) \/ Within(Resume)
      <3>1. /\ \/ rpc = "count" /\ rpc' = "resume" /\ UNCHANGED <<paused, monitor>>
               \/ rpc = "resume" /\ rpc' = "idle"
            /\ UNCHANGED <<step, trainer>>
        BY <2>10 DEF Within, UpdateEnds, Resume, rolloutVars, trainVars
      <3>2. CallRuns /\ trainer \notin {"wait_valid", "sync"}
        <4>1. CallRuns
          BY <3>1 DEF CallRuns
        <4>2. trainer # "sync"
          BY <3>1 DEF Basics, PhaseInv
        <4> QED
          BY <4>1, <4>2, <1>i
      <3>3. ~Settling' /\ (CallRuns' => rpc = "count")
        BY <3>1, <3>2 DEF Settling, CallRuns
      <3> QED
        BY <3>1, <3>2, <3>3, <2>2, <1>i, <1>m
    <2>11. CASE Within(StartSync)
      <3>1. /\ trainer \in {"wait_valid", "last_sync"} /\ rpc = "idle" /\ rpc' = "pause"
            /\ lockQ' = Append(lockQ, "rpc") /\ UNCHANGED <<step, staleness, monitor>>
        BY <2>11 DEF Within, StartSync, Enter, rolloutVars, trainVars
      <3>2. Settling
        BY <3>1 DEF Settling, Ended
      <3>3. ~CallRuns'
        BY <3>1 DEF CallRuns
      <3>4. ~Among("rpc", lockQ)
        BY <3>1 DEF Basics, LockInv
      <3>5. Before(lockQ)
        BY <3>4 DEF Before, Among
      <3>6. Before(lockQ')
        BY <3>1, <3>4, <3>5, <1>l, AppendOrder
      <3> QED
        BY <3>1, <3>2, <3>3, <3>6, <2>2, <1>i, <1>m
    <2>12. CASE Within(Conclude)
      BY <2>12 DEF Within, Conclude, Ended
    <2>13. CASE Save
      <3>1. /\ trainer \in {"save", "last_wait"} /\ trainer' # "wait_valid" /\ trainer' # "sync"
            /\ UNCHANGED <<rpc, step, staleness, paused, monitor, lockQ>>
        BY <2>13 DEF Save, rolloutVars
      <3>2. (Settling' => Settling) /\ (CallRuns' <=> CallRuns)
        BY <3>1 DEF Settling, CallRuns
      <3> QED
        BY <3>1, <3>2, <2>2, <1>i, <1>m
    <2> QED
      BY <1>1, <2>3, <2>4, <2>5, <2>6, <2>7, <2>8, <2>9, <2>10, <2>11, <2>12, <2>13 DEF Bystanders
  <1>2. CASE Within(Top)
    <2>1. /\ ~Ended /\ proc' # "stopping" /\ UNCHANGED <<gen, mq, trainer, batch, step, rpc>>
      BY <1>2, TopMoves DEF trainVars
    <2>2. UNCHANGED <<paused, monitor>>
      BY <1>2 DEF Within, Top
    <2>3. CASE Settling \/ CallRuns
      <3>1. (paused \/ ShouldPause) /\ (Settling => ShouldPause) /\ cancelQ = <<>>
        BY <2>1, <2>3, Blocked DEF StrictInv, QuietInv
      <3>2. proc' # "take" /\ UNCHANGED <<taken, hand, staleness>>
        BY <1>2, <3>1, TopMoves
      <3>3. Still'
        BY <2>1, <2>3, <3>2, <1>i, <1>m DEF Still
      <3>4. lockQ' = Append(lockQ, "processor")
        BY <1>2, <3>1 DEF Within, Top, Enter
      <3>5. Before(lockQ) => Before(lockQ')
        BY <3>4, <1>t
      <3> QED
        BY <2>1, <2>2, <3>2, <3>3, <3>5, <1>i, <1>m, <1>q, <1>s
    <2> QED
      BY <2>1, <2>3, <1>v
  <1>3. CASE Within(Take)
    <2>1. ~Ended /\ proc = "take" /\ UNCHANGED <<rpc, trainer>>
      BY <1>3, TakeMoves DEF trainVars
    <2> QED
      BY <2>1, <1>v, Blocked
  <1>4. CASE Within(Locked)
    <2>1. /\ ~Ended /\ proc' # "take" /\ UNCHANGED <<taken, mq, trainer, batch, step, rpc, staleness>>
          /\ \/ UNCHANGED <<gen, hand>>
             \/ hand # End
      BY <1>4, LockedMoves DEF trainVars
    <2>2. /\ UNCHANGED monitor /\ (paused' = paused \/ paused' = TRUE) /\ lockQ # <<>>
          /\ lockQ' = Tail(lockQ) \/ lockQ' = Append(Tail(lockQ), "processor")
      BY <1>4 DEF Within, Locked, Holds, Leave, LeaveAndEnter
    <2>3. CASE Settling \/ CallRuns
      <3>1. hand = End
        BY <2>1, <2>3, Blocked
      <3>2. Still'
        BY <2>1, <2>3, <3>1, <1>i, <1>m DEF Still
      <3>3. Before(lockQ) => Before(lockQ')
        BY <2>2, <1>t
      <3> QED
        BY <2>1, <2>2, <3>2, <3>3, <1>i, <1>m, <1>q, <1>s
    <2> QED
      BY <2>1, <2>3, <1>v
  <1>5. CASE Within(SendEnd)
    <2>1. ~Ended /\ proc = "end" /\ UNCHANGED <<rpc, trainer>>
      BY <1>5, SendLeaves
    <2>2. taken = DONE
      BY <2>1 DEF Basics, HandInv
    <2> QED
      BY <2>1, <2>2, <1>v, Blocked
  <1>6. CASE Within(GetSample)
    <2>1. ~Ended /\ trainer = "collect" /\ mq # <<>> /\ UNCHANGED rpc /\ (~Ended' => UNCHANGED trainer)
      <3>1. ~Ended' => UNCHANGED trainer
        BY <1>6 DEF Within, GetSample, Ended
      <3> QED
        BY <1>6, <3>1, AheadGets, GetLeaves
    <2> QED
      BY <2>1, <1>q, <1>v, Blocked
  <1>7. CASE Within(Train)
    <2>1. /\ ~Ended /\ trainer = "collect" /\ Ahead' = Ahead /\ batch' = <<>>
          /\ UNCHANGED <<taken, hand, proc, staleness, gen, mq, rpc, monitor, lockQ>>
          /\ Len(batch) = Required
          /\ \/ UNCHANGED trainer
             \/ step = TriggerStep /\ step' = 1 /\ trainer' = "wait_valid"
      BY <1>7, TrainMoves
    <2>2. /\ config \in Configs /\ staleness \in Nat /\ Ahead \in Nat /\ Len(mq) \in Nat
          /\ Cardinality(gen) \in Nat /\ Len(cancelQ) \in Nat /\ Queued \in Nat
          /\ (proc # "stopping" => Queued = Len(mq))
      BY AheadTypes DEF Basics, PlaceInv, DataInv
    <2>3. /\ Required \in Nat \ {0} /\ MaxRequired = PerUpdate /\ PerUpdate \in Nat
          /\ TriggerStep \in Nat
      BY <2>2, Sizes
    <2>4. ~Settling /\ ~CallRuns
      <3>1. batch # <<>>
        BY <2>1, <2>3
      <3> QED
        BY <2>1, <3>1, Blocked
    <2>5. CASE step = TriggerStep /\ step' = 1 /\ trainer' = "wait_valid"
      <3>1. Exact /\ staleness <= MaxRequired /\ (proc = "take" => staleness < MaxRequired)
        BY <2>1, <2>4 DEF StrictInv, ExactInv
      <3>2. Times(step - 1, Required) = PerUpdate - Required
        <4>1. PerUpdate = Times(TriggerStep, Required) /\ TriggerStep \in Int /\ Required \in Nat
          BY <2>2, <2>3, Sizes
        <4>2. Times(TriggerStep - 1, Required) = Times(TriggerStep, Required) - Required
          BY <4>1, TimesFacts
        <4> QED
          BY <4>1, <4>2, <2>5
      <3>3. staleness = Ahead + Required + (PerUpdate - Required) + (IF taken = DONE THEN 1 ELSE 0)
        BY <2>1, <3>1, <3>2 DEF Exact
      <3>4. Ahead = 0 /\ taken # DONE /\ staleness = MaxRequired
        BY <2>2, <2>3, <3>1, <3>3
      <3>5. proc # "take" /\ proc # "stopping"
        BY <2>2, <2>3, <3>1, <3>4 DEF Basics, HandInv
      <3>6. Cardinality(gen) = 0 /\ Len(mq) = 0 /\ hand = End
        BY <2>2, <3>4, <3>5 DEF Ahead
      <3>7. gen = {} /\ mq = <<>>
        <4>1. IsFiniteSet(gen) /\ mq \in Seq(Items)
          BY <2>2, Finite DEF Basics, DataInv
        <4> QED
          BY <4>1, <3>6, FS_EmptySet
      <3>8. Still'
        BY <2>1, <2>5, <3>4, <3>5, <3>6, <3>7, <1>m DEF Still
      <3>9. ~CallRuns' /\ rpc # "pause"
        BY <2>1, <2>4, <1>p DEF CallRuns
      <3> QED
        BY <2>1, <3>4, <3>8, <3>9, <1>m, <1>q
    <2> QED
      BY <2>1, <2>4, <2>5, <1>v
  <1>8. ASSUME NEW s \in Samples, Within(Generated(s)) PROVE SettleInv'
    <2>1. s \in gen /\ ~Ended /\ UNCHANGED <<rpc, trainer>>
      BY <1>8, GeneratedLeaves
    <2> QED
      BY <2>1, <1>v, Blocked
  <1>9. ASSUME NEW s \in Samples, Within(Cancelled(s)) PROVE SettleInv'
    <2>1. s \in gen /\ ~Ended /\ UNCHANGED <<rpc, trainer>>
      BY <1>9, CancelledLeaves
    <2> QED
      BY <2>1, <1>v, Blocked
  <1>10. CASE Restart
    <2>1. rpc' = "idle" /\ trainer' = "collect"
      BY <1>10 DEF Restart
    <2> QED
      BY <2>1, <1>q DEF Settling, CallRuns
  <1> QED
    BY <1>1, <1>2, <1>3, <1>4, <1>5, <1>6, <1>7, <1>8, <1>9, <1>10, Movers

\* At all other times the counter is exact and every sample in the Trainer's reach is fresh.
LEMMA ExactStep ==
    ASSUME Basics, config.threshold = 0, StrictInv, [Next]_vars
    PROVE  ExactInv'
PROOF
  <1> DEFINE Last == IF taken = DONE THEN 1 ELSE 0
             Steps == Times(step - 1, Required)
             Count == /\ staleness = Ahead + Len(batch) + Steps + Last /\ staleness <= MaxRequired
                      /\ proc = "take" => staleness < MaxRequired
             Versions == weights = version /\ current = version
             Gens == \A s \in gen : from[s] = version
             InQueue == \A i \in DOMAIN mq : mq[i] # End => from[mq[i]] = version /\ tag[mq[i]] = version
             InBatch == \A i \in DOMAIN batch : from[batch[i]] = version /\ tag[batch[i]] = version
  <1>i. QuietInv /\ SettleInv /\ (~Ended /\ ~Settling => Count /\ Versions /\ Gens /\ InQueue /\ InBatch)
    BY DEF StrictInv, ExactInv, Exact, Fresh
  <1>q. (~Ended' /\ ~Settling' => Count' /\ Versions' /\ Gens' /\ InQueue' /\ InBatch') => ExactInv'
    BY DEF ExactInv, Exact, Fresh
  <1>m. /\ MaxRequired' = MaxRequired /\ End' = End /\ DONE' = DONE /\ Required' = Required
        /\ Samples' = Samples /\ TotalSteps' = TotalSteps
    BY SameConfig, SameSizes
  <1>a. /\ config \in Configs /\ staleness \in Nat /\ step \in 1..TriggerStep /\ TriggerStep \in Nat
        /\ Required \in Nat \ {0} /\ MaxRequired \in Nat \ {0} /\ taken \in Nat
    <2>1. /\ config \in Configs /\ staleness \in Nat /\ step \in 1..TriggerStep /\ taken \in 0..fed
          /\ fed \in 0..DONE
      BY DEF Basics, PlaceInv, DataInv
    <2> QED
      BY <2>1, Sizes
  <1>h. /\ mq \in Seq(Items) /\ batch \in Seq(Samples) /\ tag \in [Samples -> Nat] /\ from \in [Samples -> Nat]
        /\ gen \subseteq Samples
    BY DEF Basics, DataInv
  <1>b. /\ Ahead \in Nat /\ Len(mq) \in Nat /\ Len(batch) \in Nat /\ DOMAIN mq = 1..Len(mq)
        /\ DOMAIN batch = 1..Len(batch)
    BY <1>h, AheadTypes, ElementsIn
  <1>e. (\A i \in DOMAIN mq : mq[i] # End => mq[i] \in Samples) /\ \A i \in DOMAIN batch : batch[i] \in Samples
    BY <1>h, ElementsIn DEF Items
  <1>s. PICK t \in Nat : t = Steps
    <2>1. step - 1 \in Int /\ step - 1 \in Nat /\ Required \in Nat
      BY <1>a
    <2> QED
      BY <2>1, TimesFacts
  <1>t. UNCHANGED step => t = Steps'
    BY <1>m, <1>s
  <1>z. 1 \in Int /\ Times(0, Required) = 0
    <2>1. 0 \in Int /\ Required \in Nat
      BY <1>a
    <2> QED
      BY <2>1, TimesFacts
  <1> HIDE DEF Steps
  <1>l. UNCHANGED taken => Last' = Last
    BY <1>m
  <1>r. UNCHANGED <<rpc, trainer>> => (Settling' <=> Settling)
    BY DEF Settling
  <1>u. /\ UNCHANGED <<version, gen, from>> => (Gens' <=> Gens)
        /\ UNCHANGED <<version, mq, from, tag>> => (InQueue' <=> InQueue)
        /\ UNCHANGED <<version, batch, from, tag>> => (InBatch' <=> InBatch)
        /\ UNCHANGED <<version, weights, current>> => (Versions' <=> Versions)
    BY <1>m
  <1>1. CASE Bystanders
    <2>1. /\ UNCHANGED <<taken, hand, gen, mq, batch, from, tag>> /\ (Ended' <=> Ended)
          /\ proc' = "take" <=> proc = "take"
          /\ Ahead' = Ahead
      BY <1>1, BystandersKeep
    <2> SUFFICES ASSUME ~Ended, ~Settling' PROVE Count' /\ Versions' /\ Gens' /\ InQueue' /\ InBatch'
      BY <2>1, <1>q
    <2>2. CASE Within(UpdateEnds)
      <3>1. /\ rpc = "count" /\ staleness' = counted + Len(mq)
            /\ UNCHANGED <<version, step, trainer, weights, current>>
        BY <2>2 DEF Within, UpdateEnds, trainVars
      <3>2. Settling /\ CallRuns
        BY <3>1 DEF Settling, CallRuns
      <3>3. Still /\ counted = 0 /\ cancelQ = <<>>
        BY <3>1, <3>2, <1>i, Blocked DEF QuietInv
      <3>4. Cardinality(gen) = 0 /\ Len(mq) = 0 /\ Len(cancelQ) = 0 /\ Len(batch) = 0
        BY <3>3, FS_EmptySet DEF Still
      <3>5. proc # "stopping"
        BY <3>3 DEF Still, Basics, HandInv
      <3>6. Ahead = 0
        BY <3>3, <3>4, <3>5 DEF Ahead, Queued, Still
      <3>7. t = 0
        <4>1. step - 1 = 0
          BY <3>3, <1>a DEF Still
        <4> QED
          BY <4>1, <1>s, <1>z DEF Steps
      <3>8. staleness' = 0 /\ Last' = 0
        BY <2>1, <3>1, <3>3, <3>4, <1>m DEF Still
      <3>9. Count'
        <4>1. Ahead' = 0 /\ Len(batch') = 0 /\ Steps' = 0 /\ proc' # "take"
          BY <2>1, <3>1, <3>3, <3>4, <3>6, <3>7, <1>t DEF Still
        <4> HIDE DEF Last
        <4> QED
          BY <4>1, <3>8, <1>a, <1>m
      <3>10. Versions
        <4>1. trainer \notin {"wait_valid", "sync", "last_sync", "final_sync"}
          <5>1. trainer # "wait_valid"
            BY <3>2, <1>i DEF SettleInv
          <5>2. trainer # "sync"
            BY <3>1 DEF Basics, PhaseInv
          <5> QED
            BY <5>1, <5>2 DEF Ended
        <4>2. version \in Nat /\ weights \in Nat /\ current \in Nat
          BY DEF Basics, DataInv
        <4> QED
          BY <3>1, <4>1, <4>2 DEF Basics, PhaseInv
      <3>11. Gens' /\ InQueue' /\ InBatch'
        <4>1. gen' = {} /\ DOMAIN mq' = {} /\ DOMAIN batch' = {}
          BY <2>1, <3>3, <3>4, <1>b DEF Still
        <4> QED
          BY <4>1
      <3> QED
        BY <3>1, <3>9, <3>10, <3>11, <1>u
    <2>3. CASE ~Settling /\ UNCHANGED <<staleness, version, step, weights, current>>
      <3>1. Count'
        <4>1. Count /\ Steps = t /\ Steps' = t
          BY <2>3, <1>i, <1>s, <1>t
        <4> HIDE DEF Last
        <4> QED
          BY <2>1, <2>3, <4>1, <1>l, <1>m
      <3> QED
        BY <2>1, <2>3, <3>1, <1>i, <1>u
    <2>4. Within(UpdateEnds) \/ (~Settling /\ UNCHANGED <<staleness, version, step, weights, current>>)
      <3>1. CASE Within(PauseBegins) \/ Within(PauseEnds) \/ Within(WeightsMove) \/ Within(UpdateBegins)
        <4>1. \/ rpc \in {"pause", "gather"} /\ UNCHANGED trainer
              \/ rpc' \in {"update", "count"}
          BY <3>1 DEF Within, PauseBegins, PauseEnds, WeightsMove, UpdateBegins, trainVars
        <4>2. Settling'
          BY <4>1, PauseSettles DEF Settling
        <4> QED
          BY <4>2
      <3>2. CASE Within(StartSync) \/ Within(Conclude)
        <4>1. Settling' \/ Ended
          BY <3>2 DEF Within, StartSync, Conclude, Settling, Ended
        <4> QED
          BY <4>1
      <3>3. CASE Save
        <4>1. /\ trainer \in {"save", "last_wait"} /\ UNCHANGED <<rpc, staleness, version, step, weights, current>>
          BY <3>3 DEF Save, rolloutVars
        <4>2. ~Settling
          BY <4>1 DEF Settling
        <4> QED
          BY <4>1, <4>2
      <3>4. CASE Within(Resume)
        <4>1. /\ rpc = "resume" /\ UNCHANGED <<trainer, staleness, version, step, weights, current>>
          BY <3>4 DEF Within, Resume, trainVars
        <4>2. ~Settling
          BY <4>1 DEF Settling
        <4> QED
          BY <4>1, <4>2
      <3>5. CASE UNCHANGED <<rpc, trainer, staleness, version, step, weights, current>>
        BY <3>5, <1>r
      <3>6. \/ Within(PauseBegins) \/ Within(PauseEnds) \/ Within(WeightsMove) \/ Within(UpdateBegins)
            \/ Within(UpdateEnds) \/ Within(StartSync) \/ Within(Conclude) \/ Save \/ Within(Resume)
            \/ UNCHANGED <<rpc, trainer, staleness, version, step, weights, current>>
        BY <1>1 DEF Bystanders, Within, Feed, StopRunning, MonitorWakes, MonitorRecovers, MonitorChecks,
               vars, rolloutVars, trainVars
      <3> QED
        BY <3>1, <3>2, <3>3, <3>4, <3>5, <3>6
    <2> QED
      BY <2>2, <2>3, <2>4
  <1>2. CASE Within(Top)
    <2>1. /\ ~Ended /\ UNCHANGED <<gen, mq, trainer, batch, version, step, rpc, current, weights, from, tag>>
      BY <1>2, TopMoves DEF trainVars
    <2>2. \/ Ahead' = Ahead /\ proc' # "take" /\ UNCHANGED <<taken, staleness>>
          \/ ~ShouldPause /\ Ahead' = Ahead /\ UNCHANGED <<taken, staleness>>
          \/ /\ ~ShouldPause /\ taken' = taken + 1 /\ taken < DONE /\ staleness' = staleness + 1 /\ proc' # "take"
             /\ taken' # DONE => Ahead' = Ahead + 1
             /\ taken' = DONE => Ahead' = Ahead
      BY <1>2, TopMoves
    <2>3. ~ShouldPause => staleness < MaxRequired
      BY <1>a DEF ShouldPause
    <2>4. ~Settling => Count'
      <3>1. SUFFICES ASSUME ~Settling PROVE Count'
        OBVIOUS
      <3>2. Count /\ Steps = t /\ Steps' = t /\ Len(batch') = Len(batch)
        BY <2>1, <3>1, <1>i, <1>s, <1>t
      <3>3. /\ UNCHANGED taken => Last' = Last
            /\ taken < DONE /\ taken' # DONE => Last = 0 /\ Last' = 0
            /\ taken < DONE /\ taken' = DONE => Last = 0 /\ Last' = 1
        BY <1>a, <1>m
      <3>4. Last \in {0, 1}
        OBVIOUS
      <3> HIDE DEF Last
      <3> QED
        BY <2>2, <2>3, <3>2, <3>3, <3>4, <1>a, <1>b, <1>m
    <2> QED
      BY <2>1, <2>4, <1>i, <1>q, <1>r, <1>u
  <1>3. CASE Within(Take)
    <2>1. /\ ~Ended /\ UNCHANGED <<gen, mq, trainer, batch, version, step, rpc, current, weights, from, tag>>
          /\ taken' = taken + 1 /\ taken < DONE /\ staleness' = staleness + 1 /\ proc = "take" /\ proc' # "take"
          /\ taken' # DONE => Ahead' = Ahead + 1
          /\ taken' = DONE => Ahead' = Ahead
      BY <1>3, TakeMoves DEF trainVars
    <2>2. ~Settling => Count'
      <3>1. SUFFICES ASSUME ~Settling PROVE Count'
        OBVIOUS
      <3>2. Count /\ Steps = t /\ Steps' = t /\ Len(batch') = Len(batch)
        BY <2>1, <3>1, <1>i, <1>s, <1>t
      <3>3. /\ taken' # DONE => Last = 0 /\ Last' = 0
            /\ taken' = DONE => Last = 0 /\ Last' = 1
        BY <2>1, <1>a, <1>m
      <3> HIDE DEF Last
      <3> QED
        BY <2>1, <3>2, <3>3, <1>a, <1>b, <1>m
    <2> QED
      BY <2>1, <2>2, <1>i, <1>q, <1>r, <1>u
  <1>4. CASE Within(Locked)
    <2>1. /\ ~Ended /\ proc' # "take" /\ Ahead' = Ahead
          /\ UNCHANGED <<taken, mq, trainer, batch, version, step, rpc, current, weights, staleness, tag>>
          /\ \/ UNCHANGED <<gen, from>>
             \/ hand # End /\ gen' = gen \cup {hand} /\ from' = [from EXCEPT ![hand] = weights]
      BY <1>4, LockedMoves DEF trainVars
    <2>2. ~Settling => Count'
      <3>1. SUFFICES ASSUME ~Settling PROVE Count'
        OBVIOUS
      <3>2. Count /\ Steps = t /\ Steps' = t /\ Len(batch') = Len(batch)
        BY <2>1, <3>1, <1>i, <1>s, <1>t
      <3> HIDE DEF Last
      <3> QED
        BY <2>1, <3>2, <1>l, <1>m
    <2>3. ~Settling => Gens' /\ InQueue' /\ InBatch'
      <3>1. CASE UNCHANGED <<gen, from>>
        BY <2>1, <3>1, <1>i, <1>u
      <3>2. CASE hand # End /\ gen' = gen \cup {hand} /\ from' = [from EXCEPT ![hand] = weights]
        <4>1. hand \in Samples
          BY <3>2 DEF Basics, DataInv
        <4>2. \A s \in Samples : from'[s] = IF s = hand THEN weights ELSE from[s]
          BY <3>2, <4>1, <1>h
        <4> QED
          BY <2>1, <3>2, <4>1, <4>2, <1>e, <1>h, <1>i, <1>m
      <3> QED
        BY <2>1, <3>1, <3>2
    <2> QED
      BY <2>1, <2>2, <2>3, <1>i, <1>q, <1>r, <1>u
  \* What is put in the queue is its last element: the queue is not full.
  <1>p. ASSUME NEW x \in Items, PutSample(x), Len(mq) < MaxQueue
        PROVE  /\ DOMAIN mq' = 1..Len(mq) + 1 /\ mq'[Len(mq) + 1] = x
               /\ \A i \in 1..Len(mq) : mq'[i] = mq[i]
    <2>1. mq' = Append(mq, x)
      <3>1. ~Full
        BY <1>a, <1>b, <1>p, Sizes DEF Full
      <3> QED
        BY <1>p, <3>1 DEF PutSample
    <2> QED
      BY <2>1, <1>h
  <1>5. CASE Within(SendEnd)
    <2>1. /\ ~Ended /\ proc = "end" /\ proc' = "stopping" /\ PutSample(End)
          /\ UNCHANGED <<taken, staleness, gen, rpc, current, trainer, batch, version, step, weights, from, tag>>
          /\ Len(mq) < MaxQueue => Ahead' = Ahead
          /\ taken = DONE /\ Len(mq) \in Nat
      BY <1>5, <1>b, SendLeaves DEF Basics, HandInv
    <2>2. ~Settling
      BY <2>1, Blocked
    <2>3. Len(mq) < MaxQueue
      BY <2>1, <2>2, NeverFull
    <2>4. Count'
      <3>2. Count /\ Steps = t /\ Steps' = t /\ Len(batch') = Len(batch) /\ Ahead' = Ahead /\ proc' # "take"
        BY <2>1, <2>2, <2>3, <1>i, <1>s, <1>t, SendLeaves, <1>5
      <3> HIDE DEF Last
      <3> QED
        BY <2>1, <3>2, <1>l, <1>m
    <2>5. InQueue'
      <3>1. End \in Items
        BY DEF Items
      <3>2. /\ DOMAIN mq' = 1..Len(mq) + 1 /\ mq'[Len(mq) + 1] = End
            /\ \A i \in 1..Len(mq) : mq'[i] = mq[i]
        BY <2>1, <2>3, <3>1, <1>p
      <3>3. \A i \in DOMAIN mq' : mq'[i] # End => i \in DOMAIN mq /\ mq'[i] = mq[i]
        BY <3>2, <1>b
      <3> QED
        BY <2>1, <2>2, <3>3, <1>i, <1>m
    <2> QED
      BY <2>1, <2>2, <2>4, <2>5, <1>i, <1>q, <1>u
  <1>6. CASE Within(GetSample)
    <2>1. /\ ~Ended /\ mq # <<>> /\ mq' = Tail(mq)
          /\ UNCHANGED <<taken, proc, staleness, gen, rpc, current, version, step, weights, from, tag>>
          /\ \/ /\ ~Ended' /\ Ahead' = Ahead - 1 /\ batch' = Append(batch, mq[1])
                /\ mq[1] # End /\ mq[1] \in Samples
             \/ Ended'
      BY <1>6, AheadGets, GetLeaves
    <2>2. ~Settling
      BY <2>1, Blocked
    <2>3. CASE Ended'
      BY <2>3, <1>q
    <2>4. CASE Ahead' = Ahead - 1 /\ batch' = Append(batch, mq[1]) /\ mq[1] # End /\ mq[1] \in Samples
      <3>1. /\ Len(batch') = Len(batch) + 1 /\ DOMAIN batch' = 1..Len(batch) + 1
            /\ \A i \in 1..Len(batch) : batch'[i] = batch[i]
            /\ batch'[Len(batch) + 1] = mq[1]
        BY <2>4, <1>h
      <3>2. /\ Len(mq') = Len(mq) - 1 /\ Len(mq) >= 1 /\ mq' \in Seq(Items)
            /\ \A i \in 1..Len(mq) - 1 : mq'[i] = mq[i + 1]
        BY <2>1, <1>h, TailFacts
      <3>3. DOMAIN mq' = 1..Len(mq) - 1
        BY <3>2
      <3>4. Count'
        <4>1. Count /\ Steps = t /\ Steps' = t
          BY <2>1, <2>2, <1>i, <1>s, <1>t
        <4>2. Last \in {0, 1}
          OBVIOUS
        <4> HIDE DEF Last
        <4> QED
          BY <2>1, <2>4, <3>1, <4>1, <4>2, <1>a, <1>b, <1>l, <1>m
      <3>5. InQueue'
        <4>1. \A i \in DOMAIN mq' : i + 1 \in DOMAIN mq /\ mq'[i] = mq[i + 1]
          BY <3>2, <3>3, <1>b
        <4> QED
          BY <2>1, <2>2, <4>1, <1>i, <1>m
      <3>6. InBatch'
        <4>1. 1 \in DOMAIN mq
          BY <3>2, <1>b
        <4>2. from[mq[1]] = version /\ tag[mq[1]] = version
          BY <2>1, <2>2, <2>4, <4>1, <1>i
        <4>3. \A i \in DOMAIN batch' : (i \in DOMAIN batch /\ batch'[i] = batch[i]) \/ batch'[i] = mq[1]
          BY <3>1, <1>b
        <4> QED
          BY <2>1, <2>2, <4>2, <4>3, <1>i
      <3> QED
        BY <2>1, <2>2, <3>4, <3>5, <3>6, <1>i, <1>q, <1>u
    <2> QED
      BY <2>1, <2>3, <2>4
  <1>7. CASE Within(Train)
    <2>1. /\ ~Ended /\ Ahead' = Ahead /\ batch' = <<>> /\ Len(batch') = 0 /\ Len(batch) = Required
          /\ UNCHANGED <<taken, proc, staleness, gen, mq, rpc, current, weights, from, tag>>
          /\ \/ step' = step + 1 /\ UNCHANGED <<version, trainer>>
             \/ trainer' = "wait_valid"
      BY <1>7, TrainMoves
    <2>2. ~Settling
      <3>1. batch # <<>>
        BY <2>1, <1>a
      <3> QED
        BY <2>1, <3>1, Blocked
    <2>3. CASE trainer' = "wait_valid"
      BY <2>3, <1>q DEF Settling
    <2>4. CASE step' = step + 1 /\ UNCHANGED <<version, trainer>>
      <3>1. Steps' = t + Required
        <4>1. step - 1 \in Int /\ Required \in Nat /\ step' - 1 = (step - 1) + 1
          BY <2>4, <1>a
        <4>2. Times((step - 1) + 1, Required) = Times(step - 1, Required) + Required
          BY <4>1, TimesFacts
        <4> QED
          BY <4>1, <4>2, <1>m, <1>s DEF Steps
      <3>2. Count'
        <4>1. Count /\ Steps = t
          BY <2>1, <2>2, <1>i, <1>s
        <4>2. Last \in {0, 1}
          OBVIOUS
        <4> HIDE DEF Last
        <4> QED
          BY <2>1, <3>1, <4>1, <4>2, <1>a, <1>b, <1>l, <1>m
      <3>3. InBatch'
        <4>1. DOMAIN batch' = {}
          BY <2>1
        <4> QED
          BY <4>1
      <3> QED
        BY <2>1, <2>2, <2>4, <3>2, <3>3, <1>i, <1>q, <1>u
    <2> QED
      BY <2>1, <2>3, <2>4
  <1>8. ASSUME NEW s \in Samples, Within(Generated(s)) PROVE ExactInv'
    <2>1. /\ ~Ended /\ PutSample(s) /\ s \in gen /\ gen' = gen \ {s} /\ tag' = [tag EXCEPT ![s] = current]
          /\ UNCHANGED <<taken, proc, staleness, rpc, current, trainer, batch, version, step, weights, from>>
          /\ Len(mq) < MaxQueue /\ Len(mq) \in Nat /\ MaxQueue \in Nat => Ahead' = Ahead
          /\ proc # "stopping"
      BY <1>8, GeneratedLeaves
    <2>2. ~Settling
      BY <2>1, Blocked
    <2>3. Len(mq) < MaxQueue /\ Ahead' = Ahead
      <3>1. Len(mq) < MaxQueue
        BY <2>1, <2>2, NeverFull
      <3>2. MaxQueue \in Nat
        BY <1>a, Sizes
      <3> QED
        BY <2>1, <3>1, <3>2, <1>b
    <2>4. Count'
      <3>1. Count /\ Steps = t /\ Steps' = t /\ Len(batch') = Len(batch)
        BY <2>1, <2>2, <1>i, <1>s, <1>t
      <3> HIDE DEF Last
      <3> QED
        BY <2>1, <2>3, <3>1, <1>l, <1>m
    <2>5. \A r \in Samples : tag'[r] = IF r = s THEN current ELSE tag[r]
      BY <2>1, <1>h
    <2>6. InQueue'
      <3>1. s \in Items
        BY DEF Items
      <3>2. /\ DOMAIN mq' = 1..Len(mq) + 1 /\ mq'[Len(mq) + 1] = s
            /\ \A i \in 1..Len(mq) : mq'[i] = mq[i]
        BY <2>1, <2>3, <3>1, <1>p
      <3>3. \A i \in DOMAIN mq' : (i \in DOMAIN mq /\ mq'[i] = mq[i]) \/ mq'[i] = s
        BY <3>2, <1>b
      <3>4. from[s] = version /\ tag'[s] = version
        BY <2>1, <2>2, <2>5, <1>i
      <3>5. \A i \in DOMAIN mq : mq[i] # End => from[mq[i]] = version /\ tag'[mq[i]] = version
        BY <2>1, <2>2, <2>5, <1>e, <1>i
      <3> QED
        BY <2>1, <3>3, <3>4, <3>5, <1>m
    <2>7. InBatch'
      BY <2>1, <2>2, <2>5, <1>e, <1>i
    <2> QED
      BY <2>1, <2>2, <2>4, <2>6, <2>7, <1>i, <1>q, <1>u
  <1>9. ASSUME NEW s \in Samples, Within(Cancelled(s)) PROVE ExactInv'
    <2>1. s \in gen /\ stopped
      BY <1>9, CancelledLeaves
    <2> QED
      BY <2>1, <1>i DEF QuietInv
  <1>10. CASE Restart
    <2>1. Ahead' = 0 /\ taken' < TotalSteps /\ taken' \in Nat
      BY <1>10, RestartMoves
    <2>2. /\ gen' = {} /\ mq' = <<>> /\ batch' = <<>> /\ staleness' = 0 /\ proc' = "top" /\ step' = 1
          /\ version' = ckpt.version /\ weights' = ckpt.version /\ current' = ckpt.version
      BY <1>10 DEF Restart
    <2>3. Len(batch') = 0 /\ DOMAIN mq' = {} /\ DOMAIN batch' = {}
      BY <2>2
    <2>4. Steps' = 0
      <3>1. step' - 1 = 0
        BY <2>2
      <3> QED
        BY <3>1, <1>m, <1>z DEF Steps
    <2>5. Last' = 0
      <3>1. TotalSteps \in Nat /\ DONE = TotalSteps + 1
        BY <1>a, Sizes
      <3> QED
        BY <2>1, <3>1, <1>m
    <2>6. Count'
      <3> HIDE DEF Last
      <3> QED
        BY <2>1, <2>2, <2>3, <2>4, <2>5, <1>a, <1>m
    <2> QED
      BY <2>2, <2>3, <2>6, <1>q
  <1> QED
    BY <1>1, <1>2, <1>3, <1>4, <1>5, <1>6, <1>7, <1>8, <1>9, <1>10, Movers


-----------------------------------------------------------------------------
(* What a restart skips at threshold 0.                                    *)

\* The feeder is never more than a full pending_queue ahead of the processor.
LEMMA FeedStep ==
    ASSUME Basics, fed <= taken + PendingSize, [Next]_vars
    PROVE  fed' <= taken' + PendingSize'
PROOF
  <1>1. /\ PendingSize' = PendingSize /\ DONE' = DONE /\ PendingSize \in Nat /\ DONE \in Nat
        /\ fed \in Nat /\ taken \in Nat
    <2>1. config \in Configs /\ fed \in 0..DONE /\ taken \in 0..fed
      BY DEF Basics, PlaceInv, DataInv
    <2> QED
      BY <2>1, SameConfig, SameSizes, Sizes
  <1>2. CASE Bystanders
    <2>1. taken' = taken
      BY <1>2, BystandersKeep
    <2>2. fed' = fed \/ Within(Feed)
      BY <1>2 DEF Bystanders, Within, StopRunning, MonitorWakes, MonitorRecovers, MonitorChecks,
             PauseBegins, PauseEnds, WeightsMove, UpdateBegins, UpdateEnds, Resume, StartSync,
             Conclude, Save, vars, rolloutVars
    <2>3. Within(Feed) => fed' <= taken + PendingSize
      BY <1>1 DEF Within, Feed
    <2> QED
      BY <2>1, <2>2, <2>3, <1>1
  <1>3. CASE Within(Top)
    <2>1. fed' = fed /\ (taken' = taken \/ taken' = taken + 1)
      BY <1>3, TopMoves DEF Within, Top
    <2> QED
      BY <2>1, <1>1
  <1>4. CASE Within(Take)
    <2>1. fed' = fed /\ taken' = taken + 1
      BY <1>4, TakeMoves DEF Within, Take
    <2> QED
      BY <2>1, <1>1
  <1>5. CASE Restart
    <2>1. PICK n \in Nat : taken' = n
      BY <1>5, RestartMoves
    <2>2. fed' = IF n + PendingSize < DONE THEN n + PendingSize ELSE DONE
      BY <1>5, <2>1 DEF Restart
    <2> QED
      BY <2>1, <2>2, <1>1
  <1>6. CASE UNCHANGED <<fed, taken>>
    BY <1>6, <1>1
  <1>7. \/ Bystanders \/ Within(Top) \/ Within(Take) \/ Restart \/ UNCHANGED <<fed, taken>>
    BY Movers DEF Within, Locked, SendEnd, GetSample, Train, Generated, Cancelled, rolloutVars
  <1> QED
    BY <1>2, <1>3, <1>4, <1>5, <1>6, <1>7

\* The last synchronization comes when everything has been trained on, but for
\* less than an update.
LEMMA FinalStep ==
    ASSUME Basics, AccountInv, cancelQ = <<>>, dropped = 0,
           trainer \in {"last_sync", "final_sync", "last_wait"} => Times(version, PerUpdate) >= TotalSteps,
           [Next]_vars
    PROVE  trainer' \in {"last_sync", "final_sync", "last_wait"}
              => Times(version', PerUpdate') >= TotalSteps'
PROOF
  <1>1. PerUpdate' = PerUpdate /\ TotalSteps' = TotalSteps
    BY SameConfig, SameSizes
  <1>2. CASE UNCHANGED version /\ (trainer' = trainer \/ trainer' \notin {"last_sync", "final_sync", "last_wait"})
    BY <1>1, <1>2
  <1>3. CASE trainer' \notin {"last_sync", "final_sync", "last_wait"}
    BY <1>3
  <1>4. CASE Within(StartSync)
    <2>1. UNCHANGED version /\ (trainer = "last_sync" \/ trainer' = "sync")
      BY <1>4 DEF Within, StartSync
    <2> QED
      BY <2>1, <1>1
  <1>5. CASE Within(WeightsMove)
    <2>1. UNCHANGED version /\ rpc = "broadcast" /\ trainer' = (IF trainer = "sync" THEN "save" ELSE "last_wait")
      BY <1>5 DEF Within, WeightsMove
    <2>2. trainer \in {"sync", "final_sync"}
      BY <2>1 DEF Basics, PhaseInv
    <2> QED
      BY <2>1, <2>2, <1>1
  <1>6. CASE Within(Conclude) /\ trainer' = "last_sync"
    <2>1. trainer = "end_wait" /\ version' = version + 1
      BY <1>6 DEF Within, Conclude
    <2>2. trained = Times(version, PerUpdate) + Times(step - 1, Required)
      BY <2>1 DEF Basics, PhaseInv
    <2>3. TotalSteps - trained - dropped - Len(cancelQ) \in 0..Required - 1
      BY <2>1 DEF AccountInv, Ended
    <2>4. /\ version \in Nat /\ step \in 1..TriggerStep /\ trained \in Nat /\ config \in Configs
      BY DEF Basics, DataInv, PlaceInv
    <2>5. /\ TotalSteps \in Nat /\ Required \in Nat \ {0} /\ TriggerStep \in Nat /\ PerUpdate \in Nat
      BY <2>4, Sizes
    <2>6. Len(cancelQ) = 0
      OBVIOUS
    <2>7. TotalSteps < trained + Required
      BY <2>3, <2>4, <2>5, <2>6
    <2>8. version \in Int /\ step - 1 \in Int /\ step \in Int /\ TriggerStep \in Int /\ Required \in Nat
          /\ step <= TriggerStep
      BY <2>4, <2>5
    <2>9. Times(version + 1, PerUpdate) = Times(version, PerUpdate) + PerUpdate /\ Times(version, PerUpdate) \in Int
      BY <2>5, <2>8, TimesFacts
    <2>10. Times(step - 1, Required) = Times(step, Required) - Required /\ Times(step, Required) \in Int
      BY <2>8, TimesFacts
    <2>11. Times(step, Required) <= Times(TriggerStep, Required)
      BY <2>8, TimesGrows
    <2>12. PerUpdate = Times(TriggerStep, Required)
      BY <2>4, Sizes
    <2>13. Times(step, Required) <= PerUpdate
      BY <2>11, <2>12
    <2>14. Times(version + 1, PerUpdate) >= TotalSteps
      BY <2>2, <2>5, <2>7, <2>9, <2>10, <2>13
    <2> QED
      BY <2>1, <2>14, <1>1
  <1>7. CASE Within(Conclude) /\ trainer' # "last_sync"
    <2>1. trainer' = "done"
      BY <1>7 DEF Within, Conclude
    <2> QED
      BY <2>1
  <1>8. \/ UNCHANGED <<version, trainer>>
        \/ UNCHANGED version /\ trainer' \notin {"last_sync", "final_sync", "last_wait"}
        \/ trainer' \notin {"last_sync", "final_sync", "last_wait"}
        \/ Within(StartSync) \/ Within(WeightsMove) \/ Within(Conclude)
    BY Kinds DEF Within, Feed, Top, Take, Locked, SendEnd, StopRunning, MonitorWakes, MonitorRecovers,
           MonitorChecks, PauseBegins, PauseEnds, UpdateBegins, UpdateEnds, Resume, GetSample, Train,
           Generated, Cancelled, Save, Restart, vars, trainVars
  <1> QED
    BY <1>2, <1>3, <1>4, <1>5, <1>6, <1>7, <1>8

\* A checkpoint in the loop skips at most one update's samples, a full
\* pending_queue and the sample the feeder waits to put.
LEMMA SaveSkips ==
    ASSUME Basics, AccountInv, config.threshold = 0, StrictInv, fed <= taken + PendingSize,
           trainer = "save"
    PROVE  /\ StepsOf(version) \in Nat /\ StepsOf(version) <= Drawn
           /\ Drawn <= StepsOf(version) + SkipUnit
PROOF
  <1>1. /\ fed \in 0..DONE /\ taken \in 0..fed /\ version \in Nat /\ trained \in Nat /\ config \in Configs
        /\ staleness \in Nat /\ dropped \in Nat
    BY DEF Basics, DataInv, PlaceInv
  <1>2. /\ TotalSteps \in Nat \ {0} /\ PendingSize \in Nat \ {0} /\ MaxRequired \in Nat \ {0}
        /\ Required \in Nat /\ PerUpdate \in Nat /\ DONE = TotalSteps + 1
    BY <1>1, Sizes
  <1>3. ~Ended /\ batch = <<>> /\ step = 1
    BY DEF Ended, Basics, PhaseInv
  <1>4. Len(batch) = 0
    BY <1>3
  <1>5. trained = StepsOf(version)
    <2>1. trained = Times(version, PerUpdate) + Times(step - 1, Required)
      BY <1>3 DEF Basics, PhaseInv
    <2>2. Times(step - 1, Required) = 0
      <3>1. step - 1 = 0
        BY <1>3
      <3>2. 0 \in Int
        OBVIOUS
      <3> QED
        BY <3>1, <3>2, <1>2, TimesFacts
    <2>3. version \in Int
      BY <1>1
    <2>4. StepsOf(version) = Times(version, PerUpdate) /\ Times(version, PerUpdate) \in Int
      BY <2>3, <1>1, <1>2, StepsAre, TimesFacts
    <2> QED
      BY <2>1, <2>2, <2>4
  <1>6. dropped = 0
    BY DEF StrictInv, QuietInv
  <1>7. Ahead \in Nat
    BY AheadTypes
  <1>8. trained + Ahead = IF taken < TotalSteps THEN taken ELSE TotalSteps
    <2>1. trained + Len(batch) + dropped + Ahead = IF taken < TotalSteps THEN taken ELSE TotalSteps
      BY <1>3 DEF AccountInv
    <2>2. trained + 0 + 0 + Ahead = trained + Ahead
      BY <1>1, <1>7
    <2> QED
      BY <2>1, <2>2, <1>4, <1>6
  <1>9. Ahead <= MaxRequired
    <2>1. CASE Settling
      <3>1. Still
        BY <2>1, <1>3 DEF StrictInv, SettleInv
      <3>2. cancelQ = <<>>
        BY DEF StrictInv, QuietInv
      <3>3. Cardinality(gen) = 0 /\ Len(mq) = 0 /\ Len(cancelQ) = 0
        BY <3>1, <3>2, FS_EmptySet DEF Still
      <3>4. proc # "stopping" /\ hand = End
        BY <3>1 DEF Still, Basics, HandInv
      <3> QED
        BY <3>3, <3>4, <1>2 DEF Ahead, Queued
    <2>2. CASE ~Settling
      <3>1. Exact /\ staleness <= MaxRequired
        BY <2>2, <1>3 DEF StrictInv, ExactInv
      <3>2. Times(step - 1, Required) = 0
        <4>1. step - 1 = 0 /\ 0 \in Int
          BY <1>3
        <4> QED
          BY <4>1, <1>2, TimesFacts
      <3> QED
        BY <3>1, <3>2, <1>1, <1>2, <1>4, <1>7 DEF Exact
    <2> QED
      BY <2>1, <2>2
  <1>10. trained <= Drawn /\ Drawn <= trained + SkipUnit
    BY <1>1, <1>2, <1>7, <1>8, <1>9 DEF Drawn, SkipUnit
  <1> QED
    BY <1>1, <1>5, <1>10

\* Neither a step nor a restart makes a restart skip more than that.
LEMMA SkipStep ==
    ASSUME Basics, AccountInv, config.threshold = 0, StrictInv, SkipInv, [Next]_vars
    PROVE  SkipInv'
PROOF
  <1>1. SkipUnit' = SkipUnit /\ PerUpdate' = PerUpdate /\ TotalSteps' = TotalSteps
    BY SameConfig, SameSizes
  <1>2. /\ SkipUnit \in Nat /\ PerUpdate \in Nat /\ TotalSteps \in Nat
    <2>1. config \in Configs
      BY DEF Basics, PlaceInv
    <2> QED
      BY <2>1, Sizes DEF SkipUnit
  <1>3. /\ restarts \in Nat /\ skipped \in Int /\ ckpt \in [version : Nat, skips : Int] /\ version \in Nat
        /\ fed \in 0..DONE
    BY DEF Basics, DataInv
  <1>4. fed' <= taken' + PendingSize'
    BY FeedStep DEF SkipInv
  <1>5. trainer' \in {"last_sync", "final_sync", "last_wait"} => Times(version', PerUpdate') >= TotalSteps'
    BY FinalStep DEF SkipInv, StrictInv, QuietInv
  <1>6. PICK a \in Nat : a = Times(restarts, SkipUnit)
    <2>1. restarts \in Int
      BY <1>3
    <2> QED
      BY <2>1, <1>2, <1>3, TimesFacts
  <1>7. Times(restarts + 1, SkipUnit) = a + SkipUnit
    <2>1. restarts \in Int
      BY <1>3
    <2> QED
      BY <2>1, <1>2, <1>6, TimesFacts
  <1>8. Times(restarts + 1 + 1, SkipUnit) = a + SkipUnit + SkipUnit
    <2>1. restarts + 1 \in Int
      BY <1>3
    <2> QED
      BY <2>1, <1>2, <1>7, TimesFacts
  <1>9. skipped \in 0..a /\ (Times(ckpt.version, PerUpdate) < TotalSteps => ckpt.skips \in 0..a + SkipUnit)
    BY <1>6, <1>7 DEF SkipInv
  <1> DEFINE Now == skipped \in 0..Times(restarts, SkipUnit)
             Later == Times(ckpt.version, PerUpdate) < TotalSteps
                        => ckpt.skips \in 0..Times(restarts + 1, SkipUnit)
  <1>10. Now /\ Later
    BY DEF SkipInv
  <1>11. Now' /\ Later'
    <2>1. CASE UNCHANGED <<ckpt, skipped, restarts>>
      BY <2>1, <1>1, <1>10
    <2>2. CASE Save /\ ckpt' # ckpt
      <3>1. /\ ckpt' = [version |-> version, skips |-> skipped + Drawn - StepsOf(version)]
            /\ UNCHANGED <<skipped, restarts>> /\ trainer \in {"save", "last_wait"}
        BY <2>2 DEF Save
      <3>2. /\ ckpt'.version = version /\ ckpt'.skips = skipped + Drawn - StepsOf(version)
        BY <3>1
      <3>3. CASE trainer = "last_wait"
        <4>1. ~(Times(version, PerUpdate) < TotalSteps)
          <5>1. Times(version, PerUpdate) >= TotalSteps
            BY <3>3 DEF SkipInv
          <5>2. version \in Int
            BY <1>3
          <5>3. Times(version, PerUpdate) \in Int
            BY <5>2, <1>2, TimesFacts
          <5> QED
            BY <5>1, <5>3, <1>2
        <4> QED
          BY <3>1, <3>2, <4>1, <1>1, <1>10
      <3>4. CASE trainer = "save"
        <4>1. StepsOf(version) \in Nat /\ StepsOf(version) <= Drawn /\ Drawn <= StepsOf(version) + SkipUnit
          BY <3>4, SaveSkips DEF SkipInv
        <4>2. Drawn \in Int
          BY <1>2, <1>3 DEF Drawn
        <4>3. skipped + Drawn - StepsOf(version) \in 0..a + SkipUnit
          BY <4>1, <4>2, <1>2, <1>3, <1>9
        <4> QED
          BY <3>1, <3>2, <4>3, <1>1, <1>7, <1>10
      <3> QED
        BY <3>1, <3>3, <3>4
    <2>3. CASE Restart
      <3>1. /\ restarts' = restarts + 1 /\ skipped' = ckpt.skips /\ ckpt' = ckpt
            /\ StepsOf(ckpt.version) < TotalSteps
        BY <2>3 DEF Restart
      <3>2. StepsOf(ckpt.version) = Times(ckpt.version, PerUpdate)
        <4>1. ckpt.version \in Int /\ config \in Configs
          BY <1>3 DEF Basics, PlaceInv
        <4> QED
          BY <4>1, StepsAre
      <3>3. ckpt.skips \in 0..a + SkipUnit
        BY <3>1, <3>2, <1>9
      <3>4. Now'
        BY <3>1, <3>3, <1>1, <1>7
      <3>5. ckpt.skips \in 0..a + SkipUnit + SkipUnit
        BY <3>3, <1>2
      <3>6. Later'
        BY <3>1, <3>5, <1>1, <1>8
      <3> QED
        BY <3>4, <3>6
    <2>4. Save \/ Restart \/ UNCHANGED <<ckpt, skipped, restarts>>
      BY Kinds DEF Within, jobVars, vars
    <2>5. Save => UNCHANGED <<skipped, restarts>>
      BY DEF Save
    <2> QED
      BY <2>1, <2>2, <2>3, <2>4, <2>5
  <1> QED
    BY <1>4, <1>5, <1>11 DEF SkipInv

-----------------------------------------------------------------------------
(* The inductive invariant.                                                *)

Inv == /\ Basics /\ AccountInv /\ BacklogInv /\ LagInv
       /\ config.threshold = 0 => StrictInv /\ SkipInv

\* A job starts with nothing in hand, queued or trained on.
LEMMA InitInv ==
    ASSUME Init
    PROVE  Inv
PROOF
  <1>1. config \in Configs
    BY DEF Init
  <1>2. /\ TotalSteps \in Nat \ {0} /\ Required \in Nat \ {0} /\ TriggerStep \in Nat \ {0}
        /\ PendingSize \in Nat \ {0} /\ PerUpdate \in Nat \ {0} /\ MaxRequired \in Nat \ {0}
        /\ DONE = TotalSteps + 1 /\ MaxQueue = MaxRequired /\ Samples = 1..TotalSteps /\ End = 0
    BY <1>1, Sizes
  <1>3. /\ taken = 0 /\ hand = End /\ fed = (IF PendingSize < DONE THEN PendingSize ELSE DONE)
        /\ proc = "top" /\ monitor = "sleep" /\ lockQ = <<>> /\ busy = FALSE /\ paused = FALSE
        /\ trigger = TRUE /\ running = TRUE /\ gen = {} /\ spent = 0 /\ cancelQ = <<>>
        /\ staleness = 0 /\ current = 0 /\ stopped = FALSE /\ mq = <<>> /\ dropped = 0
        /\ rpc = "idle" /\ counted = 0 /\ trainer = "collect" /\ batch = <<>> /\ trained = 0
        /\ version = 0 /\ step = 1 /\ weights = 0
        /\ skipped = 0 /\ restarts = 0
    BY DEF Init
  <1>4. /\ ckpt = [version |-> 0, skips |-> 0] /\ from = [s \in Samples |-> 0] /\ tag = [s \in Samples |-> 0]
    BY DEF Init
  <1>5. ckpt \in [version : Nat, skips : Int] /\ ckpt.version = 0 /\ ckpt.skips = 0
    BY <1>4
  <1>6. /\ from \in [Samples -> Nat] /\ tag \in [Samples -> Nat] /\ \A s \in Samples : tag[s] = 0
    BY <1>4
  <1>7. /\ Cardinality(gen) = 0 /\ Len(cancelQ) = 0 /\ Len(mq) = 0 /\ Len(batch) = 0
        /\ cancelQ \in Seq(Samples) /\ mq \in Seq(Items) /\ batch \in Seq(Samples)
        /\ DOMAIN mq = {} /\ DOMAIN batch = {} /\ DOMAIN cancelQ = {}
    BY <1>3, FS_EmptySet
  <1>8. \A n \in Nat : Times(0, n) = 0 /\ Times(1, n) = n
    BY DEF Times
  <1>9. ~Ended
    BY <1>3 DEF Ended
  <1>10. Ahead = 0
    BY <1>3, <1>7 DEF Ahead, Queued
  <1>11. PlaceInv
    BY <1>1, <1>3 DEF PlaceInv
  <1>12. LockInv
    <2>1. lockQ \in Seq(Users) /\ OnceEach(lockQ) /\ \A u : ~Among(u, lockQ)
      BY <1>3, Nobody
    <2> QED
      BY <2>1, <1>3 DEF LockInv
  <1>13. DataInv
    <2>1. fed \in 0..DONE /\ taken \in 0..fed
      BY <1>2, <1>3
    <2>2. step \in 1..TriggerStep /\ Len(mq) <= MaxQueue /\ Len(batch) <= Required
      BY <1>2, <1>3, <1>7
    <2>3. hand \in Samples \cup {End} /\ gen \subseteq Samples
      BY <1>3
    <2> QED
      BY <2>1, <2>2, <2>3, <1>3, <1>5, <1>6, <1>7 DEF DataInv
  <1>14. HandInv
    BY <1>2, <1>3 DEF HandInv
  <1>15. EndInv
    BY <1>3, <1>7, <1>9 DEF EndInv
  <1>16. PhaseInv
    <2>1. step - 1 = 0 /\ PerUpdate \in Nat /\ Required \in Nat
      BY <1>2, <1>3
    <2>2. Times(version, PerUpdate) = 0 /\ Times(step - 1, Required) = 0
      BY <2>1, <1>3, <1>8
    <2> QED
      BY <2>2, <1>3 DEF PhaseInv
  <1>17. OneplaceInv
    BY <1>3, <1>7 DEF OneplaceInv
  <1>18. AccountInv
    BY <1>2, <1>3, <1>7, <1>9, <1>10 DEF AccountInv
  <1>19. BacklogInv
    <2>1. Within_(0)
      BY <1>2, <1>3, <1>10 DEF Within_
    <2> QED
      BY <2>1, <1>3 DEF BacklogInv
  <1>20. LagInv
    <2>1. \A n \in Nat : Times(0 + 1, n) = n
      BY DEF Times
    <2>2. Times(current + 1, PerUpdate) = PerUpdate
      BY <2>1, <1>2, <1>3
    <2> QED
      BY <2>2, <1>2, <1>3, <1>6, <1>7, <1>10 DEF LagInv
  <1>21. StrictInv
    <2>1. QuietInv
      BY <1>3 DEF QuietInv, CallRuns
    <2>2. SettleInv
      BY <1>3 DEF SettleInv, Settling, CallRuns
    <2>3. Exact
      <3>1. step - 1 = 0 /\ Required \in Nat /\ taken # DONE
        BY <1>2, <1>3
      <3>2. Times(step - 1, Required) = 0
        BY <3>1, <1>8
      <3> QED
        BY <3>1, <3>2, <1>3, <1>7, <1>10 DEF Exact
    <2>4. ExactInv
      BY <2>3, <1>2, <1>3, <1>7 DEF ExactInv
    <2> QED
      BY <2>1, <2>2, <2>4 DEF StrictInv
  <1>22. SkipInv
    <2>1. SkipUnit \in Nat
      BY <1>2 DEF SkipUnit
    <2>2. Times(restarts, SkipUnit) = 0 /\ Times(restarts + 1, SkipUnit) = SkipUnit
      BY <2>1, <1>3, <1>8
    <2>3. fed <= taken + PendingSize
      BY <1>2, <1>3
    <2> QED
      BY <2>1, <2>2, <2>3, <1>3, <1>5 DEF SkipInv
  <1> QED
    BY <1>11, <1>12, <1>13, <1>14, <1>15, <1>16, <1>17, <1>18, <1>19, <1>20, <1>21, <1>22
    DEF Inv, Basics

\* Every step of the processor, the monitor, the tasks, the calls, the Trainer
\* and a restart keeps it.
LEMMA StepInv ==
    ASSUME Inv, [Next]_vars
    PROVE  Inv'
PROOF
  <1>1. Basics /\ AccountInv /\ BacklogInv /\ LagInv
    BY DEF Inv
  <1>2. Basics'
    BY <1>1, LockStep, DataStep, HandStep, EndStep, PhaseStep, OneplaceStep DEF Basics
  <1>3. AccountInv' /\ BacklogInv' /\ LagInv'
    BY <1>1, AccountStep, BacklogStep, LagStep
  <1>4. config.threshold = 0 => StrictInv' /\ SkipInv'
    <2> SUFFICES ASSUME config.threshold = 0 PROVE StrictInv' /\ SkipInv'
      OBVIOUS
    <2>1. StrictInv /\ SkipInv
      BY DEF Inv
    <2> QED
      BY <2>1, <1>1, QuietStep, SettleStep, ExactStep, SkipStep DEF StrictInv
  <1>5. config' = config
    BY SameConfig
  <1> QED
    BY <1>2, <1>3, <1>4, <1>5 DEF Inv

\* The invariant holds in every state of every job.
LEMMA Invariant ==
    Spec => []Inv
PROOF
  BY InitInv, StepInv, PTL DEF Spec

-----------------------------------------------------------------------------
(* The properties.                                                         *)

\* A whole number of updates fits in what is divided by an update's samples.
LEMMA Quotient ==
    ASSUME NEW n \in Int, NEW p \in Nat \ {0}, NEW m \in Nat, Times(n, p) <= m
    PROVE  n <= m \div p
PROOF
  <1> DEFINE q == m \div p
             r == m % p
  <1>1. q \in Int /\ r \in 0..p - 1 /\ m = p * q + r
    OBVIOUS
  <1> HIDE DEF q, r
  <1>2. ASSUME n >= q + 1 PROVE FALSE
    <2>1. q + 1 \in Int /\ p \in Nat
      BY <1>1
    <2>2. Times(q + 1, p) <= Times(n, p)
      BY <2>1, <1>2, TimesGrows
    <2>3. Times(q + 1, p) = p * q + p
      BY <1>1 DEF Times
    <2>4. p * q \in Int
      BY <1>1
    <2> QED
      BY <2>2, <2>3, <2>4, <1>1 DEF Times
  <1>3. n <= q
    BY <1>1, <1>2
  <1> QED
    BY <1>3 DEF q

\* The samples outstanding are those the counts of the processor, the tasks and
\* the queues add up to.
LEMMA OutstandingIs ==
    ASSUME Basics
    PROVE  Outstanding = Ahead
PROOF
  <1> DEFINE Queue == {i \in DOMAIN mq : mq[i] # End}
             n == IF proc = "stopping" /\ ~Ended THEN Len(mq) - 1 ELSE Len(mq)
  <1>1. mq \in Seq(Items)
    BY DEF Basics, DataInv
  <1>2. DOMAIN mq = 1..Len(mq) /\ Len(mq) \in Nat
    BY <1>1
  <1>3. /\ \A i \in DOMAIN mq : mq[i] = End <=> i = Len(mq) /\ proc = "stopping"
        /\ proc = "stopping" /\ ~Ended => mq # <<>>
        /\ Ended => mq = <<>>
    BY DEF Basics, EndInv
  <1>4. proc = "stopping" /\ ~Ended => Len(mq) >= 1
    BY <1>1, <1>3
  <1>5. Ended => Len(mq) = 0
    BY <1>3
  <1>6. Queue = 1..n
    BY <1>2, <1>3, <1>4, <1>5
  <1>7. n \in Nat
    BY <1>2, <1>4
  <1>8. Cardinality(1..n) = n
    <2>1. 1 \in Int /\ n \in Int
      BY <1>7
    <2>2. Cardinality(1..n) = IF 1 > n THEN 0 ELSE n - 1 + 1
      BY <2>1, FS_Interval
    <2> HIDE DEF n
    <2> QED
      BY <2>2, <1>7
  <1>9. Queued = n
    BY <1>2 DEF Queued
  <1> QED
    BY <1>6, <1>8, <1>9 DEF Outstanding, Ahead

\* A queue's elements stay within the number the code allows, the Rollouter is
\* never further ahead than one sample more than MaxRequired, every sample
\* reaches the Trainer within LagBound updates, and the queue throws away at
\* most one sample per version: the pauses and the reset of staleness_samples
\* bound the backlog, with and without partial rollout, and after restarts.
THEOREM BacklogStaysBounded ==
    Spec => []BacklogBounded
PROOF
  <1>1. ASSUME Inv PROVE BacklogBounded
    <2>1. Basics /\ AccountInv /\ BacklogInv /\ LagInv
      BY <1>1 DEF Inv
    <2>2. /\ config \in Configs /\ dropped \in Nat /\ current \in Nat /\ version \in Nat /\ trained \in Nat
          /\ tag \in [Samples -> Nat] /\ batch \in Seq(Samples) /\ step \in 1..TriggerStep
      BY <2>1 DEF Basics, PlaceInv, DataInv
    <2>3. /\ MaxRequired \in Nat \ {0} /\ PerUpdate \in Nat \ {0} /\ Required \in Nat \ {0}
      BY <2>2, Sizes
    <2>4. TypeOK
      <3>1. /\ lockQ \in Seq({"processor", "monitor", "rpc", "main"})
            /\ \A i, j \in DOMAIN lockQ : lockQ[i] = lockQ[j] => i = j
        BY <2>1 DEF Basics, LockInv, Users, OnceEach
      <3> QED
        BY <2>1, <3>1 DEF TypeOK, Basics, PlaceInv, DataInv, Items
    <2>5. Ahead \in Nat
      BY <2>1, AheadTypes
    <2>6. AheadBounded
      <3>1. Ahead <= MaxRequired + 0 \/ Ahead <= MaxRequired + 1
        BY <2>1 DEF BacklogInv, Within_
      <3> QED
        BY <2>1, <2>3, <2>5, <3>1, OutstandingIs DEF AheadBounded
    <2>7. DropsBounded
      <3> DEFINE s == IF proc = "stopping" THEN 1 ELSE 0
                 c == IF rpc = "count" THEN 1 ELSE 0
      <3>1. dropped + 0 <= current + s - c \/ dropped + 1 <= current + s - c
        BY <2>1 DEF BacklogInv, Within_
      <3>2. s \in {0, 1} /\ c \in {0, 1}
        OBVIOUS
      <3> HIDE DEF s, c
      <3> QED
        BY <2>2, <3>1, <3>2 DEF DropsBounded
    <2>8. LagBounded
      <3>1. SUFFICES ASSUME NEW i \in DOMAIN batch
                     PROVE  version - tag[batch[i]] <= LagBound
        BY DEF LagBounded
      <3>2. i \in 1..Len(batch) /\ batch[i] \in Samples /\ batch # <<>>
        BY <2>2, ElementsIn
      <3>3. PICK g \in Nat : g = tag[batch[i]]
        BY <2>2, <3>2
      <3>4. trained + i - 1 <= Times(g + 1, PerUpdate) + MaxRequired
        BY <2>1, <3>3 DEF LagInv
      <3>5. trained = Times(version, PerUpdate) + Times(step - 1, Required)
        BY <2>1, <3>2 DEF Basics, EndInv, PhaseInv
      <3>6. Times(step - 1, Required) \in Nat
        <4>1. step - 1 \in Int /\ step - 1 \in Nat /\ Required \in Nat
          BY <2>2, <2>3
        <4> QED
          BY <4>1, TimesFacts
      <3>7. Times(version - (g + 1), PerUpdate) = Times(version, PerUpdate) - Times(g + 1, PerUpdate)
            /\ Times(version, PerUpdate) \in Int /\ Times(g + 1, PerUpdate) \in Int
        BY <2>2, <2>3 DEF Times
      <3>8. Times(version - (g + 1), PerUpdate) <= MaxRequired
        <4>1. Times(version, PerUpdate) <= trained
          BY <3>5, <3>6, <3>7
        <4>2. i \in Int /\ i >= 1
          BY <3>2
        <4>3. trained <= Times(g + 1, PerUpdate) + MaxRequired
          BY <2>2, <2>3, <3>4, <3>7, <4>2
        <4> QED
          BY <2>2, <2>3, <3>7, <4>1, <4>3
      <3>9. version - (g + 1) <= MaxRequired \div PerUpdate
        <4>1. version - (g + 1) \in Int /\ MaxRequired \in Nat
          BY <2>2, <2>3
        <4> QED
          BY <4>1, <2>3, <3>8, Quotient
      <3>10. MaxRequired \div PerUpdate \in Int /\ LagBound = MaxRequired \div PerUpdate + 1
        BY <2>3 DEF LagBound, PerUpdate
      <3> QED
        BY <2>2, <3>3, <3>9, <3>10
    <2> QED
      BY <2>4, <2>6, <2>7, <2>8 DEF BacklogBounded
  <1> QED
    BY <1>1, Invariant, PTL

\* No sample is lost unseen: when both loops have ended every sample was trained
\* on, thrown away by the queue, left in cancel_queue, or is one of less than a
\* batch; and at threshold 0 what the restarts skipped is bounded by their number.
THEOREM NothingLost ==
    Spec => []SamplesAccounted
PROOF
  <1>1. ASSUME Inv PROVE SamplesAccounted
    <2>1. Basics /\ AccountInv /\ (config.threshold = 0 => SkipInv)
      BY <1>1 DEF Inv
    <2>2. /\ config \in Configs /\ restarts \in Nat /\ skipped \in Int /\ trained \in Nat
          /\ dropped \in Nat /\ cancelQ \in Seq(Samples)
      BY <2>1 DEF Basics, PlaceInv, DataInv
    <2>3. TotalSteps \in Nat /\ Required \in Nat \ {0}
      BY <2>2, Sizes
    <2>4. AllAccounted
      <3>1. SUFFICES ASSUME trainer = "done"
                     PROVE  TotalSteps - trained - dropped - Len(cancelQ) < Required
        BY DEF AllAccounted
      <3>2. TotalSteps - trained - dropped - Len(cancelQ) \in 0..Required - 1
        BY <2>1, <3>1 DEF AccountInv, Ended
      <3> QED
        BY <2>3, <3>2
    <2>5. config.threshold = 0 => RestartSkipsBounded
      BY <2>1, <2>2 DEF SkipInv, RestartSkipsBounded, Times, SkipUnit
    <2> QED
      BY <2>4, <2>5 DEF SamplesAccounted
  <1> QED
    BY <1>1, Invariant, PTL

\* At staleness threshold 0 the Trainer only ever trains on samples begun and
\* finished with the weights of its own version, nothing generates during a
\* broadcast, nothing is interrupted, and the queue throws nothing away.
THEOREM OnPolicyAtZero ==
    Spec => []StrictlyOnPolicy
PROOF
  <1>1. ASSUME Inv PROVE StrictlyOnPolicy
    <2>1. SUFFICES ASSUME config.threshold = 0
                   PROVE  OnPolicy /\ SyncIsQuiet /\ cancelQ = <<>> /\ dropped = 0
      BY DEF StrictlyOnPolicy
    <2>2. Basics /\ StrictInv
      BY <1>1, <2>1 DEF Inv
    <2>3. QuietInv /\ SettleInv /\ ExactInv
      BY <2>2 DEF StrictInv
    <2>4. OnPolicy
      <3>1. CASE batch = <<>>
        BY <3>1 DEF OnPolicy
      <3>2. CASE batch # <<>>
        <4>1. ~Ended
          BY <2>2, <3>2 DEF Basics, EndInv
        <4>2. ~Settling
          BY <2>3, <3>2, <4>1 DEF SettleInv, Still
        <4> QED
          BY <2>3, <4>1, <4>2 DEF ExactInv, Fresh, OnPolicy
      <3> QED
        BY <3>1, <3>2
    <2>5. SyncIsQuiet /\ cancelQ = <<>> /\ dropped = 0
      BY <2>3 DEF QuietInv, CallRuns, SyncIsQuiet
    <2> QED
      BY <2>4, <2>5
  <1> QED
    BY <1>1, Invariant, PTL
=============================================================================
