---------------------------- MODULE TrainingProofs ----------------------------
(***************************************************************************)
(* Micro-batches, for any rows, lengths, ranks and numbers of partitions:  *)
(* merging the states of Karmarkar and Karp, in whatever order, never      *)
(* spreads them further than one of them was spread at the start.          *)
(*                                                                         *)
(* Checkpoints, for any setup, length and number of crashes of a job: the  *)
(* step the tracker names stays whole and can be loaded, a job that starts *)
(* again loses nothing that was saved, and folders do not pile up.         *)
(*                                                                         *)
(* Offloaded activations, for any number of layers, offloaded groups and   *)
(* passes: however far the streams lag, backward kernels read what was     *)
(* saved for them.                                                         *)
(***************************************************************************)
EXTENDS MicroBatches, Checkpoints, ActivationOffload, FiniteSetTheorems, FunctionTheorems,
        SequenceTheorems, TLAPS

-----------------------------------------------------------------------------
(* Micro-batches.                                                          *)

Set == [items : SUBSET Rows, sum : Nat]
State(k) == {s \in [1..k -> Set] : Decreasing(s)}

\* The largest set of one state goes with the smallest of the other: what is
\* merged is no further spread than the one that was spread further.
LEMMA MergedSpread ==
  ASSUME NEW k \in Nat \ {0}, NEW a \in State(k), NEW b \in State(k), NEW c \in Merged(k, a, b)
  PROVE  /\ c \in State(k)
         /\ Spread(k, c) <= Spread(k, a) \/ Spread(k, c) <= Spread(k, b)
<1> DEFINE raw == [i \in 1..k |-> Joined(a[i], b[k + 1 - i])]
<1>1. /\ \A i \in 1..k : a[i] \in Set /\ b[i] \in Set
      /\ \A i, j \in 1..k : i <= j => a[i].sum >= a[j].sum /\ b[i].sum >= b[j].sum
      /\ \A i \in 1..k : a[i].sum \in Nat /\ b[i].sum \in Nat
  BY DEF State, Decreasing, Set
<1>2. \A i \in 1..k : /\ raw[i] \in Set
                      /\ raw[i].sum = a[i].sum + b[k + 1 - i].sum
  BY <1>1 DEF Joined, Set
<1>3. PICK order \in Orders(k) : c = [i \in 1..k |-> raw[order[i]]] /\ Decreasing(c)
  BY DEF Merged, Sorted
<1>4. \A i \in 1..k : order[i] \in 1..k
  BY <1>3 DEF Orders
<1>5. c \in State(k)
  BY <1>2, <1>3, <1>4 DEF State
<1> DEFINE p == order[1]
           q == order[k]
<1>6. p \in 1..k /\ q \in 1..k /\ c[1] = raw[p] /\ c[k] = raw[q]
  BY <1>3, <1>4
<1> HIDE DEF p, q, raw
<1>7. Spread(k, c) = (a[p].sum - a[q].sum) + (b[k + 1 - p].sum - b[k + 1 - q].sum)
  <2>1. c[1].sum = a[p].sum + b[k + 1 - p].sum
    BY <1>2, <1>6
  <2>2. c[k].sum = a[q].sum + b[k + 1 - q].sum
    BY <1>2, <1>6
  <2>3. /\ a[p].sum \in Nat /\ a[q].sum \in Nat
        /\ b[k + 1 - p].sum \in Nat /\ b[k + 1 - q].sum \in Nat
    <3>1. k + 1 - p \in 1..k /\ k + 1 - q \in 1..k
      BY <1>6
    <3>2. \A i \in 1..k : a[i].sum \in Nat /\ b[i].sum \in Nat
      BY <1>1
    <3> QED BY <1>6, <3>1, <3>2
  <2> QED BY <2>1, <2>2, <2>3 DEF Spread
<1>8. CASE p <= q
  <2>1. /\ a[1].sum >= a[p].sum /\ a[q].sum >= a[k].sum
        /\ b[k + 1 - q].sum >= b[k + 1 - p].sum
    BY <1>1, <1>6, <1>8
  <2>2. Spread(k, c) <= Spread(k, a)
    BY <1>1, <1>6, <1>7, <2>1 DEF Spread
  <2> QED BY <1>5, <2>2
<1>9. CASE q < p
  <2>1. /\ b[1].sum >= b[k + 1 - p].sum /\ b[k + 1 - q].sum >= b[k].sum
        /\ a[q].sum >= a[p].sum
    BY <1>1, <1>6, <1>9
  <2>2. Spread(k, c) <= Spread(k, b)
    BY <1>1, <1>6, <1>7, <2>1 DEF Spread
  <2> QED BY <1>5, <2>2
<1> QED BY <1>6, <1>8, <1>9

\* A sequence more is a token more.
LEMMA WorkloadGrows ==
  ASSUME NEW l \in Nat, NEW m \in Nat
  PROVE  Workload(l) \in Nat /\ (l <= m => Workload(l) <= Workload(m))
<1>1. l * l \in Nat /\ m * m \in Nat
  OBVIOUS
<1>2. ASSUME l <= m PROVE l * l <= m * m
  <2>1. l * l <= l * m /\ l * m <= m * m
    BY <1>2, Z3
  <2> QED BY <2>1
<1> QED BY <1>1, <1>2 DEF Workload

\* The places of the rows by length are 0 to Size - 1, each taken.
LEMMA PlaceTaken ==
  ASSUME TypeOK, NEW r \in Ranks
  PROVE  /\ \A i \in Rows : Place(r, i) \in 0..Size - 1
         /\ \A n \in 0..Size - 1 : \E i \in Rows : Place(r, i) = n
         /\ \A i, j \in Rows : Place(r, i) < Place(r, j) => seq_len[r][i] <= seq_len[r][j]
<1>1. Size \in Nat \ {0} /\ IsFiniteSet(Rows) /\ Cardinality(Rows) = Size
  <2>1. Size \in Nat \ {0} /\ 1 \in Int /\ Size \in Int
    BY MicroBatchesAssumption
  <2>2. IsFiniteSet(1..Size) /\ Cardinality(1..Size) = IF 1 > Size THEN 0 ELSE Size - 1 + 1
    BY ONLY <2>1, FS_Interval
  <2>3. Cardinality(1..Size) = Size
    BY ONLY <2>1, <2>2
  <2> QED  BY ONLY <2>1, <2>2, <2>3 DEF Rows
<1>2. \A i \in Rows : seq_len[r][i] \in Nat /\ i \in Nat
  <2>1. Lengths \subseteq Nat
    BY MicroBatchesAssumption
  <2>2. Rows \subseteq Nat
    BY <1>1 DEF Rows
  <2>3. seq_len \in [Ranks -> [Rows -> Lengths]]
    BY DEF TypeOK
  <2> QED BY <2>1, <2>2, <2>3
<1>3. \A i \in Rows : IsFiniteSet(Before(r, i)) /\ Cardinality(Before(r, i)) \in 0..Size - 1
  <2> SUFFICES ASSUME NEW i \in Rows PROVE IsFiniteSet(Before(r, i)) /\ Cardinality(Before(r, i)) \in 0..Size - 1
    OBVIOUS
  <2>1. Before(r, i) \subseteq Rows /\ i \notin Before(r, i)
    BY <1>2 DEF Before
  <2>2. IsFiniteSet(Before(r, i)) /\ Cardinality(Before(r, i)) <= Size /\ (Cardinality(Before(r, i)) = Size => Before(r, i) = Rows)
    BY <1>1, <2>1, FS_Subset
  <2>3. Cardinality(Before(r, i)) \in Nat
    BY <2>2, FS_CardinalityType
  <2>4. Before(r, i) # Rows
    BY <2>1
  <2>5. Cardinality(Before(r, i)) # Size
    BY <2>2, <2>4
  <2> QED BY <1>1, <2>2, <2>3, <2>5
<1>4. \A i \in Rows : Place(r, i) = Cardinality(Before(r, i))
  BY DEF Place
<1>9. \A i \in Rows : Place(r, i) \in 0..Size - 1
  <2> QED BY <1>3, <1>4
<1>5. ASSUME NEW i \in Rows, NEW j \in Rows,
             seq_len[r][i] < seq_len[r][j] \/ (seq_len[r][i] = seq_len[r][j] /\ i < j)
      PROVE  Place(r, i) < Place(r, j)
  <2>1. Before(r, i) \subseteq Before(r, j) /\ i \in Before(r, j) /\ i \notin Before(r, i)
    BY <1>2, <1>5 DEF Before
  <2>2. Cardinality(Before(r, i)) <= Cardinality(Before(r, j))
        /\ (Cardinality(Before(r, i)) = Cardinality(Before(r, j)) => Before(r, i) = Before(r, j))
    BY <1>3, <2>1, FS_Subset
  <2>3. Before(r, i) # Before(r, j)
    BY <2>1
  <2>4. Cardinality(Before(r, i)) \in Int /\ Cardinality(Before(r, j)) \in Int
    BY <1>3
  <2>5. Cardinality(Before(r, i)) < Cardinality(Before(r, j))
    BY <2>2, <2>3, <2>4
  <2> QED BY <1>4, <2>5
<1>6. \A i, j \in Rows : i # j => Place(r, i) # Place(r, j)
  <2> SUFFICES ASSUME NEW i \in Rows, NEW j \in Rows, i # j PROVE Place(r, i) # Place(r, j)
    OBVIOUS
  <2>1. \/ seq_len[r][i] < seq_len[r][j] \/ (seq_len[r][i] = seq_len[r][j] /\ i < j)
        \/ seq_len[r][j] < seq_len[r][i] \/ (seq_len[r][j] = seq_len[r][i] /\ j < i)
    BY <1>2
  <2>2. Place(r, i) < Place(r, j) \/ Place(r, j) < Place(r, i)
    BY <1>5, <2>1
  <2>3. Place(r, i) \in Int /\ Place(r, j) \in Int
    BY <1>9
  <2> QED BY <2>2, <2>3
<1>7. \A n \in 0..Size - 1 : \E i \in Rows : Place(r, i) = n
  <2> DEFINE f == [i \in Rows |-> Place(r, i)]
  <2>1. f \in Injection(Rows, 0..Size - 1)
    BY <1>9, <1>6 DEF Injection, IsInjective
  <2>2. IsFiniteSet(0..Size - 1) /\ Cardinality(0..Size - 1) = Size
    BY <1>1, FS_Interval
  <2>3. f \in Surjection(Rows, 0..Size - 1)
    BY <1>1, <2>1, <2>2, FS_Injection
  <2> QED BY <2>3 DEF Surjection
<1>8. \A i, j \in Rows : Place(r, i) < Place(r, j) => seq_len[r][i] <= seq_len[r][j]
  <2> SUFFICES ASSUME NEW i \in Rows, NEW j \in Rows, Place(r, i) < Place(r, j),
                      seq_len[r][j] < seq_len[r][i]
               PROVE  FALSE
    BY <1>2
  <2>1. Place(r, j) < Place(r, i)
    BY <1>5
  <2> QED BY <1>9, <2>1
<1> QED BY <1>9, <1>7, <1>8

\* What the merging starts from has its sets in decreasing order.
LEMMA InitialStatesType ==
  ASSUME TypeOK, NEW r \in Ranks, NEW k \in Nat \ {0}, EqualSize => k = Partitions,
         NEW s \in InitialStates(r, k)
  PROVE  s \in State(k)
<1>1. \A i \in Rows : seq_len[r][i] \in Nat
  <2>1. seq_len \in [Ranks -> [Rows -> Lengths]] /\ Lengths \subseteq Nat
    BY MicroBatchesAssumption DEF TypeOK
  <2> QED BY <2>1
<1>2. \A i \in Rows : Item(r, i) \in Set /\ Item(r, i).sum = Workload(seq_len[r][i])
  BY <1>1, WorkloadGrows DEF Item, Set
<1>3. CASE ~EqualSize
  <2>1. PICK i \in Rows : s = Single(r, k, i)
    BY <1>3 DEF InitialStates
  <2>2. None \in Set /\ None.sum = 0
    BY DEF None, Set
  <2>3. s \in [1..k -> Set] /\ \A j \in 1..k : j > 1 => s[j].sum = 0
    BY <1>2, <2>1, <2>2 DEF Single
  <2>4. \A j \in 1..k : s[j].sum \in Nat
    BY <2>3 DEF Set
  <2>5. Decreasing(s)
    BY <2>3, <2>4 DEF Decreasing
  <2> QED BY <2>3, <2>5 DEF State
<1>4. CASE EqualSize
  <2>1. PICK q \in 0..Size \div k - 1 : s = Group(r, k, q)
    BY <1>4 DEF InitialStates
  <2> DEFINE row(j) == CHOOSE i \in Rows : Place(r, i) = q * k + k - j
  <2>2. \A j \in 1..k : q * k + k - j \in 0..Size - 1
    <3>1. k * (Size \div k) = Size /\ Size \in Nat \ {0} /\ Size \div k \in Nat
      BY <1>4, MicroBatchesAssumption
    <3>2. q + 1 <= Size \div k /\ q \in Nat
      BY <2>1, <3>1
    <3>3. (q + 1) * k <= (Size \div k) * k /\ q * k \in Nat
      BY <3>1, <3>2
    <3> QED BY <3>1, <3>2, <3>3
  <2>3. \A j \in 1..k : row(j) \in Rows /\ Place(r, row(j)) = q * k + k - j
    BY <2>2, PlaceTaken
  <2>4. s = [j \in 1..k |-> Item(r, row(j))]
    BY <2>1 DEF Group
  <2> HIDE DEF row
  <2>5. s \in [1..k -> Set] /\ \A j \in 1..k : s[j].sum = Workload(seq_len[r][row(j)])
    BY <1>2, <2>3, <2>4
  <2>6. ASSUME NEW i \in 1..k, NEW j \in 1..k, i < j PROVE s[i].sum >= s[j].sum
    <3>1. q * k \in Int
      BY <2>1
    <3>2. Place(r, row(j)) < Place(r, row(i))
      BY <2>3, <2>6, <3>1
    <3>3. seq_len[r][row(j)] <= seq_len[r][row(i)]
      BY <2>3, <3>2, PlaceTaken
    <3>4. Workload(seq_len[r][row(j)]) <= Workload(seq_len[r][row(i)])
      BY <1>1, <2>3, <3>3, WorkloadGrows
    <3>5. Workload(seq_len[r][row(j)]) \in Nat /\ Workload(seq_len[r][row(i)]) \in Nat
      BY <1>1, <2>3, WorkloadGrows
    <3> QED BY <2>5, <3>4, <3>5
  <2>7. Decreasing(s)
    BY <2>5, <2>6 DEF Decreasing
  <2> QED BY <2>5, <2>7 DEF State
<1> QED BY <1>3, <1>4

\* Before the numbers are settled there is nothing to merge.
Counted ==
    \A r \in Ranks :
        /\ stage[r] # "count" => num[r] # 0
        /\ stage[r] \in {"count", "reduce"} => states[r] = {}
        /\ stage[r] = "reduce" => ~EqualSize
        /\ EqualSize /\ stage[r] # "count" => num[r] = Partitions

Typed ==
    /\ seq_len \in [Ranks -> [Rows -> Lengths]]
    /\ stage \in [Ranks -> {"count", "reduce", "split", "run", "done", "refused"}]
    /\ num \in [Ranks -> Nat]
    /\ passed \in [Ranks -> Nat]
    /\ states = [r \in Ranks |-> states[r]]
    /\ \A r \in Ranks : states[r] \subseteq State(num[r])

IInv == Typed /\ Counted /\ Balanced

\* Typed is the type invariant, variable by variable.
LEMMA TypedIsTypeOK == Typed => TypeOK
BY DEF Typed, TypeOK, State, Set

\* A rank whose states, lengths and number stay keeps its balance.
LEMMA StaysBalanced ==
  ASSUME Balanced, seq_len' = seq_len, NEW r \in Ranks, states'[r] = states[r] \/ states'[r] = {},
         states'[r] # {} => num'[r] = num[r],
         NEW s \in states'[r]
  PROVE  \E t \in (InitialStates(r, num[r]))' : Spread(num'[r], s) <= Spread(num'[r], t)
<1>1. states'[r] = states[r] /\ num'[r] = num[r]
  OBVIOUS
<1>2. InitialStates(r, num[r])' = InitialStates(r, num[r])
  BY <1>1 DEF InitialStates, Group, Single, Item, None, Place, Before
<1> QED BY <1>1, <1>2 DEF Balanced

\* No rank has counted yet.
LEMMA InitIInv == Init => IInv
<1> SUFFICES ASSUME Init PROVE IInv
  OBVIOUS
<1>1. Typed
  BY DEF Init, Typed
<1>2. Counted
  BY DEF Init, Counted
<1>3. Balanced
  BY DEF Init, Balanced
<1> QED BY <1>1, <1>2, <1>3 DEF IInv

\* Counting the own workload keeps the invariant,
LEMMA CountKeeps == ASSUME IInv, NEW r \in Ranks, Count(r) PROVE IInv'
<1>1. PICK n \in 1..Size :
        num' = [num EXCEPT ![r] = IF EqualSize THEN Partitions ELSE AtLeast(MinNum, n)]
  BY DEF Count
<1> DEFINE k == IF EqualSize THEN Partitions ELSE AtLeast(MinNum, n)
<1>2. k \in Nat \ {0} /\ (EqualSize => k = Partitions)
  BY MicroBatchesAssumption DEF AtLeast
<1> HIDE DEF k
<1>3. num' \in [Ranks -> Nat] /\ num'[r] = k /\ \A q \in Ranks \ {r} : num'[q] = num[q]
  BY <1>1, <1>2 DEF k, IInv, Typed
<1>4. states' = states /\ states[r] = {} /\ seq_len' = seq_len /\ passed' = passed
  BY DEF Count, IInv, Counted
<1>5. /\ stage' \in [Ranks -> {"count", "reduce", "split", "run", "done", "refused"}]
      /\ stage'[r] = (IF SameNumInDp /\ ~EqualSize THEN "reduce" ELSE "split")
      /\ \A q \in Ranks \ {r} : stage'[q] = stage[q]
  BY DEF Count, IInv, Typed
<1>6. Typed'
  BY <1>3, <1>4, <1>5 DEF IInv, Typed
<1>7. Counted'
  BY <1>2, <1>3, <1>4, <1>5 DEF IInv, Counted
<1>8. Balanced'
  BY <1>3, <1>4, StaysBalanced DEF IInv, Balanced
<1> QED BY <1>6, <1>7, <1>8 DEF IInv

\* so does the all-reduce,
LEMMA ReduceKeeps == ASSUME IInv, Reduce PROVE IInv'
<1>1. PICK r \in Ranks : num' = [q \in Ranks |-> num[r]]
  BY DEF Reduce
<1>2. num[r] \in Nat \ {0} /\ ~EqualSize
  BY DEF Reduce, IInv, Typed, Counted
<1>3. \A q \in Ranks : states'[q] = {}
  BY DEF Reduce, IInv, Counted
<1>4. Typed'
  BY <1>1, <1>2, <1>3 DEF Reduce, IInv, Typed
<1>5. Counted'
  BY <1>1, <1>2, <1>3 DEF Reduce, Counted
<1>6. Balanced'
  BY <1>3 DEF Balanced
<1> QED BY <1>4, <1>5, <1>6 DEF IInv

\* the split by the reduced count,
LEMMA SplitKeeps == ASSUME IInv, NEW r \in Ranks, Split(r) PROVE IInv'
<1> DEFINE k == IF EqualSize THEN num[r] ELSE RoundUp(num[r], DividedBy)
<1>1. stage[r] = "split" /\ states[r] = {} /\ seq_len' = seq_len /\ passed' = passed
      /\ num' = [num EXCEPT ![r] = k]
  BY DEF Split
<1>2. k \in Nat \ {0} /\ (EqualSize => k = Partitions)
  <2>1. num[r] \in Nat \ {0} /\ (EqualSize => num[r] = Partitions)
    BY <1>1 DEF IInv, Typed, Counted
  <2>2. DividedBy \in Nat \ {0}
    BY MicroBatchesAssumption
  <2> DEFINE c == (num[r] + DividedBy - 1) \div DividedBy
  <2>3. c \in Nat \ {0}
    BY <2>1, <2>2, Z3
  <2>4. c * DividedBy \in Nat \ {0}
    <3> HIDE DEF c
    <3> QED BY <2>2, <2>3
  <2> QED BY <2>1, <2>4 DEF RoundUp, CeilDiv
<1>3. \/ /\ states' = [states EXCEPT ![r] = InitialStates(r, k)] /\ stage' = stage
      \/ /\ stage' = [stage EXCEPT ![r] = "refused"] /\ states' = states
  BY DEF Split
<1> HIDE DEF k
<1>4. /\ num' \in [Ranks -> Nat] /\ num'[r] = k
      /\ \A q \in Ranks \ {r} : num'[q] = num[q] /\ states'[q] = states[q] /\ stage'[q] = stage[q]
      /\ stage' \in [Ranks -> {"count", "reduce", "split", "run", "done", "refused"}]
      /\ stage'[r] \in {"split", "refused"}
      /\ states' = [q \in Ranks |-> states'[q]]
      /\ states'[r] \in {{}, InitialStates(r, k)}
  BY <1>1, <1>2, <1>3 DEF IInv, Typed
<1>5. InitialStates(r, k) \subseteq State(k)
  BY <1>2, InitialStatesType, TypedIsTypeOK DEF IInv
<1>6. Typed'
  BY <1>1, <1>4, <1>5 DEF IInv, Typed
<1>7. Counted'
  BY <1>1, <1>2, <1>4 DEF IInv, Counted
<1>8. ASSUME NEW q \in Ranks, NEW s \in states'[q]
      PROVE  \E t \in (InitialStates(q, num[q]))' : Spread(num'[q], s) <= Spread(num'[q], t)
  <2>1. CASE q # r
    BY <1>1, <1>4, <2>1, StaysBalanced DEF IInv
  <2>2. CASE q = r
    <3>1. s \in InitialStates(r, k) /\ s \in State(k)
      BY <1>4, <1>5, <1>8, <2>2
    <3>4. seq_len' = seq_len /\ num'[r] = k
      BY <1>1, <1>4
    <3>2. InitialStates(r, num[r])' = InitialStates(r, k)
      BY <3>4 DEF InitialStates, Group, Single, Item, None, Place, Before
    <3>3. Spread(k, s) \in Int
      BY <1>2, <3>1 DEF State, Set, Spread
    <3> QED BY <1>4, <2>2, <3>1, <3>2, <3>3
  <2> QED BY <2>1, <2>2
<1>9. Balanced'
  BY <1>8 DEF Balanced
<1> QED BY <1>6, <1>7, <1>9 DEF IInv

\* and putting the outputs back in order.
LEMMA MergeKeeps == ASSUME IInv, NEW r \in Ranks, Merge(r) PROVE IInv'
<1> DEFINE k == num[r]
<1>0. PICK a \in states[r], b \in states[r] : \E c \in Merged(k, a, b) :
        states' = [states EXCEPT ![r] = (@ \ {a, b}) \cup {c}]
  BY DEF Merge, Widest
<1>1. PICK c \in Merged(k, a, b) : states' = [states EXCEPT ![r] = (@ \ {a, b}) \cup {c}]
  BY <1>0
<1>2. UNCHANGED <<seq_len, stage, num, passed>> /\ stage[r] = "split"
  BY DEF Merge
<1>3. k \in Nat \ {0} /\ a \in State(k) /\ b \in State(k)
  BY <1>1, <1>2 DEF IInv, Typed, Counted
<1>4. /\ c \in State(k)
      /\ Spread(k, c) <= Spread(k, a) \/ Spread(k, c) <= Spread(k, b)
  BY <1>1, <1>3, MergedSpread
<1>5. /\ states' = [q \in Ranks |-> states'[q]]
      /\ states'[r] \subseteq states[r] \cup {c}
      /\ \A q \in Ranks \ {r} : states'[q] = states[q]
  BY <1>1 DEF IInv, Typed
<1>6. Typed'
  BY <1>2, <1>4, <1>5 DEF IInv, Typed
<1>7. Counted'
  BY <1>2, <1>5 DEF IInv, Counted
<1>8. ASSUME NEW q \in Ranks, NEW s \in states'[q]
      PROVE  \E t \in (InitialStates(q, num[q]))' : Spread(num'[q], s) <= Spread(num'[q], t)
  <2>1. CASE q # r
    BY <1>2, <1>5, <2>1, StaysBalanced DEF IInv
  <2>2. CASE q = r
    <3>1. InitialStates(r, num[r])' = InitialStates(r, k)
      BY <1>2 DEF InitialStates, Group, Single, Item, None, Place, Before
    <3>2. \A d \in states[r] : \E t \in InitialStates(r, k) : Spread(k, d) <= Spread(k, t)
      BY DEF IInv, Balanced
    <3>3. PICK d \in states[r] : Spread(k, s) <= Spread(k, d)
      <4>1. CASE s = c
        BY <1>1, <1>4, <4>1
      <4>2. CASE s \in states[r]
        <5>1. s \in State(k)
          BY <4>2 DEF IInv, Typed
        <5>2. s \in [1..k -> Set] /\ 1 \in 1..k /\ k \in 1..k
          BY <1>3, <5>1 DEF State
        <5>3. s[1] \in Set /\ s[k] \in Set
          BY ONLY <5>2
        <5>4. s[1].sum \in Nat /\ s[k].sum \in Nat
          BY ONLY <5>3 DEF Set
        <5>5. Spread(k, s) \in Int
          BY ONLY <5>4 DEF Spread
        <5> QED BY <4>2, <5>5
      <4> QED BY <1>5, <1>8, <2>2, <4>1, <4>2
    <3>4. PICK t \in InitialStates(r, k) : Spread(k, d) <= Spread(k, t)
      BY <3>2
    <3>5. t \in State(k) /\ d \in State(k) /\ s \in State(k)
      <4>1. EqualSize => k = Partitions
        BY <1>2 DEF IInv, Counted
      <4> QED BY <1>3, <1>4, <1>5, <2>2, <4>1, InitialStatesType, TypedIsTypeOK DEF IInv, Typed
    <3>6. Spread(k, t) \in Int /\ Spread(k, d) \in Int /\ Spread(k, s) \in Int
      BY <1>3, <3>5, SMTT(30) DEF State, Set, Spread
    <3>7. Spread(k, s) <= Spread(k, t)
      BY <3>3, <3>4, <3>6
    <3> QED BY <1>2, <2>2, <3>1, <3>7
  <2> QED BY <2>1, <2>2
<1>9. Balanced'
  BY <1>8 DEF Balanced
<1> QED BY <1>6, <1>7, <1>9 DEF IInv

\* The other actions touch neither the numbers nor the states.
LEMMA RestKeeps ==
  ASSUME IInv, UNCHANGED <<seq_len, num, states>>,
         stage' \in [Ranks -> {"count", "reduce", "split", "run", "done", "refused"}],
         passed' \in [Ranks -> Nat],
         \A r \in Ranks : stage'[r] = stage[r]
                          \/ (stage[r] \notin {"count", "reduce"} /\ stage'[r] \in {"run", "done"})
  PROVE  IInv'
<1>1. Typed'
  BY DEF IInv, Typed
<1>2. Counted'
  BY DEF IInv, Counted
<1>3. Balanced'
  BY StaysBalanced DEF IInv, Balanced
<1> QED BY <1>1, <1>2, <1>3 DEF IInv

\* Every step keeps the invariant.
LEMMA StepIInv == IInv /\ [Next]_vars => IInv'
<1> SUFFICES ASSUME IInv, [Next]_vars PROVE IInv'
  OBVIOUS
<1>1. stage \in [Ranks -> {"count", "reduce", "split", "run", "done", "refused"}]
      /\ passed \in [Ranks -> Nat]
  BY DEF IInv, Typed
<1>2. CASE UNCHANGED vars
  BY <1>1, <1>2, RestKeeps DEF vars
<1>3. CASE Reduce
  BY <1>3, ReduceKeeps
<1>4. CASE Forward
  BY <1>1, <1>4, RestKeeps DEF Forward
<1>5. ASSUME NEW r \in Ranks, Rank(r) PROVE IInv'
  <2>1. CASE Count(r)
    BY <2>1, CountKeeps
  <2>2. CASE Split(r)
    BY <2>2, SplitKeeps
  <2>3. CASE Merge(r)
    BY <2>3, MergeKeeps
  <2>4. CASE Order(r)
    <3>1. UNCHANGED <<seq_len, num, states, passed>> /\ stage[r] = "split"
          /\ stage' \in {[stage EXCEPT ![r] = "done"], [stage EXCEPT ![r] = "run"]}
      BY <2>4 DEF Order
    <3> QED BY <1>1, <3>1, RestKeeps
  <2>5. CASE Restore(r)
    <3>1. UNCHANGED <<seq_len, num, states, passed>> /\ stage[r] = "run"
          /\ stage' = [stage EXCEPT ![r] = "done"]
      BY <2>5 DEF Restore
    <3> QED BY <1>1, <3>1, RestKeeps
  <2> QED BY <1>5, <2>1, <2>2, <2>3, <2>4, <2>5 DEF Rank
<1> QED BY <1>2, <1>3, <1>4, <1>5 DEF Next, Together

\* What is merged stays sets of rows with their sums, largest first.
THEOREM MicroBatchesTyped == Spec => []TypeOK
<1>1. Spec => []IInv
  BY InitIInv, StepIInv, PTL DEF Spec
<1>2. IInv => TypeOK
  BY TypedIsTypeOK DEF IInv
<1> QED BY <1>1, <1>2, PTL

\* Karmarkar and Karp's guarantee for every batch: no partition ends up further
\* from another than one state was spread at the start.
THEOREM MicroBatchesBalanced == Spec => []Balanced
<1>1. Spec => []IInv
  BY InitIInv, StepIInv, PTL DEF Spec
<1>2. IInv => Balanced
  BY DEF IInv
<1> QED BY <1>1, <1>2, PTL

-----------------------------------------------------------------------------
(* Checkpoints: the inductive invariant.                                   *)

\* The models of this step whose manager has returned.
Behind(i) == i < model \/ at \notin {"rotate", "shards"}
InSave == at \in {"rotate", "shards", "early", "earlyOpen", "data", "open"}
Up == at \notin {"load", "failed", "ended"}

\* A running job has steps left to do or to save, and the managers are called in their order.
PlaceInv ==
    /\ at = "loop" => g < TotalSteps
    /\ InSave \/ at = "stepEnd" => g \in Step
    /\ Up => epoch < Epochs
    /\ at \in {"early", "earlyOpen"} => Backend = "megatron" /\ Handler = "ppo" /\ ~AsyncSave
    /\ at \in {"data", "open"} => model = Len(Models)
    /\ at = "shards" /\ Keep > 0 => Len(saved[Current]) < Keep

\* The tracker does not name the step that is being saved before all of it is there.
TrackerInv ==
    /\ tracker = Torn =>
         at \in {"earlyOpen", "data", "load", "failed"} /\ Handler = "ppo" /\ ~AsyncSave
    /\ AsyncSave => lastSave = 0
    /\ ModelsKept =>
         /\ Up => tracker <= g /\ lastSave <= g
         /\ at \in {"rotate", "shards", "early", "earlyOpen"} => tracker < g
         /\ at = "data" /\ tracker = g => Backend = "megatron" /\ Handler = "ppo" /\ ~AsyncSave
         /\ at = "open" => IF AsyncSave THEN tracker < g ELSE tracker = g
         /\ tracker # Torn => lastSave <= tracker

\* A manager remembers, in order, what was tracked and what it has just saved.
SavedInv ==
    ModelsKept /\ Up /\ ~AsyncSave =>
        \A i \in DOMAIN Models :
            LET paths == saved[Models[i]] IN
            /\ \A j, k \in DOMAIN paths : j < k => paths[j] < paths[k]
            /\ \A j \in DOMAIN paths :
                 \/ paths[j] <= tracker
                 \/ tracker = Torn /\ paths[j] <= g
                 \/ paths[j] = g /\ InSave /\ Behind(i)

\* The shards of what is being saved, and of what was saved behind.
ShardsInv ==
    /\ InSave /\ ~AsyncSave =>
         \A i \in DOMAIN Models : i <= model /\ Behind(i) =>
             \A r \in WorldRank : shard[Models[i]][g][r] = life
    /\ IF ~AsyncSave THEN pending = <<>>
       ELSE /\ \A i \in DOMAIN pending : pending[i].step <= g
            /\ at \in {"load", "failed"} => pending = <<>>
            /\ ModelsKept => \A i \in DOMAIN pending : pending[i].written =>
                 \A r \in WorldRank : shard["actor"][pending[i].step][r] = life

\* The dataloader states of what is being saved.
StatesInv ==
    /\ at = "open" => data[g][1] = pos[1]
    /\ AsyncSave => \A i \in DOMAIN pending :
         data[pending[i].step][1] \in 0..EpochLen \/ (at = "data" /\ pending[i].step = g)

\* The folders of the model are those of earlier lives, those remembered and that being written.
Times(k, n) == k * n
FolderInv ==
    Keep > 0 /\ ~AsyncSave =>
        \A m \in Model : \E earlier \in SUBSET Step :
            /\ Cardinality(earlier) <= Times(life - 1, Keep)
            /\ \A s \in Step : HasFiles(m, s) =>
                 \/ s \in earlier
                 \/ \E i \in DOMAIN saved[m] : saved[m][i] = s
                 \/ at = "shards" /\ m = Current /\ s = g

EmptyInv == at \in {"load", "failed"} => \A m \in Model : saved[m] = <<>>

LoadInv == ModelsKept /\ DataKept /\ (Handler = "sft" \/ AsyncSave) => AlwaysLoads

JobInv ==
    /\ JobTypeOK /\ PlaceInv /\ TrackerInv /\ SavedInv
    /\ ShardsInv /\ StatesInv /\ FolderInv /\ EmptyInv
    /\ (ModelsKept => ModelsTracked) /\ (ModelsKept /\ DataKept => DataTracked) /\ LoadInv

-----------------------------------------------------------------------------
\* What a job's setup is.
LEMMA JobFacts ==
  ASSUME job \in Jobs
  PROVE  /\ Handler \in {"ppo", "sft"} /\ Backend \in {"fsdp", "megatron"} /\ AsyncSave \in BOOLEAN
         /\ Keep \in Nat /\ EpochLen \in Nat /\ EpochLen > 0 /\ Epochs \in Nat /\ Epochs > 0
         /\ TotalSteps \in Nat /\ TotalSteps > 0 /\ Step = 1..TotalSteps
         /\ job.world_size \in Nat /\ 1 \in WorldRank /\ 1 \in Feeder
         /\ job.max_life \in Nat /\ job.max_life > 0
         /\ AsyncSave => Backend = "megatron" /\ Handler = "ppo" /\ ~job.use_critic
         /\ job.use_critic => Handler = "ppo"
<1>1. job \in Job /\ (job.use_critic => job.handler = "ppo")
        /\ (job.async_save => job.backend = "megatron" /\ job.handler = "ppo" /\ ~job.use_critic)
  BY JobsAssumption
<1>2. EpochLen \in Nat /\ EpochLen > 0 /\ Epochs \in Nat /\ Epochs > 0
  BY <1>1 DEF Job, EpochLen, Epochs
<1>3. TotalSteps \in Nat /\ TotalSteps > 0
  BY <1>2 DEF TotalSteps
<1>4. job.world_size \in Nat /\ job.world_size > 0 /\ job.max_life \in Nat /\ job.max_life > 0
  BY <1>1 DEF Job
<1>5. 1 \in WorldRank /\ 1 \in Feeder
  BY <1>4 DEF WorldRank, Feeder
<1> QED BY <1>1, <1>2, <1>3, <1>4, <1>5
      DEF Job, Handler, Backend, AsyncSave, Keep, Step

\* The models of a job.
LEMMA ModelFacts ==
         /\ Len(Models) \in {1, 2} /\ DOMAIN Models = 1..Len(Models) /\ 1 \in DOMAIN Models
         /\ \A i \in DOMAIN Models : Models[i] \in Model
         /\ \A i, j \in DOMAIN Models : Models[i] = Models[j] => i = j
         /\ \A m \in Model : \E i \in DOMAIN Models : m = Models[i]
         /\ ~job.use_critic => Len(Models) = 1 /\ Model = {"actor"} /\ Models[1] = "actor"
<1>1. CASE job.use_critic
  <2>1. Models = <<"actor", "critic">>
    BY <1>1 DEF Models
  <2> QED BY <1>1, <2>1 DEF Model
<1>2. CASE ~job.use_critic
  <2>1. Models = <<"actor">>
    BY <1>2 DEF Models
  <2> QED BY <1>2, <2>1 DEF Model
<1> QED BY <1>1, <1>2

\* A job keeps its setup.
LEMMA SameJob ==
  ASSUME job' = job
  PROVE  /\ Handler' = Handler /\ Backend' = Backend /\ AsyncSave' = AsyncSave /\ Keep' = Keep
         /\ EpochLen' = EpochLen /\ Epochs' = Epochs /\ TotalSteps' = TotalSteps /\ Step' = Step
         /\ WorldRank' = WorldRank /\ Feeder' = Feeder /\ Models' = Models /\ Model' = Model
         /\ NoShards' = NoShards /\ ModelsKept' = ModelsKept /\ DataKept' = DataKept
<1>1. Handler' = Handler /\ Backend' = Backend /\ AsyncSave' = AsyncSave /\ Keep' = Keep
        /\ EpochLen' = EpochLen /\ Epochs' = Epochs
  BY DEF Handler, Backend, AsyncSave, Keep, EpochLen, Epochs
<1>2. TotalSteps' = TotalSteps /\ Step' = Step /\ WorldRank' = WorldRank /\ Models' = Models
  BY <1>1 DEF TotalSteps, Step, WorldRank, Models
<1>3. Feeder' = Feeder /\ Model' = Model /\ NoShards' = NoShards
  BY <1>1, <1>2 DEF Feeder, Model, NoShards
<1>4. ModelsKept' = ModelsKept /\ DataKept' = DataKept
  BY <1>1 DEF ModelsKept, DataKept
<1> QED BY <1>1, <1>2, <1>3, <1>4

\* Whole epochs and steps.
LEMMA EpochOfStep ==
  ASSUME NEW s \in Nat, NEW n \in Nat, NEW k \in Nat, n > 0, s <= n * k
  PROVE  s \div n \in 0..k /\ (s \div n < k => s < n * k)
<1>1. s = n * (s \div n) + (s % n) /\ s \div n \in Nat /\ (s % n) \in 0..n - 1
  OBVIOUS
<1> DEFINE q == s \div n
<1>2. q \in Nat /\ s = n * q + (s % n)
  BY <1>1
<1>3. s % n < n /\ s % n >= 0
  BY <1>1
<1> HIDE DEF q
<1>4. q <= k
  <2> SUFFICES ASSUME q >= k + 1 PROVE FALSE
    BY <1>2
  <2>1. n * q >= n * (k + 1)
    BY <1>2
  <2> QED BY <1>2, <1>3, <2>1
<1>5. ASSUME q < k PROVE s < n * k
  <2>1. n * (q + 1) <= n * k
    BY <1>2, <1>5
  <2> QED BY <1>2, <1>3, <2>1
<1> QED BY <1>2, <1>4, <1>5 DEF q

\* What the tracker names is there to be loaded.
LEMMA WholeHasFiles ==
  ASSUME job \in Jobs, NEW m, NEW s, Whole(m, s)
  PROVE  HasFiles(m, s) /\ \A r \in WorldRank : shard[m][s][r] # NoFile
<1>1. PICK l \in 1..job.max_life : \A r \in WorldRank : shard[m][s][r] = l
  BY DEF Whole
<1>2. l # 0
  BY <1>1, JobFacts
<1>3. \A r \in WorldRank : shard[m][s][r] # NoFile
  BY <1>1, <1>2 DEF NoFile
<1>4. \A r \in WorldRank : NoShards[r] = NoFile
  BY DEF NoShards
<1> QED BY <1>3, <1>4, JobFacts DEF HasFiles

\* A job that was never started has nothing on disk.
LEMMA InitHolds == JobInit => JobInv
<1> SUFFICES ASSUME JobInit PROVE JobInv
  OBVIOUS
<1>0. job \in Jobs
  BY DEF JobInit
<1>1. JobTypeOK
  <2>1. \A m \in Model : saved[m] = <<>> /\ Len(saved[m]) = 0
    BY DEF JobInit
  <2> QED BY <1>0, <2>1, JobFacts, ModelFacts DEF JobInit, JobTypeOK, NoShards, NoFile, NoData, Torn
<1>2. PlaceInv /\ TrackerInv
  BY <1>0, JobFacts DEF JobInit, PlaceInv, TrackerInv, InSave, Up, NoFile, Torn
<1>3. SavedInv /\ ShardsInv /\ StatesInv
  BY <1>0, JobFacts DEF JobInit, SavedInv, ShardsInv, StatesInv, InSave, Up
<1>4. FolderInv
  <2>1. Cardinality({}) = 0
    BY FS_EmptySet
  <2>2. Keep \in Nat
    BY <1>0, JobFacts
  <2>3. \A m \in Model, s \in Step : ~HasFiles(m, s)
    BY DEF JobInit, HasFiles
  <2>4. Times(life - 1, Keep) = 0
    BY <2>2 DEF Times, JobInit
  <2> QED BY <2>1, <2>3, <2>4 DEF FolderInv
<1>5. tracker \notin Step /\ at # "failed"
  BY <1>0, JobFacts DEF JobInit, NoFile
<1>6. EmptyInv
  BY DEF EmptyInv, JobInit
<1> QED BY <1>1, <1>2, <1>3, <1>4, <1>5, <1>6 DEF JobInv, ModelsTracked, DataTracked, LoadInv, AlwaysLoads

-----------------------------------------------------------------------------
(* Every step keeps the invariant.                                         *)

\* What is tracked stays whole if neither the tracker nor the files change.
LEMMA TrackedStays ==
  ASSUME job' = job, tracker' = tracker, shard' = shard
  PROVE  ModelsTracked' = ModelsTracked /\ (data' = data => DataTracked' = DataTracked)
<1>1. \A m, s : Whole(m, s)' = Whole(m, s)
  BY SameJob DEF Whole
<1> QED BY <1>1, SameJob DEF ModelsTracked, DataTracked

\* The folders stay bounded if neither they nor what is remembered changes.
LEMMA FoldersStay ==
  ASSUME job' = job, life' = life, saved' = saved, shard' = shard, FolderInv,
         at # "shards" \/ (at' = at /\ model' = model /\ g' = g)
  PROVE  FolderInv'
<1>1. \A m, s : HasFiles(m, s)' = HasFiles(m, s)
  BY SameJob DEF HasFiles
<1>2. at = "shards" => Current' = Current
  BY SameJob DEF Current
<1> QED BY <1>1, <1>2, SameJob DEF FolderInv, Times

\* What is loaded is what the tracker names, or nothing was ever tracked.
LEMMA LoadKeeps ==
  ASSUME JobInv, LoadCheckpoint, job' = job
  PROVE  JobInv'
<1>0. job \in Jobs /\ at = "load" /\ pending = <<>>
  BY DEF JobInv, JobTypeOK, LoadCheckpoint, ShardsInv
<1>1. /\ shard' = shard /\ data' = data /\ tracker' = tracker /\ model' = model /\ life' = life
      /\ saved' = saved /\ pending' = pending /\ lastSave' = lastSave
  BY DEF LoadCheckpoint, disk
<1>2. tracker \in Step => tracker \in Nat /\ tracker <= EpochLen * Epochs
  BY <1>0, JobFacts DEF TotalSteps
<1>3. tracker \in Step =>
        tracker \div EpochLen \in 0..Epochs /\ (tracker \div EpochLen < Epochs => tracker < TotalSteps)
  BY <1>0, <1>2, JobFacts, EpochOfStep DEF TotalSteps
<1>4. /\ at' \in {"loop", "ended", "failed"} /\ g' \in 0..TotalSteps /\ epoch' \in 0..Epochs
      /\ pos' \in [Feeder -> 0..EpochLen]
      /\ at' = "loop" => g' < TotalSteps /\ epoch' < Epochs
      /\ at' \in {"loop", "ended"} => g' = tracker \/ (Scratch /\ g' = 0)
  <2>1. CASE Scratch
    BY <1>0, <2>1, JobFacts DEF Scratch
  <2>2. CASE Resume
    <3>1. \A f \in Feeder : data[tracker][f] \in {NoData} \cup 0..EpochLen
      BY <2>2 DEF Resume, JobInv, JobTypeOK
    <3>2. pos' \in [Feeder -> 0..EpochLen]
      BY <1>0, <2>2, <3>1, JobFacts DEF Resume
    <3> QED BY <1>0, <1>3, <2>2, <3>2, JobFacts DEF Resume
  <2>3. CASE LoadFails
    BY <1>0, <2>3 DEF LoadFails, JobInv, JobTypeOK
  <2> QED BY <2>1, <2>2, <2>3 DEF LoadCheckpoint
<1>5. JobTypeOK'
  BY <1>0, <1>1, <1>4, SameJob DEF JobInv, JobTypeOK
<1>6. PlaceInv'
  BY <1>0, <1>1, <1>4, SameJob DEF PlaceInv, InSave, Up
<1>7. ModelsKept /\ Scratch => tracker = NoFile
  <2> SUFFICES ASSUME ModelsKept, tracker \in Step, ~FolderExists(tracker) PROVE FALSE
    BY DEF Scratch
  <2>1. HasFiles(Models[1], tracker)
    BY <1>0, ModelFacts, WholeHasFiles DEF JobInv, ModelsTracked
  <2> QED BY <2>1, ModelFacts DEF FolderExists
<1>8. ModelsKept /\ at' \in {"loop", "ended"} => tracker <= g' /\ lastSave <= g' /\ tracker # Torn
  <2> SUFFICES ASSUME ModelsKept, at' \in {"loop", "ended"}
               PROVE tracker <= g' /\ lastSave <= g' /\ tracker # Torn
    OBVIOUS
  <2>1. tracker # Torn
    BY <1>0, JobFacts DEF LoadCheckpoint, Scratch, Resume, LoadFails, Torn, NoFile
  <2>2. lastSave <= tracker /\ (g' = tracker \/ (tracker = NoFile /\ g' = 0))
    BY <2>1, <1>4, <1>7 DEF JobInv, TrackerInv
  <2>3. tracker \in Int /\ lastSave \in Int
    BY <1>0, JobFacts DEF JobInv, JobTypeOK, NoFile, Torn
  <2> QED BY <2>1, <2>2, <2>3 DEF NoFile
<1>9. TrackerInv'
  <2>1. tracker # Torn \/ at' = "failed"
    BY <1>0, JobFacts DEF LoadCheckpoint, Scratch, Resume, LoadFails, Torn, NoFile
  <2>2. tracker' = Torn => at' = "failed" /\ Handler = "ppo" /\ ~AsyncSave
    BY <1>1, <2>1 DEF JobInv, TrackerInv
  <2>3. ModelsKept /\ tracker # Torn => lastSave <= tracker
    BY DEF JobInv, TrackerInv
  <2>4. AsyncSave => lastSave = 0
    BY DEF JobInv, TrackerInv
  <2> QED BY <1>1, <1>4, <1>8, <2>2, <2>3, <2>4, SameJob DEF TrackerInv, Up, Torn
<1>10. SavedInv'
  <2>1. \A m \in Model : saved[m] = <<>>
    BY <1>0 DEF JobInv, EmptyInv
  <2> QED BY <1>1, <2>1, SameJob, ModelFacts DEF SavedInv
<1>11. ShardsInv' /\ StatesInv'
  BY <1>0, <1>1, <1>4, SameJob DEF ShardsInv, StatesInv, InSave
<1>12. FolderInv'
  BY <1>0, <1>1, FoldersStay DEF JobInv
<1>13. (ModelsKept => ModelsTracked)' /\ (ModelsKept /\ DataKept => DataTracked)'
  BY <1>1, TrackedStays, SameJob DEF JobInv
<1>14. LoadInv'
  <2> SUFFICES ASSUME ModelsKept, DataKept, Handler = "sft" \/ AsyncSave, LoadFails PROVE FALSE
    BY <1>0, SameJob, JobFacts DEF LoadInv, AlwaysLoads, LoadCheckpoint, Scratch, Resume
  <2>1. tracker # Torn
    BY DEF JobInv, TrackerInv
  <2>2. tracker \in Step
    BY <2>1 DEF LoadFails
  <2>3. \A m \in Model, r \in WorldRank : shard[m][tracker][r] # NoFile
    BY <1>0, <2>2, WholeHasFiles DEF JobInv, ModelsTracked
  <2>4. \A f \in Feeder : data[tracker][f] # Torn
    BY <1>0, <2>2, JobFacts DEF JobInv, DataTracked, Torn
  <2> QED BY <2>1, <2>3, <2>4 DEF LoadFails
<1>15. EmptyInv'
  BY <1>0, <1>1, <1>4, SameJob DEF JobInv, EmptyInv
<1> QED BY <1>5, <1>6, <1>9, <1>10, <1>11, <1>12, <1>13, <1>14, <1>15 DEF JobInv

\* What is finalized is the longest beginning of what is pending that is written.
LEMMA FinalizedFirst ==
  ASSUME NEW S, NEW p \in Seq(S)
  PROVE  /\ Cardinality(Finalized(p)) \in 0..Len(p)
         /\ Finalized(p) = 1..Cardinality(Finalized(p))
<1> DEFINE F == Finalized(p)
<1> DEFINE n == Cardinality(F)
<1>1. F \subseteq 1..Len(p) /\ \A x \in F : 1..x \subseteq F
  BY DEF Finalized
<1>2. IsFiniteSet(1..Len(p)) /\ Cardinality(1..Len(p)) = Len(p)
  <2>1. Len(p) \in Nat /\ Len(p) \in Int /\ 1 \in Int
    OBVIOUS
  <2> QED BY <2>1, FS_Interval
<1>3. IsFiniteSet(F) /\ n \in Nat /\ n <= Len(p)
  BY <1>1, <1>2, FS_Subset, FS_CardinalityType
<1>4. ASSUME NEW x \in F PROVE x <= n
  <2>1. x \in Nat /\ Cardinality(1..x) = x
    BY <1>1, FS_Interval
  <2>2. 1..x \subseteq F
    BY <1>1, <1>4
  <2>3. Cardinality(1..x) <= n
    BY <1>3, <2>2, FS_Subset
  <2> QED BY <2>1, <2>3
<1>5. F \subseteq 1..n
  BY <1>1, <1>3, <1>4
<1>6. IsFiniteSet(1..n) /\ Cardinality(1..n) = n
  BY <1>3, FS_Interval
<1>7. F = 1..n
  BY <1>3, <1>5, <1>6, FS_Subset
<1> QED BY <1>3, <1>7

\* What is pending is a step being saved behind.
LEMMA PendingSteps ==
  ASSUME JobTypeOK
  PROVE  \A i \in DOMAIN pending : pending[i].step \in Step /\ pending[i].written \in BOOLEAN
<1> DEFINE T == [step : Step, written : BOOLEAN]
<1>1. pending \in Seq(T)
  BY DEF JobTypeOK
<1> HIDE DEF T
<1>2. \A i \in DOMAIN pending : pending[i] \in T
  BY <1>1
<1> QED BY <1>2 DEF T

\* A sequence without its first elements.
LEMMA Rest ==
  ASSUME NEW S, NEW p \in Seq(S), NEW n \in 0..Len(p), NEW q, q = SubSeq(p, n + 1, Len(p))
  PROVE  /\ q \in Seq(S) /\ Len(q) = Len(p) - n /\ DOMAIN q = 1..Len(p) - n
         /\ \A i \in DOMAIN q : q[i] = p[n + i] /\ n + i \in DOMAIN p
         /\ \A k \in DOMAIN p : k > n => k - n \in DOMAIN q /\ q[k - n] = p[k]
<1>1. Len(p) \in Nat /\ DOMAIN p = 1..Len(p) /\ \A i \in 1..Len(p) : p[i] \in S
  OBVIOUS
<1>2. \A i \in n + 1..Len(p) : p[i] \in S
  BY <1>1
<1>3. /\ q \in Seq(S) /\ Len(q) = Len(p) - n
      /\ \A i \in 1..Len(p) - (n + 1) + 1 : q[i] = p[n + 1 + i - 1]
  <2> DEFINE low == n + 1
             up == Len(p)
  <2>1. low \in Int /\ up \in Int /\ low >= 1 /\ low <= up + 1 /\ up <= Len(p)
    BY <1>1
  <2>2. q = SubSeq(p, low, up) /\ \A i \in low..up : p[i] \in S
    BY <1>2
  <2>3. up - low + 1 = Len(p) - n /\ ~(up < low - 1)
    BY <1>1
  <2> HIDE DEF low, up
  <2>4. /\ q \in Seq(S) /\ Len(q) = IF low <= up THEN up - low + 1 ELSE 0
        /\ \A i \in 1..up - low + 1 : q[i] = p[low + i - 1]
    BY ONLY <2>1, <2>2, p \in Seq(S), SubSeqProperties
  <2>5. Len(q) = Len(p) - n
    BY <2>1, <2>3, <2>4
  <2> QED BY <2>4, <2>5 DEF low, up
<1>4. DOMAIN q = 1..Len(p) - n
  BY <1>3
<1>5. \A i \in 1..Len(p) - n : q[i] = p[n + i]
  <2> TAKE i \in 1..Len(p) - n
  <2>1. Len(p) - (n + 1) + 1 = Len(p) - n /\ n + 1 + i - 1 = n + i
    BY <1>1
  <2> QED BY <1>3, <2>1
<1>6. \A i \in DOMAIN q : q[i] = p[n + i] /\ n + i \in DOMAIN p
  BY <1>1, <1>4, <1>5
<1>7. ASSUME NEW k \in DOMAIN p, k > n PROVE k - n \in DOMAIN q /\ q[k - n] = p[k]
  <2>1. k - n \in 1..Len(p) - n /\ n + (k - n) = k
    BY <1>1, <1>7
  <2> QED BY <1>4, <1>5, <2>1
<1> QED BY <1>3, <1>4, <1>6, <1>7

\* TrainStep finalizes saves that are written whole, so that what it tracks can be loaded, and
\* takes a step beyond everything tracked.
LEMMA TrainKeeps ==
  ASSUME JobInv, TrainStep, job' = job
  PROVE  JobInv'
<1> DEFINE n == Cardinality(Finalized(pending))
<1>0. /\ job \in Jobs /\ at = "loop" /\ g \in 0..TotalSteps /\ g < TotalSteps
      /\ pending \in Seq([step : Step, written : BOOLEAN]) /\ tracker # Torn
  BY DEF JobInv, JobTypeOK, TrainStep, PlaceInv, TrackerInv
<1>1. /\ life' = life /\ epoch' = epoch /\ saved' = saved /\ shard' = shard /\ data' = data
      /\ lastSave' = lastSave /\ model' = 1 /\ g' = g + 1 /\ at' \in {"rotate", "stepEnd"}
      /\ pos' = [f \in Feeder |-> pos[f] + 1] /\ \A f \in Feeder : pos[f] < EpochLen
      /\ tracker' = IF n > 0 THEN pending[n].step ELSE tracker
      /\ pending' = SubSeq(pending, n + 1, Len(pending))
  BY DEF TrainStep
<1>2. n \in 0..Len(pending) /\ Finalized(pending) = 1..n
  BY <1>0, FinalizedFirst
<1>3. /\ pending' \in Seq([step : Step, written : BOOLEAN]) /\ Len(pending') = Len(pending) - n
      /\ \A i \in DOMAIN pending' : pending'[i] = pending[n + i] /\ n + i \in DOMAIN pending
  <2> DEFINE T == [step : Step, written : BOOLEAN]
  <2>1. pending \in Seq(T) /\ n \in 0..Len(pending) /\ pending' = SubSeq(pending, n + 1, Len(pending))
    BY <1>0, <1>1, <1>2
  <2> HIDE DEF n, T
  <2>2. /\ pending' \in Seq(T) /\ Len(pending') = Len(pending) - n
        /\ \A i \in DOMAIN pending' : pending'[i] = pending[n + i] /\ n + i \in DOMAIN pending
    BY ONLY <2>1, Rest
  <2> QED BY <2>2 DEF T
<1>4. n > 0 => n \in DOMAIN pending /\ pending[n].written /\ pending[n].step \in Step /\ AsyncSave
  <2> SUFFICES ASSUME n > 0 PROVE n \in DOMAIN pending /\ pending[n].written /\ pending[n].step \in Step /\ AsyncSave
    OBVIOUS
  <2>1. n \in Finalized(pending)
    BY <1>2
  <2>2. n \in DOMAIN pending /\ pending[n].written
    BY <1>2, <2>1 DEF Finalized
  <2>3. pending # <<>>
    BY <2>2
  <2> HIDE DEF n
  <2>4. AsyncSave
    BY <2>3 DEF JobInv, ShardsInv
  <2> QED BY <2>2, <2>4, PendingSteps DEF JobInv
<1>5. ~AsyncSave => tracker' = tracker /\ pending' = <<>>
  <2> SUFFICES ASSUME ~AsyncSave PROVE tracker' = tracker /\ pending' = <<>>
    OBVIOUS
  <2>1. pending = <<>> /\ ~(n > 0)
    BY <1>4 DEF JobInv, ShardsInv
  <2>2. Len(pending') = 0
    BY <1>2, <1>3, <2>1
  <2> QED BY <1>1, <1>3, <2>1, <2>2
<1> HIDE DEF n
<1>6. JobTypeOK'
  <2>0. pos \in [Feeder -> 0..EpochLen] /\ EpochLen \in Nat
    BY <1>0, JobFacts DEF JobInv, JobTypeOK
  <2>1. pos' \in [Feeder -> 0..EpochLen]
    BY <1>1, <2>0
  <2>2. g' \in 0..TotalSteps
    BY <1>0, <1>1, JobFacts
  <2>3. tracker' \in {NoFile, Torn} \cup Step
    BY <1>1, <1>4 DEF JobInv, JobTypeOK
  <2>4. /\ life' = life /\ epoch' = epoch /\ saved' = saved /\ shard' = shard /\ data' = data
        /\ lastSave' = lastSave /\ at' \in {"rotate", "stepEnd"}
    BY <1>1
  <2>5. model' \in DOMAIN Models
    BY <1>1, ModelFacts
  <2> QED BY ONLY <1>3, <2>1, <2>2, <2>3, <2>4, <2>5, JobInv, job' = job, SameJob
      DEF JobInv, JobTypeOK
<1>7. PlaceInv'
  BY <1>0, <1>1, SameJob, JobFacts DEF JobInv, PlaceInv, InSave, Up
<1>8. tracker' # Torn
  BY <1>0, <1>1, <1>4, JobFacts DEF Torn
<1>9. ModelsKept => tracker' < g' /\ lastSave <= tracker'
  <2> SUFFICES ASSUME ModelsKept PROVE tracker' < g' /\ lastSave <= tracker'
    OBVIOUS
  <2>1. tracker <= g /\ lastSave <= tracker /\ (AsyncSave => lastSave = 0)
    BY <1>0 DEF JobInv, TrackerInv, Up
  <2>2. tracker \in Int
    BY <1>0, JobFacts DEF JobInv, JobTypeOK, NoFile, Torn
  <2>3. n > 0 => pending[n].step <= g
    BY <1>0, <1>4 DEF JobInv, ShardsInv
  <2> QED BY <1>0, <1>1, <1>4, <2>1, <2>2, <2>3, JobFacts, SMTT(30)
<1>10. TrackerInv'
  <2>1. ModelsKept => lastSave <= g'
    BY <1>0, <1>1, JobFacts DEF JobInv, TrackerInv, Up, JobTypeOK
  <2>2. AsyncSave => lastSave = 0
    BY DEF JobInv, TrackerInv
  <2>3. tracker' \in Int
    BY <1>1, <1>4, JobFacts, <1>0 DEF JobInv, JobTypeOK, NoFile, Torn
  <2>4. /\ at' \in {"rotate", "stepEnd"} /\ lastSave' = lastSave /\ Handler' = Handler
        /\ AsyncSave' = AsyncSave /\ Backend' = Backend /\ ModelsKept' = ModelsKept
    BY <1>1, SameJob
  <2>5. ModelsKept => tracker' <= g' /\ tracker' < g' /\ lastSave <= g' /\ lastSave <= tracker'
    <3>1. g' \in Int
      BY <1>0, <1>1, JobFacts
    <3> QED BY ONLY <1>9, <2>1, <2>3, <3>1
  <2> QED BY ONLY <1>8, <2>2, <2>4, <2>5 DEF TrackerInv
<1>11. SavedInv'
  <2> SUFFICES ASSUME ModelsKept, ~AsyncSave PROVE SavedInv'
    BY SameJob DEF SavedInv
  <2>1. \A i \in DOMAIN Models : LET paths == saved[Models[i]] IN
          /\ \A j, k \in DOMAIN paths : j < k => paths[j] < paths[k]
          /\ \A j \in DOMAIN paths : paths[j] <= tracker
    BY <1>0 DEF JobInv, SavedInv, Up, InSave
  <2> QED BY <1>1, <1>5, <2>1, SameJob DEF SavedInv
<1>12. ShardsInv'
  <2>1. \A i \in DOMAIN pending' : pending'[i].step <= g'
    <3> TAKE i \in DOMAIN pending'
    <3>1. AsyncSave
      BY <1>5
    <3>2. pending'[i] = pending[n + i] /\ n + i \in DOMAIN pending
      BY <1>3
    <3>3. pending[n + i].step <= g
      BY <3>1, <3>2 DEF JobInv, ShardsInv
    <3>4. pending[n + i].step \in Step
      BY <3>2, PendingSteps DEF JobInv
    <3>5. pending[n + i].step \in Int /\ g \in Int /\ g' = g + 1
      BY <1>0, <1>1, <3>4, JobFacts
    <3>6. pending'[i].step <= g'
      BY ONLY <3>2, <3>3, <3>5
    <3> QED BY <3>6
  <2>2. ModelsKept /\ AsyncSave => \A i \in DOMAIN pending' : pending'[i].written =>
          \A r \in WorldRank : shard["actor"][pending'[i].step][r] = life
    BY <1>3 DEF JobInv, ShardsInv
  <2>3. \A i \in DOMAIN Models : ~(i <= model' /\ Behind(i)' /\ InSave')
    BY <1>1, ModelFacts DEF Behind, InSave
  <2>4. at' \notin {"load", "failed"} /\ shard' = shard /\ life' = life
    BY <1>1
  <2>5. WorldRank' = WorldRank /\ Models' = Models /\ AsyncSave' = AsyncSave
          /\ ModelsKept' = ModelsKept
    BY SameJob
  <2> QED BY <1>5, <2>1, <2>2, <2>3, <2>4, <2>5 DEF ShardsInv
<1>13. StatesInv'
  <2>1. AsyncSave => \A i \in DOMAIN pending : data[pending[i].step][1] \in 0..EpochLen
    BY <1>0 DEF JobInv, StatesInv
  <2> QED BY <1>1, <1>3, <2>1, SameJob DEF StatesInv
<1>14. FolderInv'
  BY <1>0, <1>1, FoldersStay DEF JobInv
<1>15. (ModelsKept => ModelsTracked)'
  <2> SUFFICES ASSUME ModelsKept PROVE ModelsTracked'
    BY SameJob
  <2>1. CASE n = 0
    BY <1>1, <2>1, TrackedStays DEF JobInv
  <2>2. CASE n > 0
    <3>1. AsyncSave /\ tracker' = pending[n].step
      BY <1>1, <1>4, <2>2
    <3>2. \A r \in WorldRank : shard["actor"][tracker'][r] = life
      BY <1>4, <2>2, <3>1 DEF JobInv, ShardsInv
    <3>3. Model = {"actor"} /\ life \in 1..job.max_life
      BY <1>0, <3>1, JobFacts, ModelFacts DEF JobInv, JobTypeOK
    <3> QED BY <1>1, <3>2, <3>3, SameJob DEF ModelsTracked, Whole
  <2> QED BY <1>2, <2>1, <2>2
<1>16. (ModelsKept /\ DataKept => DataTracked)'
  <2> SUFFICES ASSUME ModelsKept, DataKept PROVE DataTracked'
    BY SameJob
  <2>1. CASE n = 0
    BY <1>1, <2>1, TrackedStays DEF JobInv
  <2>2. CASE n > 0
    <3>1. AsyncSave /\ tracker' = pending[n].step
      BY <1>1, <1>4, <2>2
    <3>2. data[tracker'][1] \in 0..EpochLen
      BY <1>0, <1>4, <2>2, <3>1 DEF JobInv, StatesInv
    <3>3. Feeder = {1}
      BY <1>0, <3>1, JobFacts DEF Feeder
    <3> QED BY <1>1, <3>2, <3>3, SameJob DEF DataTracked
  <2> QED BY <1>2, <2>1, <2>2
<1>17. LoadInv' /\ EmptyInv'
  BY <1>1 DEF LoadInv, AlwaysLoads, EmptyInv
<1> QED BY <1>6, <1>7, <1>10, <1>11, <1>12, <1>13, <1>14, <1>15, <1>16, <1>17 DEF JobInv

\* A new epoch touches no file.
LEMMA NextEpochKeeps ==
  ASSUME JobInv, NextEpoch, job' = job
  PROVE  JobInv'
<1>0. job \in Jobs /\ at = "loop" /\ tracker # Torn
  BY DEF JobInv, JobTypeOK, NextEpoch, TrackerInv
<1>1. /\ shard' = shard /\ data' = data /\ tracker' = tracker /\ model' = model /\ life' = life
      /\ saved' = saved /\ pending' = pending /\ lastSave' = lastSave /\ g' = g
      /\ epoch' = epoch + 1 /\ pos' = [f \in Feeder |-> 0]
      /\ at' = IF epoch' < Epochs THEN "loop" ELSE "ended"
  BY SameJob DEF NextEpoch, disk
<1>2. epoch \in 0..Epochs /\ epoch < Epochs
  BY <1>0 DEF JobInv, JobTypeOK, PlaceInv, Up
<1>3. JobTypeOK'
  <2>1. pos' \in [Feeder -> 0..EpochLen] /\ epoch' \in 0..Epochs
    BY <1>0, <1>1, <1>2, JobFacts
  <2> QED BY <1>0, <1>1, <2>1, SameJob DEF JobInv, JobTypeOK
<1>4. PlaceInv'
  BY <1>0, <1>1, SameJob DEF JobInv, PlaceInv, InSave, Up
<1>5. TrackerInv'
  BY <1>0, <1>1, SameJob DEF JobInv, TrackerInv, Up
<1>6. SavedInv'
  BY <1>0, <1>1, SameJob DEF JobInv, SavedInv, Up, InSave
<1>7. ShardsInv' /\ StatesInv'
  BY <1>0, <1>1, SameJob DEF JobInv, ShardsInv, StatesInv, InSave
<1>8. FolderInv'
  BY <1>0, <1>1, FoldersStay DEF JobInv
<1>9. (ModelsKept => ModelsTracked)' /\ (ModelsKept /\ DataKept => DataTracked)'
  BY <1>1, TrackedStays, SameJob DEF JobInv
<1>10. LoadInv' /\ EmptyInv'
  BY <1>1 DEF LoadInv, AlwaysLoads, EmptyInv
<1> QED BY <1>3, <1>4, <1>5, <1>6, <1>7, <1>8, <1>9, <1>10 DEF JobInv


\* The end of the loop finalizes all that is pending, the last of which is tracked.
LEMMA StepEndKeeps ==
  ASSUME JobInv, StepEnd, job' = job
  PROVE  JobInv'
<1> DEFINE n == Len(pending)
<1>0. job \in Jobs /\ at = "stepEnd" /\ tracker # Torn
  BY DEF JobInv, JobTypeOK, StepEnd, TrackerInv
<1>1. /\ shard' = shard /\ data' = data /\ model' = model /\ life' = life
      /\ saved' = saved /\ lastSave' = lastSave /\ g' = g /\ epoch' = epoch /\ pos' = pos
      /\ at' \in {"loop", "ended"} /\ (at' = "loop" => g < TotalSteps)
      /\ pending' = pending \/ pending' = <<>>
      /\ \/ tracker' = tracker
         \/ pending # <<>> /\ pending[n].written /\ tracker' = pending[n].step
  <2>1. pending # <<>> => n \in DOMAIN pending
    BY DEF JobInv, JobTypeOK
  <2>2. /\ shard' = shard /\ data' = data /\ model' = model /\ life' = life
        /\ saved' = saved /\ lastSave' = lastSave /\ g' = g /\ epoch' = epoch /\ pos' = pos
    BY DEF StepEnd
  <2>3. CASE g < TotalSteps
    BY <2>2, <2>3 DEF StepEnd
  <2>4. CASE ~(g < TotalSteps)
    <3>1. /\ at' = "ended" /\ pending' = <<>>
          /\ tracker' = IF pending = <<>> THEN tracker ELSE pending[n].step
          /\ \A i \in DOMAIN pending : pending[i].written
      BY <2>4 DEF StepEnd
    <3> HIDE DEF n
    <3> QED BY <2>1, <2>2, <2>4, <3>1
  <2> QED BY <2>3, <2>4
<1>2. pending # <<>> => n \in DOMAIN pending /\ pending[n].step \in Step /\ AsyncSave
  <2>1. pending # <<>> => n \in DOMAIN pending
    BY DEF JobInv, JobTypeOK
  <2>2. pending # <<>> => AsyncSave
    BY DEF JobInv, ShardsInv
  <2> QED BY <2>1, <2>2, PendingSteps DEF JobInv
<1> HIDE DEF n
<1>3. g \in Step /\ epoch < Epochs
  BY <1>0 DEF JobInv, PlaceInv, InSave, Up
<1>4. JobTypeOK'
  <2>1. tracker' \in {NoFile, Torn} \cup Step
    BY <1>1, <1>2 DEF JobInv, JobTypeOK
  <2>2. pending' \in Seq([step : Step, written : BOOLEAN])
    <3> DEFINE T == [step : Step, written : BOOLEAN]
    <3>1. pending \in Seq(T)
      BY DEF JobInv, JobTypeOK
    <3> HIDE DEF T
    <3>2. <<>> \in Seq(T)
      OBVIOUS
    <3>3. pending' \in Seq(T)
      BY <1>1, <3>1, <3>2
    <3> QED BY <3>3 DEF T
  <2> QED BY <1>0, <1>1, <2>1, <2>2, SameJob DEF JobInv, JobTypeOK
<1>5. PlaceInv'
  BY <1>0, <1>1, <1>3, SameJob DEF PlaceInv, InSave, Up
<1>6. TrackerInv'
  <2>1. tracker' # Torn
    BY <1>0, <1>1, <1>2, JobFacts DEF Torn
  <2>2. AsyncSave => lastSave = 0
    BY DEF JobInv, TrackerInv
  <2>3. ModelsKept => tracker' <= g /\ lastSave <= g /\ lastSave <= tracker'
    <3> SUFFICES ASSUME ModelsKept PROVE tracker' <= g /\ lastSave <= g /\ lastSave <= tracker'
      OBVIOUS
    <3>1. tracker <= g /\ lastSave <= g /\ lastSave <= tracker
      BY <1>0 DEF JobInv, TrackerInv, Up
    <3>2. CASE tracker' = tracker
      BY <3>1, <3>2
    <3>3. CASE tracker' # tracker
      <4>1. AsyncSave /\ tracker' = pending[n].step /\ tracker' \in Step /\ n \in DOMAIN pending
        BY <1>1, <1>2, <3>3
      <4>2. tracker' <= g
        BY <4>1 DEF JobInv, ShardsInv
      <4> QED BY <1>0, <2>2, <3>1, <4>1, <4>2, JobFacts
    <3> QED BY <3>2, <3>3
  <2> QED BY <1>1, <2>1, <2>2, <2>3, SameJob DEF TrackerInv, Up
<1>7. SavedInv'
  <2>1. ~AsyncSave => tracker' = tracker
    BY <1>1, <1>2
  <2> QED BY <1>0, <1>1, <2>1, SameJob DEF JobInv, SavedInv, Up, InSave
<1>8. ShardsInv' /\ StatesInv'
  <2>1. \A i : i \notin DOMAIN <<>>
    OBVIOUS
  <2>2. CASE pending' = pending
    BY <1>0, <1>1, <2>2, SameJob DEF JobInv, ShardsInv, StatesInv, InSave
  <2>3. CASE pending' = <<>>
    BY <1>0, <1>1, <2>1, <2>3, SameJob DEF ShardsInv, StatesInv, InSave
  <2> QED BY <1>1, <2>2, <2>3
<1>9. FolderInv'
  BY <1>0, <1>1, FoldersStay DEF JobInv
<1>10. (ModelsKept => ModelsTracked)' /\ (ModelsKept /\ DataKept => DataTracked)'
  <2>1. CASE tracker' = tracker
    BY <1>1, <2>1, TrackedStays, SameJob DEF JobInv
  <2>2. CASE tracker' # tracker
    <3>1. AsyncSave /\ tracker' = pending[n].step /\ n \in DOMAIN pending /\ pending[n].written
      BY <1>1, <1>2, <2>2
    <3>2. ModelsKept => \A r \in WorldRank : shard["actor"][tracker'][r] = life
      BY <3>1 DEF JobInv, ShardsInv
    <3>3. Model = {"actor"} /\ life \in 1..job.max_life /\ Feeder = {1}
      BY <1>0, <3>1, JobFacts, ModelFacts DEF JobInv, JobTypeOK, Feeder
    <3>4. data[tracker'][1] \in 0..EpochLen
      BY <1>0, <3>1 DEF JobInv, StatesInv
    <3>5. ModelsKept => ModelsTracked'
      BY <1>1, <3>2, <3>3, SameJob DEF ModelsTracked, Whole
    <3>6. DataTracked'
      BY <1>1, <3>3, <3>4, SameJob DEF DataTracked
    <3> QED BY <3>5, <3>6, SameJob
  <2> QED BY <2>1, <2>2
<1>11. LoadInv' /\ EmptyInv'
  BY <1>1 DEF LoadInv, AlwaysLoads, EmptyInv
<1> QED BY <1>4, <1>5, <1>6, <1>7, <1>8, <1>9, <1>10, <1>11 DEF JobInv

\* The manager at work is that of one model.
LEMMA CurrentIsModel ==
  ASSUME JobTypeOK
  PROVE  /\ Current = Models[model] /\ Current \in Model /\ model \in 1..Len(Models)
         /\ saved[Current] \in Seq(Step) /\ job \in Jobs /\ life \in 1..job.max_life
         /\ \A i \in DOMAIN Models : Models[i] = Current => i = model
  BY ModelFacts DEF JobTypeOK, Current

\* With room for two, rotation takes older steps than the last it remembers: not the tracked one.
LEMMA RotateKeeps ==
  ASSUME JobInv, Rotate, job' = job
  PROVE  JobInv'
<1> DEFINE c == Current
           n == Doomed(c)
           gone == {saved[c][i] : i \in 1..n}
<1>0. /\ job \in Jobs /\ at = "rotate" /\ c = Models[model] /\ c \in Model /\ model \in DOMAIN Models
      /\ saved[c] \in Seq(Step) /\ \A i \in DOMAIN Models : Models[i] = c => i = model
  BY CurrentIsModel, ModelFacts DEF JobInv, Rotate
<1>1. /\ model' = model /\ life' = life /\ g' = g /\ epoch' = epoch /\ pos' = pos
      /\ pending' = pending /\ tracker' = tracker /\ lastSave' = lastSave /\ at' = "shards"
      /\ shard' = [shard EXCEPT ![c] = [s \in Step |-> IF s \in gone THEN NoShards ELSE @[s]]]
      /\ data' = [s \in Step |-> IF Handler = "sft" /\ s \in gone
                                 THEN [f \in Feeder |-> NoData] ELSE data[s]]
      /\ saved' = [saved EXCEPT ![c] = SubSeq(@, n + 1, Len(@))]
  BY DEF Rotate
<1>2. /\ n \in 0..Len(saved[c]) /\ (Keep > 0 => Len(saved[c]) - n < Keep)
      /\ Keep = 0 => n = 0
      /\ Keep > 1 /\ n > 0 => n < Len(saved[c])
  <2> DEFINE l == Len(saved[c])
  <2>1. l \in Nat /\ Keep \in Nat
    BY <1>0, JobFacts
  <2>2. n = IF Keep > 0 /\ l >= Keep THEN l - Keep + 1 ELSE 0
    BY DEF Doomed
  <2> HIDE DEF c, n, l
  <2>3. /\ n \in 0..l /\ (Keep > 0 => l - n < Keep)
        /\ Keep = 0 => n = 0
        /\ Keep > 1 /\ n > 0 => n < l
    BY ONLY <2>1, <2>2
  <2> QED BY <2>3 DEF l
<1>3. /\ saved' = [saved EXCEPT ![c] = saved'[c]] /\ saved'[c] \in Seq(Step)
      /\ Len(saved'[c]) = Len(saved[c]) - n
      /\ \A i \in DOMAIN saved'[c] : saved'[c][i] = saved[c][n + i] /\ n + i \in DOMAIN saved[c]
      /\ \A k \in DOMAIN saved[c] : k > n => k - n \in DOMAIN saved'[c] /\ saved'[c][k - n] = saved[c][k]
  <2>1. saved \in [Model -> Seq(Step)]
    BY DEF JobInv, JobTypeOK
  <2>2. saved'[c] = SubSeq(saved[c], n + 1, Len(saved[c]))
    BY <1>0, <1>1, <2>1
  <2>3. saved' = [saved EXCEPT ![c] = saved'[c]]
    BY <1>0, <1>1, <2>1, <2>2
  <2>4. saved[c] \in Seq(Step) /\ n \in 0..Len(saved[c])
    BY <1>0, <1>2
  <2> HIDE DEF c, n
  <2>5. /\ saved'[c] \in Seq(Step) /\ Len(saved'[c]) = Len(saved[c]) - n
        /\ \A i \in DOMAIN saved'[c] : saved'[c][i] = saved[c][n + i] /\ n + i \in DOMAIN saved[c]
        /\ \A k \in DOMAIN saved[c] : k > n => k - n \in DOMAIN saved'[c] /\ saved'[c][k - n] = saved[c][k]
    BY ONLY <2>2, <2>4, Rest
  <2> QED BY <2>3, <2>5
<1>4. gone \subseteq Step /\ \A i \in 1..n : i \in DOMAIN saved[c]
  <2>1. saved[c] \in Seq(Step) /\ n \in 0..Len(saved[c])
    BY <1>0, <1>2
  <2> HIDE DEF c, n
  <2>2. \A i \in 1..n : i \in DOMAIN saved[c] /\ saved[c][i] \in Step
    BY ONLY <2>1
  <2> QED BY <2>2
<1>5. ModelsKept /\ tracker \in Step => tracker \notin gone
  <2> SUFFICES ASSUME ModelsKept, tracker \in Step, NEW i \in 1..n, saved[c][i] = tracker PROVE FALSE
    OBVIOUS
  <2>1. n > 0 /\ Keep \in Nat /\ Keep # 0 /\ Keep # 1 /\ ~AsyncSave
    BY <1>0, <1>2, JobFacts DEF ModelsKept
  <2>2. n < Len(saved[c])
    BY <1>2, <2>1
  <2>3. i \in DOMAIN saved[c] /\ Len(saved[c]) \in DOMAIN saved[c] /\ i < Len(saved[c])
    <3>1. saved[c] \in Seq(Step) /\ n \in 0..Len(saved[c]) /\ n < Len(saved[c]) /\ i \in 1..n
      BY <1>0, <1>2, <2>2
    <3> HIDE DEF c, n
    <3> QED BY ONLY <3>1
  <2>4. saved[c][i] < saved[c][Len(saved[c])]
    BY <1>0, <2>1, <2>3 DEF JobInv, SavedInv, Up
  <2>5. ~Behind(model) /\ tracker # Torn
    BY <1>0, <2>1, ModelFacts DEF Behind, JobInv, TrackerInv
  <2>6. saved[c][Len(saved[c])] <= tracker
    BY <1>0, <2>1, <2>3, <2>5 DEF JobInv, SavedInv, Up
  <2>7. tracker \in Int /\ saved[c][Len(saved[c])] \in Int
    BY <1>0, <2>3, JobFacts
  <2> QED BY <2>4, <2>6, <2>7
<1> HIDE DEF c, n, gone
<1>6. /\ \A m \in Model : m # c => shard'[m] = shard[m] /\ saved'[m] = saved[m]
      /\ \A s \in Step : shard'[c][s] = IF s \in gone THEN NoShards ELSE shard[c][s]
      /\ \A m \in Model, s \in Step : s \notin gone => shard'[m][s] = shard[m][s]
      /\ \A s \in Step : s \notin gone => data'[s] = data[s]
  BY <1>0, <1>1, <1>3 DEF JobInv, JobTypeOK
<1>7. JobTypeOK'
  <2>1. NoShards \in [WorldRank -> 0..job.max_life]
    BY <1>0, JobFacts DEF NoShards, NoFile
  <2>2. shard' \in [Model -> [Step -> [WorldRank -> 0..job.max_life]]]
    BY <1>0, <1>1, <2>1 DEF JobInv, JobTypeOK
  <2>3. data' \in [Step -> [Feeder -> {NoData, Torn} \cup 0..EpochLen]]
    BY <1>1 DEF JobInv, JobTypeOK
  <2>4. saved' \in [Model -> Seq(Step)]
    BY <1>0, <1>3 DEF JobInv, JobTypeOK
  <2>5. ASSUME Keep > 0, NEW m \in Model PROVE Len(saved'[m]) <= Keep
    <3>1. CASE m # c
      BY <1>6, <2>5, <3>1 DEF JobInv, JobTypeOK
    <3>2. CASE m = c
      <4>1. Len(saved[c]) \in Nat /\ n \in 0..Len(saved[c]) /\ Keep \in Nat
        BY <1>0, <1>2, JobFacts
      <4>2. Len(saved[c]) - n < Keep /\ Len(saved'[c]) = Len(saved[c]) - n
        BY <1>2, <1>3, <2>5
      <4> QED BY <3>2, <4>1, <4>2
    <3> QED BY <3>1, <3>2
  <2> QED BY <1>1, <2>2, <2>3, <2>4, <2>5, SameJob DEF JobInv, JobTypeOK
<1>8. PlaceInv'
  <2>1. Current' = c
    BY <1>0, <1>1, SameJob DEF Current
  <2>2. Keep > 0 => Len(saved'[c]) < Keep
    BY <1>2, <1>3
  <2> QED BY <1>0, <1>1, <2>1, <2>2, SameJob DEF JobInv, PlaceInv, InSave, Up
<1>9. TrackerInv'
  BY <1>0, <1>1, SameJob DEF JobInv, TrackerInv, Up
<1>10. SavedInv'
  <2> SUFFICES ASSUME ModelsKept, ~AsyncSave, NEW i \in DOMAIN Models
               PROVE  LET paths == saved'[Models[i]] IN
                        /\ \A j, k \in DOMAIN paths : j < k => paths[j] < paths[k]
                        /\ \A j \in DOMAIN paths :
                             \/ paths[j] <= tracker
                             \/ tracker = Torn /\ paths[j] <= g
                             \/ paths[j] = g /\ Behind(i)
    <3>1. Models' = Models /\ ModelsKept' = ModelsKept /\ AsyncSave' = AsyncSave /\ InSave'
      BY <1>1, SameJob DEF InSave
    <3>2. \A i : Behind(i)' <=> Behind(i)
      BY <1>0, <1>1 DEF Behind
    <3>3. SUFFICES ASSUME ModelsKept', ~AsyncSave', NEW i \in DOMAIN Models'
                   PROVE  (LET paths == saved[Models[i]] IN
                            /\ \A j, k \in DOMAIN paths : j < k => paths[j] < paths[k]
                            /\ \A j \in DOMAIN paths :
                                 \/ paths[j] <= tracker
                                 \/ tracker = Torn /\ paths[j] <= g
                                 \/ paths[j] = g /\ InSave /\ Behind(i))'
      BY DEF SavedInv
    <3> QED BY <1>1, <3>1, <3>2, <3>3
  <2>1. /\ \A j, k \in DOMAIN saved[Models[i]] : j < k => saved[Models[i]][j] < saved[Models[i]][k]
        /\ \A j \in DOMAIN saved[Models[i]] :
             \/ saved[Models[i]][j] <= tracker
             \/ tracker = Torn /\ saved[Models[i]][j] <= g
             \/ saved[Models[i]][j] = g /\ Behind(i)
    BY <1>0 DEF JobInv, SavedInv, Up
  <2>2. CASE Models[i] # c
    BY <1>6, <2>1, <2>2, ModelFacts
  <2>3. CASE Models[i] = c
    <3>1. \A j, k \in DOMAIN saved'[c] : j < k => n + j < n + k
      BY <1>2, <1>3
    <3> QED BY <1>3, <2>1, <2>3, <3>1
  <2> QED BY <2>2, <2>3
<1>11. ShardsInv'
  <2>1. ~AsyncSave => \A i \in DOMAIN Models : i <= model /\ Behind(i)' =>
             \A r \in WorldRank : shard'[Models[i]][g][r] = life
    <3> SUFFICES ASSUME ~AsyncSave, NEW i \in DOMAIN Models, i <= model, Behind(i)'
                 PROVE  \A r \in WorldRank : shard'[Models[i]][g][r] = life
      OBVIOUS
    <3>1. i < model /\ Behind(i)
      BY <1>0, <1>1, ModelFacts DEF Behind
    <3>2. Models[i] # c /\ Models[i] \in Model
      BY <1>0, <3>1, ModelFacts
    <3>3. \A r \in WorldRank : shard[Models[i]][g][r] = life
      BY <1>0, <3>1 DEF JobInv, ShardsInv, InSave
    <3> QED BY <1>6, <3>2, <3>3
  <2>2. ModelsKept /\ AsyncSave => shard' = shard
    <3> SUFFICES ASSUME ModelsKept, AsyncSave PROVE shard' = shard
      OBVIOUS
    <3>1. gone = {}
      BY <1>2 DEF ModelsKept, gone
    <3> QED BY <1>0, <1>1, <3>1 DEF JobInv, JobTypeOK
  <2>3. InSave' /\ AsyncSave' = AsyncSave /\ Models' = Models /\ WorldRank' = WorldRank
        /\ ModelsKept' = ModelsKept
    BY <1>1, SameJob DEF InSave
  <2>4. CASE AsyncSave
    BY <1>0, <1>1, <2>2, <2>3, <2>4 DEF JobInv, ShardsInv
  <2>5. CASE ~AsyncSave
    BY <1>1, <2>1, <2>3, <2>5 DEF JobInv, ShardsInv
  <2> QED BY <2>4, <2>5
<1>12. StatesInv'
  <2>1. AsyncSave => \A s \in Step : data'[s] = data[s]
    BY <1>0, <1>1, JobFacts
  <2>2. AsyncSave => \A i \in DOMAIN pending : data'[pending[i].step][1] \in 0..EpochLen
    BY <1>0, <2>1, PendingSteps DEF JobInv, StatesInv
  <2> QED BY <1>1, <2>2, SameJob DEF StatesInv
<1>13. FolderInv'
  <2> SUFFICES ASSUME Keep > 0, ~AsyncSave, NEW m \in Model
               PROVE \E earlier \in SUBSET Step :
                        /\ Cardinality(earlier) <= Times(life - 1, Keep)
                        /\ \A s \in Step : HasFiles(m, s)' =>
                             s \in earlier \/ \E i \in DOMAIN saved'[m] : saved'[m][i] = s
    <3>1. Keep' = Keep /\ AsyncSave' = AsyncSave /\ Model' = Model /\ Step' = Step /\ life' = life
      BY <1>1, SameJob
    <3> QED BY <3>1 DEF FolderInv, Times
  <2>1. PICK earlier \in SUBSET Step :
            /\ Cardinality(earlier) <= Times(life - 1, Keep)
            /\ \A s \in Step : HasFiles(m, s) =>
                 s \in earlier \/ \E i \in DOMAIN saved[m] : saved[m][i] = s
    BY <1>0 DEF JobInv, FolderInv
  <2>2. ASSUME NEW s \in Step, HasFiles(m, s)'
        PROVE  s \in earlier \/ \E i \in DOMAIN saved'[m] : saved'[m][i] = s
    <3>1. CASE m # c
      <4>1. HasFiles(m, s) /\ saved'[m] = saved[m]
        BY <1>6, <2>2, <3>1, SameJob DEF HasFiles
      <4> QED BY <2>1, <4>1
    <3>2. CASE m = c
      <4>1. s \notin gone /\ HasFiles(c, s)
        BY <1>6, <2>2, <3>2, SameJob DEF HasFiles
      <4>2. ASSUME NEW i \in DOMAIN saved[c], saved[c][i] = s
            PROVE  \E j \in DOMAIN saved'[c] : saved'[c][j] = s
        <5>1. i \in Nat /\ i >= 1 /\ ~(i \in 1..n)
          BY <1>0, <4>1, <4>2 DEF gone
        <5>2. i > n
          BY <1>2, <5>1
        <5> QED BY <1>3, <4>2, <5>2
      <4> QED BY <2>1, <3>2, <4>1, <4>2
    <3> QED BY <3>1, <3>2
  <2> QED BY <2>1, <2>2
<1>14. (ModelsKept => ModelsTracked)'
  <2> SUFFICES ASSUME ModelsKept, tracker \in Step, NEW m \in Model PROVE Whole(m, tracker)'
    BY <1>1, SameJob DEF ModelsTracked
  <2>1. Whole(m, tracker) /\ shard'[m][tracker] = shard[m][tracker]
    BY <1>5, <1>6 DEF JobInv, ModelsTracked
  <2> QED BY <1>1, <2>1, SameJob DEF Whole
<1>15. (ModelsKept /\ DataKept => DataTracked)'
  BY <1>1, <1>5, <1>6, SameJob DEF JobInv, DataTracked
<1>16. LoadInv' /\ EmptyInv'
  BY <1>1 DEF LoadInv, AlwaysLoads, EmptyInv
<1> QED BY <1>7, <1>8, <1>9, <1>10, <1>11, <1>12, <1>13, <1>14, <1>15, <1>16 DEF JobInv
\* The life that writes does: what it has written whole was written in one life.
LEMMA WholeByLife ==
  ASSUME JobTypeOK, NEW m, NEW s, \A r \in WorldRank : shard[m][s][r] = life
  PROVE  Whole(m, s)
  BY DEF JobTypeOK, Whole

\* Under the conditions of DataKept the driver, or the only rank, stores the dataloader's state.
LEMMA OneFeeder ==
  ASSUME DataKept, job \in Jobs
  PROVE  Feeder = {1}
<1>1. CASE Handler = "ppo"
  BY <1>1 DEF Feeder
<1>2. CASE Handler = "sft"
  BY <1>2 DEF DataKept, Feeder, WorldRank
<1> QED BY <1>1, <1>2, JobFacts

\* Nothing rotates while the manager truncates the tracker: it does that for the step just saved.
LEMMA EarlyOpenKeeps ==
  ASSUME JobInv, EarlyOpen, job' = job
  PROVE  JobInv'
<1>0. job \in Jobs /\ at = "early" /\ Backend = "megatron" /\ Handler = "ppo" /\ ~AsyncSave
  BY DEF JobInv, JobTypeOK, PlaceInv, EarlyOpen
<1>1. /\ shard' = shard /\ data' = data /\ model' = model /\ life' = life /\ g' = g
      /\ epoch' = epoch /\ pos' = pos /\ saved' = saved /\ pending' = pending
      /\ lastSave' = lastSave /\ at' = "earlyOpen" /\ tracker' = Torn
  BY DEF EarlyOpen
<1>2. g \in Step /\ g \in Int /\ Torn < g /\ Torn <= g /\ Torn \in Int
  <2>1. g \in Step
    BY <1>0 DEF JobInv, PlaceInv, InSave
  <2> QED BY <1>0, <2>1, JobFacts DEF Torn
<1>3. JobTypeOK'
  BY <1>0, <1>1, SameJob DEF JobInv, JobTypeOK
<1>4. PlaceInv'
  BY <1>0, <1>1, <1>2, SameJob DEF JobInv, PlaceInv, InSave, Up
<1>5. TrackerInv'
  <2>1. ModelsKept => lastSave <= g
    BY <1>0 DEF JobInv, TrackerInv, Up
  <2> QED BY <1>0, <1>1, <1>2, <2>1, SameJob DEF TrackerInv, Up
<1>6. SavedInv'
  <2> SUFFICES ASSUME ModelsKept, NEW i \in DOMAIN Models
               PROVE  LET paths == saved[Models[i]] IN
                        /\ \A j, k \in DOMAIN paths : j < k => paths[j] < paths[k]
                        /\ \A j \in DOMAIN paths : paths[j] <= g
    BY <1>1, SameJob DEF SavedInv
  <2>1. saved[Models[i]] \in Seq(Step) /\ tracker < g /\ tracker \in Int
    BY <1>0, ModelFacts, JobFacts DEF JobInv, JobTypeOK, TrackerInv, NoFile, Torn
  <2>2. /\ \A j, k \in DOMAIN saved[Models[i]] : j < k => saved[Models[i]][j] < saved[Models[i]][k]
        /\ \A j \in DOMAIN saved[Models[i]] :
             saved[Models[i]][j] <= tracker \/ saved[Models[i]][j] <= g \/ saved[Models[i]][j] = g
    BY <1>0 DEF JobInv, SavedInv, Up
  <2>3. \A j \in DOMAIN saved[Models[i]] : saved[Models[i]][j] \in Int
    BY <1>0, <2>1, JobFacts
  <2> QED BY <1>2, <2>1, <2>2, <2>3
<1>7. ShardsInv' /\ StatesInv'
  BY <1>0, <1>1, SameJob DEF JobInv, ShardsInv, StatesInv, InSave, Behind
<1>8. FolderInv'
  BY <1>0, <1>1, FoldersStay DEF JobInv
<1>9. ModelsTracked' /\ DataTracked'
  BY <1>0, <1>1, SameJob, JobFacts DEF ModelsTracked, DataTracked, Torn
<1>10. LoadInv' /\ EmptyInv'
  BY <1>1 DEF LoadInv, AlwaysLoads, EmptyInv
<1> QED BY <1>3, <1>4, <1>5, <1>6, <1>7, <1>8, <1>9, <1>10 DEF JobInv

\* The manager's own tracker names the step whose only model it has saved.
LEMMA EarlyWriteKeeps ==
  ASSUME JobInv, EarlyWrite, job' = job
  PROVE  JobInv'
<1>0. job \in Jobs /\ at = "earlyOpen" /\ Backend = "megatron" /\ Handler = "ppo" /\ ~AsyncSave
  BY DEF JobInv, JobTypeOK, PlaceInv, EarlyWrite
<1>1. /\ shard' = shard /\ data' = data /\ life' = life /\ g' = g
      /\ epoch' = epoch /\ pos' = pos /\ saved' = saved /\ pending' = pending
      /\ lastSave' = lastSave /\ tracker' = g
      /\ at' = AfterModel /\ model' = IF AfterModel = "rotate" THEN model + 1 ELSE model
  BY DEF EarlyWrite
<1>2. g \in Step /\ g \in Int /\ Torn # g
  <2>1. g \in Step
    BY <1>0 DEF JobInv, PlaceInv, InSave
  <2> QED BY <1>0, <2>1, JobFacts DEF Torn
<1>3. /\ model \in 1..Len(Models) /\ Len(Models) \in {1, 2}
      /\ \/ model < Len(Models) /\ at' = "rotate" /\ model' = model + 1
         \/ model = Len(Models) /\ at' = "data" /\ model' = model
  <2>1. model \in 1..Len(Models) /\ Len(Models) \in {1, 2}
    BY ModelFacts DEF JobInv, JobTypeOK
  <2>2. CASE model < Len(Models)
    BY <1>1, <2>1, <2>2 DEF AfterModel
  <2>3. CASE model = Len(Models)
    BY <1>1, <2>1, <2>3 DEF AfterModel
  <2> QED BY <2>1, <2>2, <2>3
<1>4. ModelsKept => Len(Models) = 1 /\ Model = {"actor"} /\ Models[1] = "actor"
  BY <1>0, ModelFacts DEF ModelsKept
<1>5. JobTypeOK'
  <2>1. model' \in 1..Len(Models)
    BY ONLY <1>3
  <2>2. model' \in DOMAIN Models
    BY <2>1, ModelFacts
  <2> QED BY <1>0, <1>1, <1>2, <1>3, <2>2, SameJob DEF JobInv, JobTypeOK
<1>6. PlaceInv'
  BY <1>0, <1>1, <1>2, <1>3, SameJob DEF JobInv, PlaceInv, InSave, Up
<1>7. TrackerInv'
  <2>1. ModelsKept => lastSave <= g
    BY <1>0 DEF JobInv, TrackerInv, Up
  <2>2. ModelsKept => at' = "data"
    <3> SUFFICES ASSUME ModelsKept PROVE at' = "data"
      OBVIOUS
    <3>1. Len(Models) = 1
      BY <1>4
    <3>2. model \in 1..1
      BY <1>3, <3>1
    <3>3. ~(model < Len(Models))
      BY <3>1, <3>2
    <3> QED BY ONLY <1>3, <3>3
  <2> QED BY <1>0, <1>1, <1>2, <1>3, <2>1, <2>2, SameJob DEF TrackerInv, Up
<1>8. SavedInv'
  <2> SUFFICES ASSUME ModelsKept, NEW i \in DOMAIN Models
               PROVE  LET paths == saved[Models[i]] IN
                        /\ \A j, k \in DOMAIN paths : j < k => paths[j] < paths[k]
                        /\ \A j \in DOMAIN paths : paths[j] <= g
    BY <1>1, SameJob DEF SavedInv
  <2>1. saved[Models[i]] \in Seq(Step) /\ tracker < g /\ tracker \in Int
    BY <1>0, ModelFacts, JobFacts DEF JobInv, JobTypeOK, TrackerInv, NoFile, Torn
  <2>2. /\ \A j, k \in DOMAIN saved[Models[i]] : j < k => saved[Models[i]][j] < saved[Models[i]][k]
        /\ \A j \in DOMAIN saved[Models[i]] :
             saved[Models[i]][j] <= tracker \/ saved[Models[i]][j] <= g \/ saved[Models[i]][j] = g
    BY <1>0 DEF JobInv, SavedInv, Up
  <2>3. \A j \in DOMAIN saved[Models[i]] : saved[Models[i]][j] \in Int
    BY <1>0, <2>1, JobFacts
  <2> QED BY <1>2, <2>1, <2>2, <2>3
<1>9. \A i \in DOMAIN Models : i <= model => \A r \in WorldRank : shard[Models[i]][g][r] = life
  BY <1>0 DEF JobInv, ShardsInv, InSave, Behind
<1>10. ShardsInv'
  <2>1. ASSUME NEW i \in DOMAIN Models, i <= model', Behind(i)' PROVE i <= model
    <3>1. i \in Int /\ (i < model' \/ at' # "rotate")
      BY <2>1, ModelFacts DEF Behind
    <3> QED BY ONLY <1>3, <2>1, <3>1
  <2> QED BY <1>0, <1>1, <1>9, <2>1, SameJob DEF JobInv, ShardsInv
<1>11. StatesInv'
  BY <1>0, <1>1, <1>3, SameJob DEF StatesInv
<1>12. FolderInv'
  BY <1>0, <1>1, FoldersStay DEF JobInv
<1>13. (ModelsKept => ModelsTracked)'
  <2> SUFFICES ASSUME ModelsKept PROVE \A m \in Model : Whole(m, g)'
    BY <1>1, SameJob DEF ModelsTracked
  <2>1. Whole("actor", g)
    <3>1. \A r \in WorldRank : shard["actor"][g][r] = life
      BY <1>3, <1>4, <1>9, ModelFacts
    <3> QED BY <3>1, WholeByLife DEF JobInv
  <2> QED BY <1>1, <1>4, <2>1, SameJob DEF Whole
<1>14. ~DataKept
  BY <1>0 DEF DataKept
<1>15. LoadInv' /\ EmptyInv'
  BY <1>1, <1>3 DEF LoadInv, AlwaysLoads, EmptyInv
<1> QED BY <1>5, <1>6, <1>7, <1>8, <1>10, <1>11, <1>12, <1>13, <1>14, <1>15, SameJob DEF JobInv

\* A save returns when the tracker names its step, or with it still pending.
LEMMA SaveReturnsKeeps ==
  ASSUME JobInv, SaveReturns, job' = job
  PROVE  JobInv'
<1>0. job \in Jobs /\ at = "open" /\ tracker # Torn
  BY DEF JobInv, JobTypeOK, TrackerInv, SaveReturns
<1>1. /\ shard' = shard /\ data' = data /\ life' = life /\ g' = g /\ model' = model
      /\ epoch' = epoch /\ pos' = pos /\ saved' = saved /\ pending' = pending
      /\ tracker' = tracker /\ at' = "stepEnd"
      /\ lastSave' = IF AsyncSave THEN lastSave ELSE g
  BY DEF SaveReturns, disk
<1>2. g \in Step /\ g \in Int /\ tracker \in Int
  <2>1. g \in Step
    BY <1>0 DEF JobInv, PlaceInv, InSave
  <2> QED BY <1>0, <2>1, JobFacts DEF JobInv, JobTypeOK, NoFile, Torn
<1>3. JobTypeOK'
  BY <1>0, <1>1, <1>2, SameJob, JobFacts DEF JobInv, JobTypeOK
<1>4. PlaceInv'
  BY <1>0, <1>1, <1>2, SameJob DEF JobInv, PlaceInv, InSave, Up
<1>5. TrackerInv'
  <2>1. AsyncSave => lastSave = 0
    BY DEF JobInv, TrackerInv
  <2>2. ModelsKept => /\ IF AsyncSave THEN tracker < g ELSE tracker = g
                      /\ lastSave <= g /\ lastSave <= tracker
    BY <1>0 DEF JobInv, TrackerInv, Up
  <2> QED BY <1>0, <1>1, <1>2, <2>1, <2>2, SameJob DEF TrackerInv, Up
<1>6. SavedInv'
  <2>1. ModelsKept /\ ~AsyncSave => tracker = g
    BY <1>0 DEF JobInv, TrackerInv
  <2>2. ASSUME ~AsyncSave, ModelsKept, NEW i \in DOMAIN Models
        PROVE  LET paths == saved[Models[i]] IN
            /\ \A j, k \in DOMAIN paths : j < k => paths[j] < paths[k]
            /\ \A j \in DOMAIN paths : paths[j] <= tracker
    BY <1>0, <1>2, <2>1, <2>2, Torn # tracker DEF JobInv, SavedInv, Up
  <2> QED BY <1>1, <2>2, SameJob DEF SavedInv
<1>7. ShardsInv' /\ StatesInv'
  BY <1>0, <1>1, SameJob DEF JobInv, ShardsInv, StatesInv, InSave
<1>8. FolderInv'
  BY <1>0, <1>1, FoldersStay DEF JobInv
<1>9. (ModelsKept => ModelsTracked)' /\ (ModelsKept /\ DataKept => DataTracked)'
  BY <1>1, TrackedStays, SameJob DEF JobInv
<1>10. LoadInv' /\ EmptyInv'
  BY <1>1 DEF LoadInv, AlwaysLoads, EmptyInv
<1> QED BY <1>3, <1>4, <1>5, <1>6, <1>7, <1>8, <1>9, <1>10 DEF JobInv
\* Rank 0 tracks the step when all its models and its own dataloader state are stored.
LEMMA WriteTrackerKeeps ==
  ASSUME JobInv, WriteTracker, job' = job
  PROVE  JobInv'
<1>0. job \in Jobs /\ at = "data" /\ data[g][1] = pos[1] /\ model = Len(Models)
  BY DEF JobInv, JobTypeOK, PlaceInv, WriteTracker
<1>1. /\ shard' = shard /\ data' = data /\ life' = life /\ g' = g /\ model' = model
      /\ epoch' = epoch /\ pos' = pos /\ saved' = saved /\ pending' = pending
      /\ lastSave' = lastSave
  BY DEF WriteTracker
<1>2. \/ AsyncSave /\ at' = "open" /\ tracker' = tracker
      \/ ~AsyncSave /\ Handler = "ppo" /\ at' = "data" /\ tracker' = Torn
      \/ ~AsyncSave /\ at' = "open" /\ tracker' = g
  BY <1>0 DEF WriteTracker
<1>3. /\ g \in Step /\ g \in Int /\ tracker \in Int /\ Torn <= g /\ Torn # g
      /\ \A m \in Model : \A j \in DOMAIN saved[m] : saved[m][j] \in Int
  <2>1. g \in Step
    BY <1>0 DEF JobInv, PlaceInv, InSave
  <2>2. \A m \in Model : saved[m] \in Seq(Step)
    BY DEF JobInv, JobTypeOK
  <2>3. Step = 1..TotalSteps /\ TotalSteps \in Nat
    BY <1>0, JobFacts
  <2>4. tracker \in {NoFile, Torn} \cup Step
    BY DEF JobInv, JobTypeOK
  <2>5. g \in Int /\ tracker \in Int /\ Torn <= g /\ Torn # g
    BY ONLY <2>1, <2>3, <2>4 DEF NoFile, Torn
  <2>6. \A m \in Model : \A j \in DOMAIN saved[m] : saved[m][j] \in Int
    BY ONLY <2>2, <2>3
  <2> QED BY <2>1, <2>5, <2>6
<1>4. JobTypeOK'
  BY <1>0, <1>1, <1>2, <1>3, SameJob DEF JobInv, JobTypeOK
<1>5. PlaceInv'
  BY <1>0, <1>1, <1>2, <1>3, SameJob DEF JobInv, PlaceInv, InSave, Up
<1>6. TrackerInv'
  <2>1. AsyncSave => lastSave = 0
    BY DEF JobInv, TrackerInv
  <2>2. AsyncSave => tracker # Torn
    BY <1>0 DEF JobInv, TrackerInv
  <2>3. ModelsKept => lastSave <= g /\ tracker <= g /\ (AsyncSave => tracker # g /\ lastSave <= tracker)
    BY <1>0, <2>2 DEF JobInv, TrackerInv, Up
  <2> QED BY <1>0, <1>1, <1>2, <1>3, <2>1, <2>2, <2>3, SameJob DEF TrackerInv, Up
<1>7. SavedInv'
  <2> SUFFICES ASSUME ModelsKept, ~AsyncSave, NEW i \in DOMAIN Models
               PROVE  LET paths == saved[Models[i]] IN
                        /\ \A j, k \in DOMAIN paths : j < k => paths[j] < paths[k]
                        /\ \A j \in DOMAIN paths : paths[j] <= g
    BY <1>1, <1>2, SameJob DEF SavedInv
  <2>1. /\ \A j, k \in DOMAIN saved[Models[i]] : j < k => saved[Models[i]][j] < saved[Models[i]][k]
        /\ \A j \in DOMAIN saved[Models[i]] :
             saved[Models[i]][j] <= tracker \/ saved[Models[i]][j] <= g \/ saved[Models[i]][j] = g
    BY <1>0 DEF JobInv, SavedInv, Up
  <2>2. tracker <= g
    BY <1>0 DEF JobInv, TrackerInv, Up
  <2>3. \A j \in DOMAIN saved[Models[i]] : saved[Models[i]][j] \in Int
    BY <1>3, ModelFacts
  <2> QED BY <1>3, <2>1, <2>2, <2>3
<1>8. ShardsInv'
  <2>1. \A i : Behind(i) /\ Behind(i)'
    BY <1>0, <1>2 DEF Behind
  <2> QED BY <1>0, <1>1, <1>2, <2>1, SameJob DEF JobInv, ShardsInv, InSave
<1>9. StatesInv'
  <2>1. pos[1] \in 0..EpochLen
    BY <1>0, JobFacts DEF JobInv, JobTypeOK
  <2>2. AsyncSave => \A i \in DOMAIN pending : data[pending[i].step][1] \in 0..EpochLen
    BY <1>0, <2>1 DEF JobInv, StatesInv
  <2> QED BY <1>0, <1>1, <2>2, SameJob DEF StatesInv
<1>10. FolderInv'
  BY <1>0, <1>1, FoldersStay DEF JobInv
<1>11. (ModelsKept => ModelsTracked)'
  <2> SUFFICES ASSUME ModelsKept PROVE ModelsTracked'
    BY SameJob
  <2>1. CASE tracker' = tracker
    BY <1>1, <2>1, TrackedStays DEF JobInv
  <2>2. CASE tracker' = Torn
    BY <1>0, <2>2, SameJob, JobFacts DEF ModelsTracked, Torn
  <2>3. CASE ~AsyncSave /\ tracker' = g
    <3>1. \A i \in DOMAIN Models : \A r \in WorldRank : shard[Models[i]][g][r] = life
      BY <1>0, <2>3, ModelFacts DEF JobInv, ShardsInv, InSave, Behind
    <3>2. \A m \in Model : Whole(m, g)
      BY <3>1, ModelFacts, WholeByLife DEF JobInv
    <3> QED BY <1>1, <2>3, <3>2, SameJob DEF ModelsTracked, Whole
  <2> QED BY <1>2, <2>1, <2>2, <2>3
<1>12. (ModelsKept /\ DataKept => DataTracked)'
  <2> SUFFICES ASSUME ModelsKept, DataKept PROVE DataTracked'
    BY SameJob
  <2>1. CASE tracker' = tracker
    BY <1>1, <2>1, TrackedStays DEF JobInv
  <2>2. CASE tracker' = Torn
    BY <1>0, <2>2, SameJob, JobFacts DEF DataTracked, Torn
  <2>3. CASE tracker' = g
    <3>1. data[g][1] \in 0..EpochLen /\ Feeder = {1}
      BY <1>0, JobFacts, OneFeeder DEF JobInv, JobTypeOK
    <3> QED BY <1>1, <2>3, <3>1, SameJob DEF DataTracked
  <2> QED BY <1>2, <2>1, <2>2, <2>3
<1>13. LoadInv' /\ EmptyInv'
  BY <1>2 DEF LoadInv, AlwaysLoads, EmptyInv
<1> QED BY <1>4, <1>5, <1>6, <1>7, <1>8, <1>9, <1>10, <1>11, <1>12, <1>13 DEF JobInv

\* A dataloader state is stored in the folder of the step being saved.
LEMMA WriteDataKeeps ==
  ASSUME JobInv, NEW f \in Feeder, WriteData(f), job' = job
  PROVE  JobInv'
<1>0. job \in Jobs /\ at \in {"data", "open"} /\ pos[f] \in 0..EpochLen /\ g \in Step
  BY DEF JobInv, JobTypeOK, PlaceInv, InSave, WriteData
<1>1. /\ shard' = shard /\ life' = life /\ g' = g /\ model' = model
      /\ epoch' = epoch /\ pos' = pos /\ saved' = saved /\ pending' = pending
      /\ lastSave' = lastSave /\ tracker' = tracker /\ at' = at
      /\ data' = [data EXCEPT ![g][f] = pos[f]]
  BY DEF WriteData
<1>2. /\ data' \in [Step -> [Feeder -> {NoData, Torn} \cup 0..EpochLen]]
      /\ \A s \in Step, x \in Feeder :
           data'[s][x] = IF s = g /\ x = f THEN pos[f] ELSE data[s][x]
  BY <1>0, <1>1 DEF JobInv, JobTypeOK
<1>3. JobTypeOK'
  <2>1. /\ shard' = shard /\ life' = life /\ g' = g /\ model' = model /\ at' = at
        /\ epoch' = epoch /\ pos' = pos /\ saved' = saved /\ pending' = pending
        /\ lastSave' = lastSave /\ tracker' = tracker
    BY <1>1
  <2>2. JobTypeOK /\ data' \in [Step -> [Feeder -> {NoData, Torn} \cup 0..EpochLen]]
    BY <1>2 DEF JobInv
  <2> QED BY ONLY <2>1, <2>2, job' = job, SameJob DEF JobTypeOK
<1>4. PlaceInv' /\ TrackerInv'
  BY <1>1, SameJob DEF JobInv, PlaceInv, TrackerInv, InSave, Up, Current
<1>5. SavedInv'
  BY <1>1, SameJob DEF JobInv, SavedInv, InSave, Up, Behind
<1>6. ShardsInv'
  BY <1>1, SameJob DEF JobInv, ShardsInv, InSave, Behind
<1>7. StatesInv'
  <2>1. at = "open" => data'[g][1] = pos[1]
    BY <1>0, <1>2, JobFacts DEF JobInv, StatesInv
  <2>2. \A s \in Step : data[s][1] \in 0..EpochLen => data'[s][1] \in 0..EpochLen
    BY <1>0, <1>2, JobFacts
  <2>3. \A i \in DOMAIN pending : pending[i].step \in Step
    BY PendingSteps DEF JobInv
  <2> QED BY <1>1, <2>1, <2>2, <2>3, SameJob DEF JobInv, StatesInv
<1>8. FolderInv'
  BY <1>0, <1>1, FoldersStay DEF JobInv
<1>9. (ModelsKept => ModelsTracked)'
  BY <1>1, TrackedStays, SameJob DEF JobInv
<1>10. (ModelsKept /\ DataKept => DataTracked)'
  <2> SUFFICES ASSUME ModelsKept, DataKept, tracker \in Step, NEW x \in Feeder
               PROVE  data'[tracker][x] \in 0..EpochLen
    BY <1>1, SameJob DEF DataTracked
  <2>1. data[tracker][x] \in 0..EpochLen
    BY DEF JobInv, DataTracked
  <2>2. data'[tracker][x] = IF tracker = g /\ x = f THEN pos[f] ELSE data[tracker][x]
    BY <1>2
  <2> QED BY ONLY <1>0, <2>1, <2>2
<1>11. LoadInv' /\ EmptyInv'
  BY <1>0, <1>1 DEF LoadInv, AlwaysLoads, EmptyInv
<1> QED BY <1>3, <1>4, <1>5, <1>6, <1>7, <1>8, <1>9, <1>10, <1>11 DEF JobInv

\* A rank writes in the folder of the step being saved, which is not tracked yet.
LEMMA WriteShardKeeps ==
  ASSUME JobInv, NEW r \in WorldRank, WriteShard(r), job' = job
  PROVE  JobInv'
<1> DEFINE c == Current
<1>0. /\ job \in Jobs /\ at = "shards" /\ ~AsyncSave /\ g \in Step /\ life \in 1..job.max_life
      /\ c \in Model /\ \A i \in DOMAIN Models : Models[i] = c => i = model
  BY CurrentIsModel DEF JobInv, PlaceInv, InSave, WriteShard
<1>1. /\ data' = data /\ life' = life /\ g' = g /\ model' = model
      /\ epoch' = epoch /\ pos' = pos /\ saved' = saved /\ pending' = pending
      /\ lastSave' = lastSave /\ tracker' = tracker /\ at' = at
      /\ shard' = [shard EXCEPT ![c][g][r] = life]
  BY DEF WriteShard
<1>2. Current' = c
  BY <1>1, SameJob DEF Current
<1> HIDE DEF c
<1>3. /\ shard' \in [Model -> [Step -> [WorldRank -> 0..job.max_life]]]
      /\ \A m \in Model, s \in Step : m # c \/ s # g => shard'[m][s] = shard[m][s]
  <2>1. life \in 0..job.max_life
    BY <1>0, JobFacts
  <2>2. shard \in [Model -> [Step -> [WorldRank -> 0..job.max_life]]]
    BY DEF JobInv, JobTypeOK
  <2> QED BY <1>0, <1>1, <2>1, <2>2
<1>4. JobTypeOK'
  <2>1. /\ data' = data /\ life' = life /\ g' = g /\ model' = model /\ at' = at
        /\ epoch' = epoch /\ pos' = pos /\ saved' = saved /\ pending' = pending
        /\ lastSave' = lastSave /\ tracker' = tracker
    BY <1>1
  <2>2. JobTypeOK /\ shard' \in [Model -> [Step -> [WorldRank -> 0..job.max_life]]]
    BY <1>3 DEF JobInv
  <2> QED BY ONLY <2>1, <2>2, job' = job, SameJob DEF JobTypeOK
<1>5. PlaceInv' /\ TrackerInv'
  BY <1>1, SameJob DEF JobInv, PlaceInv, TrackerInv, InSave, Up, Current
<1>6. SavedInv'
  BY <1>1, SameJob DEF JobInv, SavedInv, InSave, Up, Behind
<1>7. ShardsInv'
  <2>1. ASSUME NEW i \in DOMAIN Models, i <= model, Behind(i), NEW x \in WorldRank
        PROVE  shard'[Models[i]][g][x] = life
    <3>1. Models[i] # c /\ Models[i] \in Model
      BY <1>0, <2>1, ModelFacts DEF Behind
    <3>2. shard[Models[i]][g][x] = life
      BY <1>0, <2>1 DEF JobInv, ShardsInv, InSave
    <3> QED BY <1>0, <1>3, <3>1, <3>2
  <2>2. \A i : Behind(i)' <=> Behind(i)
    BY <1>1 DEF Behind
  <2> QED BY <1>0, <1>1, <2>1, <2>2, SameJob DEF JobInv, ShardsInv
<1>8. StatesInv'
  BY <1>1, SameJob DEF JobInv, StatesInv
<1>9. FolderInv'
  <2> SUFFICES ASSUME Keep > 0, NEW m \in Model
               PROVE \E earlier \in SUBSET Step :
                        /\ Cardinality(earlier) <= Times(life - 1, Keep)
                        /\ \A s \in Step : HasFiles(m, s)' =>
                             \/ s \in earlier
                             \/ \E i \in DOMAIN saved[m] : saved[m][i] = s
                             \/ m = c /\ s = g
    <3>1. Keep' = Keep /\ Model' = Model /\ Step' = Step /\ life' = life /\ saved' = saved
            /\ at' = "shards" /\ g' = g /\ Current' = c
      BY <1>0, <1>1, <1>2, SameJob
    <3> QED BY <3>1 DEF FolderInv, Times
  <2>1. PICK earlier \in SUBSET Step :
            /\ Cardinality(earlier) <= Times(life - 1, Keep)
            /\ \A s \in Step : HasFiles(m, s) =>
                 \/ s \in earlier
                 \/ \E i \in DOMAIN saved[m] : saved[m][i] = s
                 \/ m = c /\ s = g
    BY <1>0 DEF JobInv, FolderInv, c
  <2>2. \A s \in Step : HasFiles(m, s)' => HasFiles(m, s) \/ (m = c /\ s = g)
    BY <1>3, SameJob DEF HasFiles
  <2> QED BY <2>1, <2>2
<1>10. (ModelsKept => ModelsTracked)'
  <2> SUFFICES ASSUME ModelsKept, tracker \in Step, NEW m \in Model PROVE Whole(m, tracker)'
    BY <1>1, SameJob DEF ModelsTracked
  <2>1. tracker # g
    BY <1>0, JobFacts DEF JobInv, TrackerInv
  <2>2. Whole(m, tracker) /\ shard'[m][tracker] = shard[m][tracker]
    BY <1>3, <2>1 DEF JobInv, ModelsTracked
  <2> QED BY <1>1, <2>2, SameJob DEF Whole
<1>11. (ModelsKept /\ DataKept => DataTracked)'
  BY <1>1, SameJob DEF JobInv, DataTracked
<1>12. LoadInv' /\ EmptyInv'
  BY <1>0, <1>1 DEF LoadInv, AlwaysLoads, EmptyInv
<1> QED BY <1>4, <1>5, <1>6, <1>7, <1>8, <1>9, <1>10, <1>11, <1>12 DEF JobInv
\* Files written in the background are all of this life and belong to a step not finalized yet.
LEMMA WriteBehindKeeps ==
  ASSUME JobInv, WriteBehind, job' = job
  PROVE  JobInv'
<1>0. /\ job \in Jobs /\ life \in 1..job.max_life /\ life \in 0..job.max_life
  BY JobFacts DEF JobInv, JobTypeOK
<1>1. /\ data' = data /\ life' = life /\ g' = g /\ model' = model /\ epoch' = epoch /\ pos' = pos
      /\ saved' = saved /\ lastSave' = lastSave /\ tracker' = tracker /\ at' = at
  BY DEF WriteBehind
<1>2. PICK i \in DOMAIN pending :
        /\ pending' = [pending EXCEPT ![i].written = TRUE]
        /\ shard' = [shard EXCEPT !["actor"][pending[i].step] = [r \in WorldRank |-> life]]
  BY DEF WriteBehind
<1>3. AsyncSave /\ Model = {"actor"} /\ at \notin {"load", "failed"} /\ pending[i].step \in Step
  <2>1. pending # <<>>
    BY <1>2
  <2>2. AsyncSave /\ at \notin {"load", "failed"}
    BY <2>1 DEF JobInv, ShardsInv
  <2>3. ~job.use_critic
    BY <1>0, <2>2, JobFacts
  <2> QED BY <1>2, <2>2, <2>3, ModelFacts, PendingSteps DEF JobInv
<1>4. /\ pending' \in Seq([step : Step, written : BOOLEAN])
      /\ DOMAIN pending' = DOMAIN pending
      /\ \A k \in DOMAIN pending : pending'[k].step = pending[k].step
      /\ \A k \in DOMAIN pending : k # i => pending'[k] = pending[k]
  <2> DEFINE T == [step : Step, written : BOOLEAN]
             new == [pending[i] EXCEPT !.written = TRUE]
  <2>1. pending \in Seq(T) /\ pending[i] \in T
    <3>1. pending \in Seq(T)
      BY DEF JobInv, JobTypeOK
    <3> HIDE DEF T
    <3> QED BY <1>2, <3>1
  <2>2. new \in T /\ new.step = pending[i].step
    BY <2>1
  <2>3. pending' = [pending EXCEPT ![i] = new]
    BY <1>2
  <2> HIDE DEF T, new
  <2>4. pending' \in Seq(T)
    <3>1. i \in 1..Len(pending)
      BY <1>2, <2>1
    <3> QED BY ONLY <2>1, <2>2, <2>3, <3>1, ExceptSeq
  <2>5. /\ DOMAIN pending' = DOMAIN pending /\ pending'[i] = new
        /\ \A k \in DOMAIN pending : k # i => pending'[k] = pending[k]
    BY ONLY <1>2, <2>1, <2>3
  <2> QED BY <2>2, <2>4, <2>5 DEF T
<1>5. /\ shard' \in [Model -> [Step -> [WorldRank -> 0..job.max_life]]]
      /\ \A s \in Step : s # pending[i].step => shard'["actor"][s] = shard["actor"][s]
      /\ shard'["actor"][pending[i].step] = [r \in WorldRank |-> life]
  <2>1. shard \in [Model -> [Step -> [WorldRank -> 0..job.max_life]]]
    BY DEF JobInv, JobTypeOK
  <2>2. [r \in WorldRank |-> life] \in [WorldRank -> 0..job.max_life]
    BY <1>0
  <2>3. "actor" \in Model
    BY <1>3
  <2> QED BY <1>2, <1>3, <2>1, <2>2, <2>3
<1>6. JobTypeOK'
  BY ONLY <1>1, <1>4, <1>5, JobInv, job' = job, SameJob DEF JobInv, JobTypeOK
<1>7. PlaceInv' /\ TrackerInv'
  BY <1>1, SameJob DEF JobInv, PlaceInv, TrackerInv, InSave, Up, Current
<1>8. SavedInv'
  BY <1>1, <1>3, SameJob DEF SavedInv
<1>9. ShardsInv'
  <2>1. \A k \in DOMAIN pending' : pending'[k].step <= g
    BY <1>3, <1>4 DEF JobInv, ShardsInv
  <2>2. ASSUME ModelsKept, NEW k \in DOMAIN pending', pending'[k].written, NEW r \in WorldRank
        PROVE  shard'["actor"][pending'[k].step][r] = life
    <3>1. CASE pending[k].step = pending[i].step
      BY <1>4, <1>5, <2>2, <3>1
    <3>2. CASE pending[k].step # pending[i].step
      <4>1. pending'[k] = pending[k] /\ pending[k].step \in Step
        BY <1>4, <2>2, <3>2, PendingSteps DEF JobInv
      <4>2. shard["actor"][pending[k].step][r] = life
        BY <1>3, <1>4, <2>2, <4>1 DEF JobInv, ShardsInv
      <4> QED BY <1>5, <3>2, <4>1, <4>2
    <3> QED BY <3>1, <3>2
  <2> QED BY <1>1, <1>3, <2>1, <2>2, SameJob DEF ShardsInv
<1>10. StatesInv'
  BY <1>1, <1>4, SameJob DEF JobInv, StatesInv
<1>11. FolderInv'
  BY <1>3, SameJob DEF FolderInv
<1>12. (ModelsKept => ModelsTracked)'
  <2> SUFFICES ASSUME ModelsKept, tracker \in Step PROVE Whole("actor", tracker)'
    BY <1>1, <1>3, SameJob DEF ModelsTracked
  <2>1. CASE tracker = pending[i].step
    <3>1. \A r \in WorldRank : shard'["actor"][tracker][r] = life
      BY <1>5, <2>1
    <3> QED BY <1>0, <1>1, <3>1, SameJob DEF Whole
  <2>2. CASE tracker # pending[i].step
    <3>1. Whole("actor", tracker) /\ shard'["actor"][tracker] = shard["actor"][tracker]
      BY <1>3, <1>5, <2>2 DEF JobInv, ModelsTracked
    <3> QED BY <1>1, <3>1, SameJob DEF Whole
  <2> QED BY <2>1, <2>2
<1>13. (ModelsKept /\ DataKept => DataTracked)'
  BY <1>1, SameJob DEF JobInv, DataTracked
<1>14. LoadInv' /\ EmptyInv'
  BY <1>1, SameJob DEF JobInv, LoadInv, AlwaysLoads, EmptyInv
<1> QED BY <1>6, <1>7, <1>8, <1>9, <1>10, <1>11, <1>12, <1>13, <1>14 DEF JobInv

\* The manager remembers the step it has saved, or schedules it, behind everything tracked.
LEMMA ManagerReturnsKeeps ==
  ASSUME JobInv, ManagerReturns, job' = job
  PROVE  JobInv'
<1> DEFINE c == Current
<1>0. /\ job \in Jobs /\ at = "shards" /\ g \in Step /\ life \in 1..job.max_life
      /\ c \in Model /\ c = Models[model] /\ saved[c] \in Seq(Step)
      /\ \A i \in DOMAIN Models : Models[i] = c => i = model
      /\ g \in Int /\ tracker \in Int /\ tracker # Torn
  <2>1. at = "shards" /\ g \in Step
    BY DEF JobInv, PlaceInv, InSave, ManagerReturns
  <2>2. job \in Jobs
    BY DEF JobInv, JobTypeOK
  <2>3. g \in Int /\ tracker \in Int /\ tracker # Torn
    BY <2>1, <2>2, JobFacts DEF JobInv, JobTypeOK, TrackerInv, NoFile, Torn
  <2> QED BY <2>1, <2>2, <2>3, CurrentIsModel DEF JobInv
<1>1. /\ shard' = shard /\ data' = data /\ life' = life /\ g' = g /\ epoch' = epoch /\ pos' = pos
      /\ lastSave' = lastSave /\ tracker' = tracker
      /\ saved' = [saved EXCEPT ![c] = Append(@, g)]
      /\ IF AsyncSave THEN pending' = Append(pending, [step |-> g, written |-> FALSE])
         ELSE pending' = pending /\ \A r \in WorldRank : shard[c][g][r] = life
  BY DEF ManagerReturns, disk
<1>2. /\ model \in 1..Len(Models) /\ Len(Models) \in {1, 2} /\ model' \in 1..Len(Models)
      /\ \/ at' = "early" /\ model' = model /\ Backend = "megatron" /\ Handler = "ppo" /\ ~AsyncSave
         \/ model < Len(Models) /\ at' = "rotate" /\ model' = model + 1
         \/ model = Len(Models) /\ at' = "data" /\ model' = model
  <2>1. model \in 1..Len(Models) /\ Len(Models) \in {1, 2}
    BY ModelFacts DEF JobInv, JobTypeOK
  <2>2. CASE Backend = "megatron" /\ Handler = "ppo" /\ ~AsyncSave
    BY <2>1, <2>2 DEF ManagerReturns
  <2>3. CASE ~(Backend = "megatron" /\ Handler = "ppo" /\ ~AsyncSave)
    <3>1. at' = AfterModel /\ model' = IF AfterModel = "rotate" THEN model + 1 ELSE model
      BY <2>3 DEF ManagerReturns
    <3>2. CASE model < Len(Models)
      BY <2>1, <3>1, <3>2 DEF AfterModel
    <3>3. CASE model = Len(Models)
      BY <2>1, <3>1, <3>3 DEF AfterModel
    <3> QED BY <2>1, <3>2, <3>3
  <2> QED BY <2>2, <2>3
<1>3. AsyncSave => Model = {"actor"} /\ at' = "data"
  <2> SUFFICES ASSUME AsyncSave PROVE Model = {"actor"} /\ at' = "data"
    OBVIOUS
  <2>1. Len(Models) = 1 /\ Model = {"actor"}
    BY <1>0, JobFacts, ModelFacts
  <2>2. model \in 1..1
    BY <1>2, <2>1
  <2>3. ~(model < Len(Models))
    BY <2>1, <2>2
  <2> QED BY <1>2, <2>1, <2>3
<1>4. /\ saved' \in [Model -> Seq(Step)] /\ saved'[c] = Append(saved[c], g)
      /\ \A m \in Model : m # c => saved'[m] = saved[m]
  <2>1. saved \in [Model -> Seq(Step)]
    BY DEF JobInv, JobTypeOK
  <2>2. Append(saved[c], g) \in Seq(Step)
    BY <1>0
  <2> QED BY <1>0, <1>1, <2>1, <2>2
<1>5. /\ Len(saved'[c]) = Len(saved[c]) + 1 /\ saved'[c][Len(saved[c]) + 1] = g
      /\ DOMAIN saved'[c] = 1..Len(saved[c]) + 1 /\ DOMAIN saved[c] = 1..Len(saved[c])
      /\ \A j \in DOMAIN saved[c] : saved'[c][j] = saved[c][j] /\ j \in DOMAIN saved'[c]
      /\ Len(saved[c]) \in Nat
  <2> HIDE DEF c
  <2> QED BY <1>0, <1>4
<1> HIDE DEF c
<1>6. AsyncSave =>
        /\ Len(pending) \in Nat /\ DOMAIN pending' = 1..Len(pending) + 1
        /\ pending' \in Seq([step : Step, written : BOOLEAN])
        /\ pending'[Len(pending) + 1] = [step |-> g, written |-> FALSE]
        /\ \A k \in DOMAIN pending' : k # Len(pending) + 1 => k \in DOMAIN pending /\ pending'[k] = pending[k]
  <2> DEFINE T == [step : Step, written : BOOLEAN]
             new == [step |-> g, written |-> FALSE]
  <2>1. pending \in Seq(T) /\ new \in T
    BY <1>0 DEF JobInv, JobTypeOK
  <2>2. AsyncSave => pending' = Append(pending, new)
    BY <1>1
  <2> HIDE DEF T, new
  <2>3. AsyncSave =>
        /\ Len(pending) \in Nat /\ DOMAIN pending' = 1..Len(pending) + 1
        /\ pending' \in Seq(T) /\ pending'[Len(pending) + 1] = new
        /\ \A k \in DOMAIN pending' : k # Len(pending) + 1 => k \in DOMAIN pending /\ pending'[k] = pending[k]
    BY ONLY <2>1, <2>2
  <2> QED BY <2>3 DEF T, new
<1>7. JobTypeOK'
  <2>1. pending' \in Seq([step : Step, written : BOOLEAN])
    BY <1>1, <1>6 DEF JobInv, JobTypeOK
  <2>2. ASSUME Keep > 0, NEW m \in Model PROVE Len(saved'[m]) <= Keep
    <3>1. CASE m # c
      BY <1>4, <2>2, <3>1 DEF JobInv, JobTypeOK
    <3>2. CASE m = c
      <4>1. Len(saved[c]) < Keep
        BY <1>0, <2>2 DEF JobInv, PlaceInv, c
      <4>2. Len(saved[c]) \in Int /\ Keep \in Int /\ Len(saved'[c]) = Len(saved[c]) + 1
        BY <1>0, <1>5, JobFacts
      <4> QED BY ONLY <3>2, <4>1, <4>2
    <3> QED BY <3>1, <3>2
  <2>3. model' \in DOMAIN Models
    BY <1>2, ModelFacts
  <2>4. at' \in {"early", "rotate", "data"}
    BY <1>2
  <2>5. /\ shard' = shard /\ data' = data /\ life' = life /\ g' = g /\ epoch' = epoch /\ pos' = pos
        /\ lastSave' = lastSave /\ tracker' = tracker /\ saved' \in [Model -> Seq(Step)]
    BY <1>1, <1>4
  <2> QED BY ONLY <2>1, <2>2, <2>3, <2>4, <2>5, JobInv, job' = job, SameJob DEF JobInv, JobTypeOK
<1>8. PlaceInv'
  BY <1>0, <1>1, <1>2, SameJob DEF JobInv, PlaceInv, InSave, Up
<1>9. TrackerInv'
  <2>1. AsyncSave => lastSave = 0
    BY DEF JobInv, TrackerInv
  <2>2. ModelsKept => lastSave <= g /\ tracker <= g /\ tracker < g /\ lastSave <= tracker
    BY <1>0 DEF JobInv, TrackerInv, Up
  <2> QED BY <1>0, <1>1, <1>2, <2>1, <2>2, SameJob DEF TrackerInv, Up
<1>10. \A i \in DOMAIN Models : i <= model' /\ Behind(i)' => (i <= model /\ Behind(i)) \/ i = model
  <2> TAKE i \in DOMAIN Models
  <2>1. i \in Int /\ (Behind(i)' => i < model' \/ at' # "rotate")
    BY ModelFacts DEF Behind
  <2>2. i < model => Behind(i)
    BY DEF Behind
  <2> QED BY ONLY <1>2, <2>1, <2>2
<1>11. \A i \in DOMAIN Models : Behind(i) \/ i = model => Behind(i)'
  <2>1. \A i \in DOMAIN Models : i \in Int /\ (Behind(i) => i < model)
    BY <1>0, ModelFacts DEF Behind
  <2>2. \A i : i < model' \/ at' \in {"early", "data"} => Behind(i)'
    BY DEF Behind
  <2>3. at' = "rotate" => model' = model + 1 /\ model \in Int
    BY <1>2
  <2>4. at' \in {"early", "data", "rotate"}
    BY <1>2
  <2>5. CASE at' = "rotate"
    <3>1. model < model' /\ \A i \in DOMAIN Models : i < model => i < model'
      BY <2>1, <2>3, <2>5
    <3>2. ASSUME NEW i \in DOMAIN Models, Behind(i) \/ i = model PROVE Behind(i)'
      BY <2>1, <3>1, <3>2 DEF Behind
    <3> QED BY <3>2
  <2> QED BY <2>2, <2>4, <2>5
<1>12. SavedInv'
  <2>1. ASSUME ModelsKept, ~AsyncSave, NEW i \in DOMAIN Models
        PROVE  LET paths == saved'[Models[i]] IN
                 /\ \A j, k \in DOMAIN paths : j < k => paths[j] < paths[k]
                 /\ \A j \in DOMAIN paths : paths[j] <= tracker \/ (paths[j] = g /\ Behind(i)')
    <3>1. /\ \A j, k \in DOMAIN saved[Models[i]] : j < k => saved[Models[i]][j] < saved[Models[i]][k]
          /\ \A j \in DOMAIN saved[Models[i]] :
               \/ saved[Models[i]][j] <= tracker
               \/ saved[Models[i]][j] = g /\ Behind(i)
      BY <1>0, <2>1 DEF JobInv, SavedInv, Up
    <3>2. CASE Models[i] # c
      <4>1. saved'[Models[i]] = saved[Models[i]]
        BY <1>4, <3>2, ModelFacts
      <4> QED BY <1>11, <3>1, <4>1
    <3>3. CASE Models[i] = c
      <4>1. i = model /\ ~Behind(i) /\ Behind(i)'
        BY <1>0, <1>2, <1>11, <3>3 DEF Behind
      <4>2. tracker < g
        BY <1>0, <2>1 DEF JobInv, TrackerInv
      <4>3. \A j \in DOMAIN saved[c] : saved[c][j] <= tracker /\ saved[c][j] \in Int
        BY <1>0, <3>1, <3>3, <4>1, JobFacts
      <4>4. \A j, k \in DOMAIN saved[c] : j < k => saved[c][j] < saved[c][k]
        BY <3>1, <3>3
      <4>5. \A j \in DOMAIN saved[c] : saved[c][j] < g
        BY <1>0, <4>2, <4>3
      <4>6. \A j \in DOMAIN saved'[c] : j \in Int /\ (j \in DOMAIN saved[c] \/ j = Len(saved[c]) + 1)
        BY <1>5
      <4>7. \A j \in DOMAIN saved[c] : j < Len(saved[c]) + 1 /\ ~(Len(saved[c]) + 1 < j)
        BY <1>5
      <4>8. \A j, k \in DOMAIN saved'[c] : j < k => saved'[c][j] < saved'[c][k]
        <5> TAKE j, k \in DOMAIN saved'[c]
        <5> HAVE j < k
        <5>1. j \in DOMAIN saved[c]
          BY <1>5, <4>6, <4>7
        <5>2. CASE k \in DOMAIN saved[c]
          BY <1>5, <4>4, <5>1, <5>2
        <5>3. CASE k = Len(saved[c]) + 1
          BY <1>5, <4>5, <5>1, <5>3
        <5> QED BY <4>6, <5>2, <5>3
      <4>9. \A j \in DOMAIN saved'[c] : saved'[c][j] <= tracker \/ (saved'[c][j] = g /\ Behind(i)')
        BY <1>5, <4>1, <4>3, <4>6
      <4> QED BY <3>3, <4>8, <4>9
    <3> QED BY <3>2, <3>3
  <2>2. InSave'
    BY <1>2 DEF InSave
  <2>3. SUFFICES ASSUME ModelsKept', ~AsyncSave', NEW i \in DOMAIN Models'
                 PROVE  (LET paths == saved[Models[i]] IN
                          /\ \A j, k \in DOMAIN paths : j < k => paths[j] < paths[k]
                          /\ \A j \in DOMAIN paths :
                               \/ paths[j] <= tracker
                               \/ tracker = Torn /\ paths[j] <= g
                               \/ paths[j] = g /\ InSave /\ Behind(i))'
    BY DEF SavedInv
  <2>4. ModelsKept /\ ~AsyncSave
    <3>1. ModelsKept' = ModelsKept /\ AsyncSave' = AsyncSave
      BY SameJob
    <3> QED BY <2>3, <3>1
  <2>5. i \in DOMAIN Models /\ Models' = Models
    BY <2>3, SameJob
  <2> QED BY <1>1, <2>1, <2>2, <2>4, <2>5
<1>13. ShardsInv'
  <2>1. CASE AsyncSave
    <3>1. \A k \in DOMAIN pending' : pending'[k].step <= g
      <4>1. \A k \in DOMAIN pending : pending[k].step <= g
        BY <2>1 DEF JobInv, ShardsInv
      <4>2. g <= g
        BY <1>0
      <4> QED BY <1>6, <2>1, <4>1, <4>2
    <3>2. ModelsKept => \A k \in DOMAIN pending' : pending'[k].written =>
             \A r \in WorldRank : shard["actor"][pending'[k].step][r] = life
      <4>1. ModelsKept => \A k \in DOMAIN pending : pending[k].written =>
               \A r \in WorldRank : shard["actor"][pending[k].step][r] = life
        BY <2>1 DEF JobInv, ShardsInv
      <4> QED BY <1>6, <2>1, <4>1
    <3> QED BY <1>1, <1>3, <2>1, <3>1, <3>2, SameJob DEF ShardsInv
  <2>2. CASE ~AsyncSave
    <3>1. \A i \in DOMAIN Models : i <= model /\ Behind(i) =>
             \A r \in WorldRank : shard[Models[i]][g][r] = life
      BY <1>0, <2>2 DEF JobInv, ShardsInv, InSave
    <3>2. \A i \in DOMAIN Models : i <= model' /\ Behind(i)' =>
             \A r \in WorldRank : shard[Models[i]][g][r] = life
      BY <1>0, <1>1, <1>10, <2>2, <3>1
    <3>3. pending' = <<>>
      BY <1>1, <2>2 DEF JobInv, ShardsInv
    <3> QED BY <1>1, <2>2, <3>2, <3>3, SameJob DEF ShardsInv
  <2> QED BY <2>1, <2>2
<1>14. StatesInv'
  <2>1. ASSUME AsyncSave, NEW k \in DOMAIN pending'
        PROVE  data[pending'[k].step][1] \in 0..EpochLen \/ (at' = "data" /\ pending'[k].step = g)
    <3>1. CASE k = Len(pending) + 1
      BY <1>3, <1>6, <2>1, <3>1
    <3>2. CASE k # Len(pending) + 1
      BY <1>0, <1>6, <2>1, <3>2 DEF JobInv, StatesInv
    <3> QED BY <3>1, <3>2
  <2>2. at' # "open"
    BY <1>2
  <2> QED BY <1>1, <2>1, <2>2, SameJob DEF StatesInv
<1>15. FolderInv'
  <2> SUFFICES ASSUME Keep > 0, ~AsyncSave, NEW m \in Model
               PROVE \E earlier \in SUBSET Step :
                        /\ Cardinality(earlier) <= Times(life - 1, Keep)
                        /\ \A s \in Step : HasFiles(m, s) =>
                             s \in earlier \/ \E i \in DOMAIN saved'[m] : saved'[m][i] = s
    <3>1. Keep' = Keep /\ AsyncSave' = AsyncSave /\ Model' = Model /\ Step' = Step /\ life' = life
      BY <1>1, SameJob
    <3>2. \A m, s : HasFiles(m, s)' = HasFiles(m, s)
      BY <1>1, SameJob DEF HasFiles
    <3> QED BY <3>1, <3>2 DEF FolderInv, Times
  <2>1. PICK earlier \in SUBSET Step :
            /\ Cardinality(earlier) <= Times(life - 1, Keep)
            /\ \A s \in Step : HasFiles(m, s) =>
                 \/ s \in earlier
                 \/ \E i \in DOMAIN saved[m] : saved[m][i] = s
                 \/ m = c /\ s = g
    BY DEF JobInv, FolderInv, c
  <2>2. \A i \in DOMAIN saved[m] : i \in DOMAIN saved'[m] /\ saved'[m][i] = saved[m][i]
    BY <1>4, <1>5
  <2>3. Len(saved[c]) + 1 \in DOMAIN saved'[c] /\ saved'[c][Len(saved[c]) + 1] = g
    BY <1>5
  <2> QED BY <2>1, <2>2, <2>3
<1>16. (ModelsKept => ModelsTracked)' /\ (ModelsKept /\ DataKept => DataTracked)'
  BY <1>1, TrackedStays, SameJob DEF JobInv
<1>17. LoadInv' /\ EmptyInv'
  BY <1>2 DEF LoadInv, AlwaysLoads, EmptyInv
<1> QED BY <1>7, <1>8, <1>9, <1>12, <1>13, <1>14, <1>15, <1>16, <1>17 DEF JobInv
\* A sequence holds no more members than it is long.
LEMMA MembersBounded ==
  ASSUME NEW S, NEW p \in Seq(S)
  PROVE  LET R == {p[i] : i \in DOMAIN p} IN IsFiniteSet(R) /\ Cardinality(R) <= Len(p) /\ R \subseteq S
<1> DEFINE R == {p[i] : i \in DOMAIN p}
           D == 1..Len(p)
           f == [i \in D |-> p[i]]
<1>1. Len(p) \in Nat /\ 1 \in Int /\ Len(p) \in Int /\ DOMAIN p = D
  OBVIOUS
<1>2. IsFiniteSet(D) /\ Cardinality(D) = Len(p)
  BY <1>1, FS_Interval
<1>3. f \in Surjection(D, R)
  BY <1>1 DEF Surjection
<1> HIDE DEF D
<1>4. IsFiniteSet(R) /\ Cardinality(R) <= Cardinality(D)
  BY <1>2, <1>3, FS_Surjection
<1> QED BY <1>2, <1>4

\* What two finite sets hold together.
LEMMA UnionBounded ==
  ASSUME NEW A, NEW B, IsFiniteSet(A), IsFiniteSet(B), NEW a \in Int, NEW b \in Int,
         Cardinality(A) <= a, Cardinality(B) <= b
  PROVE  IsFiniteSet(A \cup B) /\ Cardinality(A \cup B) <= a + b
<1>1. /\ IsFiniteSet(A \cup B) /\ Cardinality(A \cup B) \in Nat
      /\ Cardinality(A) \in Nat /\ Cardinality(B) \in Nat /\ Cardinality(A \cap B) \in Nat
      /\ Cardinality(A \cup B) = Cardinality(A) + Cardinality(B) - Cardinality(A \cap B)
  <2>1. IsFiniteSet(A \cup B) /\ IsFiniteSet(A \cap B)
    BY FS_Union, FS_Intersection
  <2> QED BY <2>1, FS_Union, FS_CardinalityType
<1> QED BY <1>1

\* Folders can be counted.
LEMMA StepsFinite ==
  ASSUME job \in Jobs
  PROVE  IsFiniteSet(Step) /\ \A A \in SUBSET Step : IsFiniteSet(A) /\ Cardinality(A) \in Nat
<1>1. TotalSteps \in Int /\ 1 \in Int /\ Step = 1..TotalSteps
  BY JobFacts
<1>2. IsFiniteSet(Step)
  BY <1>1, FS_Interval
<1> QED BY <1>2, FS_Subset, FS_CardinalityType

\* What lives leave adds up: the folders of the earlier ones, those remembered and a half one.
LEMMA LifeBounded ==
  ASSUME JobInv, ~AsyncSave, Keep > 0, NEW m \in Model
  PROVE  \E all \in SUBSET Step :
            /\ Cardinality(all) <= Times(life, Keep)
            /\ \A s \in Step : HasFiles(m, s) => s \in all
            /\ at = "shards" /\ m = Current => g \in all
<1> DEFINE c == Current
<1>0. /\ job \in Jobs /\ life \in Nat /\ life >= 1 /\ Keep \in Nat
  <2>1. job \in Jobs /\ life \in 1..job.max_life
    BY CurrentIsModel DEF JobInv
  <2> QED BY <2>1, JobFacts
<1>1. PICK earlier \in SUBSET Step :
          /\ Cardinality(earlier) <= Times(life - 1, Keep)
          /\ \A s \in Step : HasFiles(m, s) =>
               \/ s \in earlier
               \/ \E i \in DOMAIN saved[m] : saved[m][i] = s
               \/ at = "shards" /\ m = c /\ s = g
  BY DEF JobInv, FolderInv
<1> DEFINE paths == saved[m]
           kept == {paths[i] : i \in DOMAIN paths}
           half == IF at = "shards" /\ m = c THEN {g} ELSE {}
<1>2. IsFiniteSet(kept) /\ Cardinality(kept) <= Len(paths) /\ kept \subseteq Step /\ Len(paths) \in Nat
      /\ Len(paths) <= Keep
  <2>1. paths \in Seq(Step) /\ Len(paths) <= Keep
    BY DEF JobInv, JobTypeOK
  <2> HIDE DEF paths
  <2> QED BY <2>1, MembersBounded
<1>3. /\ IsFiniteSet(half) /\ Cardinality(half) <= Keep - Len(paths) /\ half \subseteq Step
      /\ Keep - Len(paths) \in Int
  <2>1. CASE at = "shards" /\ m = c
    <3>1. Len(paths) < Keep /\ g \in Step
      BY <1>0, <2>1 DEF JobInv, PlaceInv, InSave
    <3>2. half = {g} /\ IsFiniteSet({g}) /\ Cardinality({g}) = 1
      BY <2>1, FS_Singleton
    <3> QED BY <1>0, <1>2, <3>1, <3>2
  <2>2. CASE ~(at = "shards" /\ m = c)
    <3>1. half = {} /\ IsFiniteSet({}) /\ Cardinality({}) = 0
      BY <2>2, FS_EmptySet
    <3> QED BY <1>0, <1>2, <3>1
  <2> QED BY <2>1, <2>2
<1>4. /\ \A s \in Step : HasFiles(m, s) => s \in earlier \cup kept \cup half
      /\ at = "shards" /\ m = c => g \in half
  BY <1>1
<1> HIDE DEF kept, half, paths
<1>5. IsFiniteSet(earlier) /\ Times(life - 1, Keep) \in Int
      /\ Times(life, Keep) = Times(life - 1, Keep) + Keep
  BY <1>0, StepsFinite DEF Times
<1>6. Cardinality(earlier \cup kept \cup half) <= Times(life, Keep)
  <2> DEFINE before == Times(life - 1, Keep)
             n == Len(paths)
  <2>1. before \in Int /\ n \in Int /\ before + n \in Int /\ before + n + (Keep - n) = Times(life, Keep)
    BY <1>0, <1>2, <1>5
  <2>2. /\ IsFiniteSet(earlier) /\ IsFiniteSet(kept) /\ IsFiniteSet(half) /\ Keep - n \in Int
        /\ Cardinality(earlier) <= before /\ Cardinality(kept) <= n /\ Cardinality(half) <= Keep - n
    BY <1>1, <1>2, <1>3, <1>5
  <2> HIDE DEF before, n
  <2>3. IsFiniteSet(earlier \cup kept) /\ Cardinality(earlier \cup kept) <= before + n
    BY ONLY <2>1, <2>2, UnionBounded
  <2>4. Cardinality(earlier \cup kept \cup half) <= before + n + (Keep - n)
    BY ONLY <2>1, <2>2, <2>3, UnionBounded
  <2> QED BY <2>1, <2>4
<1> QED BY <1>2, <1>3, <1>4, <1>6

\* A crash spoils nothing but what was being written; what the dead life kept counts from now on
\* as an earlier life's.
LEMMA CrashKeeps ==
  ASSUME JobInv, Crash
  PROVE  JobInv'
<1> DEFINE c == Current
<1>0. /\ job \in Jobs /\ c \in Model /\ c = Models[model] /\ life \in Nat /\ life >= 1
      /\ at \notin {"load", "failed", "ended"} /\ Keep \in Nat
  <2>1. job \in Jobs /\ c \in Model /\ c = Models[model] /\ life \in 1..job.max_life
    BY CurrentIsModel DEF JobInv
  <2> QED BY <2>1, JobFacts DEF Crash
<1>1. /\ job' = job /\ g' = g /\ epoch' = epoch /\ pos' = pos /\ tracker' = tracker
      /\ lastSave' = lastSave /\ life' = life + 1 /\ at' = "load" /\ model' = 1
      /\ saved' = [m \in Model |-> <<>>] /\ pending' = <<>> /\ life < job.max_life
  BY DEF Crash
<1>2. /\ shard' \in [Model -> [Step -> [WorldRank -> 0..job.max_life]]]
      /\ \A m \in Model, s \in Step : shard'[m][s] # shard[m][s] =>
             at = "shards" /\ ~AsyncSave /\ m = c /\ s = g
  <2>1. shard \in [Model -> [Step -> [WorldRank -> 0..job.max_life]]]
    BY DEF JobInv, JobTypeOK
  <2>2. CASE at = "shards" /\ ~AsyncSave
    <3>1. g \in Step /\ 0 \in 0..job.max_life
      BY <1>0, <2>2, JobFacts DEF JobInv, PlaceInv, InSave
    <3>2. PICK lost \in SUBSET WorldRank :
             shard' = [shard EXCEPT ![c][g] =
                         [r \in WorldRank |-> IF r \in lost /\ @[r] # life THEN NoFile ELSE @[r]]]
      BY <2>2 DEF Crash
    <3> DEFINE left == [r \in WorldRank |->
                          IF r \in lost /\ shard[c][g][r] # life THEN NoFile ELSE shard[c][g][r]]
    <3>3. left \in [WorldRank -> 0..job.max_life]
      BY <1>0, <2>1, <3>1 DEF NoFile
    <3>4. shard' = [shard EXCEPT ![c][g] = left]
      BY <3>2
    <3> HIDE DEF left, c
    <3> QED BY <1>0, <2>1, <2>2, <3>1, <3>3, <3>4
  <2>3. CASE ~(at = "shards" /\ ~AsyncSave)
    BY <2>1, <2>3 DEF Crash
  <2> QED BY <2>2, <2>3
<1>3. /\ data' \in [Step -> [Feeder -> {NoData, Torn} \cup 0..EpochLen]]
      /\ \A s \in Step, f \in Feeder : data'[s][f] # data[s][f] =>
             at \in {"data", "open"} /\ s = g /\ data[s][f] # pos[f]
  <2>1. data \in [Step -> [Feeder -> {NoData, Torn} \cup 0..EpochLen]]
    BY DEF JobInv, JobTypeOK
  <2>2. CASE at \in {"data", "open"}
    <3>1. g \in Step
      BY <2>2 DEF JobInv, PlaceInv, InSave
    <3>2. PICK lost \in SUBSET Feeder :
             data' = [data EXCEPT ![g] =
                        [f \in Feeder |-> IF f \in lost /\ @[f] # pos[f] THEN Torn ELSE @[f]]]
      BY <2>2 DEF Crash
    <3> DEFINE left == [f \in Feeder |->
                          IF f \in lost /\ data[g][f] # pos[f] THEN Torn ELSE data[g][f]]
    <3>3. left \in [Feeder -> {NoData, Torn} \cup 0..EpochLen]
      BY <2>1, <3>1
    <3>4. data' = [data EXCEPT ![g] = left]
      BY <3>2
    <3>5. \A f \in Feeder : left[f] # data[g][f] => data[g][f] # pos[f]
      OBVIOUS
    <3> HIDE DEF left
    <3> QED BY <2>1, <2>2, <3>1, <3>3, <3>4, <3>5
  <2>3. CASE at \notin {"data", "open"}
    BY <2>1, <2>3 DEF Crash
  <2> QED BY <2>2, <2>3
<1>4. JobTypeOK'
  <2>1. life' \in 1..job.max_life /\ model' \in DOMAIN Models
    BY <1>0, <1>1, JobFacts, ModelFacts
  <2>2. saved' \in [Model -> Seq(Step)] /\ \A m \in Model : Len(saved'[m]) = 0
    <3>1. <<>> \in Seq(Step) /\ Len(<<>>) = 0
      OBVIOUS
    <3> QED BY <1>1, <3>1
  <2>3. pending' \in Seq([step : Step, written : BOOLEAN])
    <3> DEFINE T == [step : Step, written : BOOLEAN]
    <3> HIDE DEF T
    <3>1. <<>> \in Seq(T)
      OBVIOUS
    <3>2. pending' \in Seq(T)
      BY <1>1, <3>1
    <3> QED BY <3>2 DEF T
  <2>4. Keep > 0 => \A m \in Model : Len(saved'[m]) <= Keep
    BY <1>0, <2>2
  <2>5. /\ job' = job /\ g' = g /\ epoch' = epoch /\ pos' = pos /\ tracker' = tracker
        /\ lastSave' = lastSave /\ at' = "load"
    BY <1>1
  <2>6. /\ shard' \in [Model -> [Step -> [WorldRank -> 0..job.max_life]]]
        /\ data' \in [Step -> [Feeder -> {NoData, Torn} \cup 0..EpochLen]]
    BY <1>2, <1>3
  <2> QED BY ONLY <2>1, <2>2, <2>3, <2>4, <2>5, <2>6, JobInv, SameJob DEF JobInv, JobTypeOK
<1>5. PlaceInv' /\ SavedInv' /\ EmptyInv'
  BY <1>1, SameJob DEF PlaceInv, SavedInv, EmptyInv, InSave, Up
<1>6. TrackerInv'
  <2>1. /\ tracker = Torn => Handler = "ppo" /\ ~AsyncSave
        /\ AsyncSave => lastSave = 0
        /\ ModelsKept /\ tracker # Torn => lastSave <= tracker
    BY DEF JobInv, TrackerInv
  <2> QED BY <1>1, <2>1, SameJob DEF TrackerInv, Up
<1>7. ShardsInv' /\ StatesInv'
  BY <1>1, SameJob DEF ShardsInv, StatesInv, InSave
<1>8. FolderInv'
  <2> SUFFICES ASSUME Keep > 0, ~AsyncSave, NEW m \in Model
               PROVE \E earlier \in SUBSET Step :
                        /\ Cardinality(earlier) <= Times(life, Keep)
                        /\ \A s \in Step : HasFiles(m, s)' => s \in earlier
    <3>1. Keep' = Keep /\ AsyncSave' = AsyncSave /\ Model' = Model /\ Step' = Step
      BY <1>1, SameJob
    <3>2. life' - 1 = life
      BY <1>0, <1>1
    <3> QED BY <3>1, <3>2 DEF FolderInv, Times
  <2>1. PICK all \in SUBSET Step :
            /\ Cardinality(all) <= Times(life, Keep)
            /\ \A s \in Step : HasFiles(m, s) => s \in all
            /\ at = "shards" /\ m = c => g \in all
    BY LifeBounded
  <2>2. ASSUME NEW s \in Step, HasFiles(m, s)' PROVE s \in all
    <3>1. CASE shard'[m][s] = shard[m][s]
      <4>1. HasFiles(m, s)
        BY <1>1, <2>2, <3>1, SameJob DEF HasFiles
      <4> QED BY <2>1, <4>1
    <3>2. CASE shard'[m][s] # shard[m][s]
      BY <1>2, <2>1, <3>2
    <3> QED BY <3>1, <3>2
  <2> QED BY <2>1, <2>2
<1>9. (ModelsKept => ModelsTracked)'
  <2> SUFFICES ASSUME ModelsKept, tracker \in Step, NEW m \in Model PROVE Whole(m, tracker)'
    BY <1>1, SameJob DEF ModelsTracked
  <2>1. at = "shards" => tracker # g
    BY <1>0, JobFacts DEF JobInv, TrackerInv
  <2>2. Whole(m, tracker) /\ shard'[m][tracker] = shard[m][tracker]
    BY <1>2, <2>1 DEF JobInv, ModelsTracked
  <2> QED BY <1>1, <2>2, SameJob DEF Whole
<1>10. (ModelsKept /\ DataKept => DataTracked)'
  <2> SUFFICES ASSUME ModelsKept, DataKept, tracker \in Step, NEW f \in Feeder
               PROVE  data'[tracker][f] \in 0..EpochLen
    BY <1>1, SameJob DEF DataTracked
  <2>1. f = 1 /\ data[tracker][f] \in 0..EpochLen
    BY <1>0, OneFeeder DEF JobInv, DataTracked
  <2>2. ~(at = "data" /\ tracker = g)
    BY DEF DataKept, JobInv, TrackerInv
  <2>3. at = "open" => data[g][1] = pos[1]
    BY DEF JobInv, StatesInv
  <2> QED BY <1>3, <2>1, <2>2, <2>3
<1>11. LoadInv'
  BY <1>1 DEF LoadInv, AlwaysLoads
<1> QED BY <1>4, <1>5, <1>6, <1>7, <1>8, <1>9, <1>10, <1>11 DEF JobInv
\* A step in which nothing happens keeps the invariant.
LEMMA StutterKeeps ==
  ASSUME JobInv, UNCHANGED jobVars
  PROVE  JobInv'
<1>1. /\ job' = job /\ at' = at /\ model' = model /\ life' = life /\ g' = g /\ epoch' = epoch
      /\ pos' = pos /\ saved' = saved /\ pending' = pending /\ shard' = shard /\ data' = data
      /\ tracker' = tracker /\ lastSave' = lastSave
  BY DEF jobVars
<1>2. JobTypeOK'
  BY ONLY <1>1, JobInv, SameJob DEF JobInv, JobTypeOK
<1>3. PlaceInv' /\ TrackerInv'
  BY <1>1, SameJob DEF JobInv, PlaceInv, TrackerInv, InSave, Up, Current
<1>4. SavedInv'
  BY <1>1, SameJob DEF JobInv, SavedInv, InSave, Up, Behind
<1>5. ShardsInv' /\ StatesInv'
  BY <1>1, SameJob DEF JobInv, ShardsInv, StatesInv, InSave, Behind
<1>6. FolderInv'
  BY <1>1, FoldersStay DEF JobInv
<1>7. (ModelsKept => ModelsTracked)' /\ (ModelsKept /\ DataKept => DataTracked)'
  BY <1>1, TrackedStays, SameJob DEF JobInv
<1>8. LoadInv' /\ EmptyInv'
  BY <1>1, SameJob DEF JobInv, LoadInv, AlwaysLoads, EmptyInv
<1> QED BY <1>2, <1>3, <1>4, <1>5, <1>6, <1>7, <1>8 DEF JobInv

\* Every step keeps the invariant.
LEMMA StepKeeps == JobInv /\ [JobNext]_jobVars => JobInv'
<1> SUFFICES ASSUME JobInv, [JobNext]_jobVars PROVE JobInv'
  OBVIOUS
<1>1. CASE LoadCheckpoint /\ job' = job
  BY <1>1, LoadKeeps
<1>2. CASE (TrainStep \/ NextEpoch \/ StepEnd) /\ job' = job
  BY <1>2, TrainKeeps, NextEpochKeeps, StepEndKeeps
<1>3. CASE Save /\ job' = job
  BY <1>3, RotateKeeps, WriteShardKeeps, WriteBehindKeeps, ManagerReturnsKeeps, EarlyOpenKeeps,
     EarlyWriteKeeps, WriteDataKeeps, WriteTrackerKeeps, SaveReturnsKeeps DEF Save
<1>4. CASE Crash
  BY <1>4, CrashKeeps
<1>5. CASE UNCHANGED jobVars
  BY <1>5, StutterKeeps
<1> QED BY <1>1, <1>2, <1>3, <1>4, <1>5 DEF JobNext, JobRun

\* It implies what the runs check.
LEMMA InvImplies == JobInv => TrackedCanBeLoaded
<1> SUFFICES ASSUME JobInv PROVE TrackedCanBeLoaded
  OBVIOUS
<1>1. ASSUME ~AsyncSave, Keep > 0, NEW m \in Model
      PROVE  Cardinality({s \in Step : HasFiles(m, s)}) <= Keep * life
  <2> DEFINE F == {s \in Step : HasFiles(m, s)}
  <2>1. PICK all \in SUBSET Step : Cardinality(all) <= Times(life, Keep) /\ F \subseteq all
    BY <1>1, LifeBounded
  <2>2. job \in Jobs /\ life \in Nat /\ Keep \in Nat
    BY JobFacts DEF JobInv, JobTypeOK
  <2>3. IsFiniteSet(all) /\ Cardinality(all) \in Nat
    BY <2>2, StepsFinite
  <2>4. Cardinality(F) <= Cardinality(all) /\ Cardinality(F) \in Nat
    BY <2>1, <2>3, FS_Subset, FS_CardinalityType
  <2>5. Times(life, Keep) = Keep * life
    BY <2>2 DEF Times
  <2> HIDE DEF F
  <2>6. Cardinality(F) <= Keep * life
    BY <2>1, <2>2, <2>3, <2>4, <2>5
  <2> QED BY <2>6 DEF F
<1> QED BY <1>1 DEF JobInv, LoadInv, FoldersBounded, TrackedCanBeLoaded

-----------------------------------------------------------------------------
\* The inductive invariant: between a rotation and the tracker there is always a whole
\* checkpoint the tracker names, whoever dies when.
THEOREM SavesAreOrdered == JobSpec => []JobInv
<1> QED BY InitHolds, StepKeeps, PTL DEF JobSpec

\* checkpoint_manager.py and CheckpointHandler: whatever the job's setup, length and number of
\* crashes, what the tracker names can be loaded under the conditions ModelsKept and DataKept,
\* and the folders of a model do not pile up within a life.
THEOREM TrackedCanAlwaysBeLoaded == JobSpec => []TrackedCanBeLoaded
<1> QED BY SavesAreOrdered, InvImplies, PTL

\* _load_checkpoint: a restarted job never goes on from before the last save that returned.
THEOREM RestartsLoseNothingSaved == JobSpec => ResumesAtLastSave
<1>1. JobInv /\ [JobNext]_jobVars =>
        [ModelsKept /\ at = "load" /\ at' \in {"loop", "ended"} => g' >= lastSave]_jobVars
  <2> SUFFICES ASSUME JobInv, JobNext, ModelsKept, at = "load", at' \in {"loop", "ended"}
               PROVE  g' >= lastSave
    OBVIOUS
  <2>1. job \in Jobs /\ lastSave \in Int /\ (tracker # Torn => lastSave <= tracker)
    BY JobFacts DEF JobInv, JobTypeOK, TrackerInv
  <2>2. LoadCheckpoint
    <3>1. ~WriteBehind
      <4>1. pending = <<>>
        BY DEF JobInv, ShardsInv
      <4> QED BY <4>1 DEF WriteBehind
    <3> QED BY <3>1 DEF JobNext, JobRun, Save, Crash, TrainStep, NextEpoch, StepEnd, Rotate,
               WriteShard, ManagerReturns, EarlyOpen, EarlyWrite, WriteData, WriteTracker, SaveReturns
  <2>3. CASE Scratch
    <3>1. tracker = NoFile
      <4> SUFFICES ASSUME tracker \in Step, ~FolderExists(tracker) PROVE FALSE
        BY <2>3 DEF Scratch
      <4>1. HasFiles(Models[1], tracker)
        BY <2>1, ModelFacts, WholeHasFiles DEF JobInv, ModelsTracked
      <4> QED BY <4>1, ModelFacts DEF FolderExists
    <3> QED BY <2>1, <2>3, <3>1 DEF Scratch, NoFile, Torn
  <2>4. CASE Resume
    <3>1. g' = tracker /\ tracker \in Step /\ tracker # Torn
      BY <2>1, <2>4, JobFacts DEF Resume, Torn
    <3> QED BY <2>1, <3>1, JobFacts
  <2>5. CASE LoadFails
    BY <2>5 DEF LoadFails
  <2> QED BY <2>2, <2>3, <2>4, <2>5 DEF LoadCheckpoint
<1> QED BY <1>1, SavesAreOrdered, PTL DEF JobSpec, ResumesAtLastSave

-----------------------------------------------------------------------------
(* Offloaded activations: what the streams still have to do.               *)

\* What a stream has executed, and its i-th operation, where it is pending.
Past(w, s) == w[s].issued - Len(w[s].pending)
Pending(w, s) == Past(w, s) + 1..w[s].issued
Op(w, s, i) == w[s].pending[i - Past(w, s)]

\* What an operation writes and reads; nothing but a writer of a block, or what is
\* given its memory, changes it.
Writes(op, b) ==
    \/ op.kind \in {"forward", "reload"} /\ b = op.block
    \/ op.kind = "offload" /\ b = Copy(op.block)
Changes(op, b) == op.kind # "wait" /\ (b \in op.over \/ Writes(op, b))
Reads(op, b) ==
    \/ op.kind \in {"offload", "backward"} /\ b = op.block
    \/ op.kind = "reload" /\ b = Copy(op.block)

\* The stream whose operations change a block.
Writer(b) == CASE b[1] = "gpu" -> "compute" [] b[1] = "cpu" -> "d2h" [] OTHER -> "h2d"

\* When s has executed its first place operations, t has executed its first u: by a wait.
Waits(w, s, place, t, u) ==
    \/ u <= Past(w, t)
    \/ \E i \in Pending(w, s) :
         i <= place /\ Op(w, s, i).kind = "wait" /\ Op(w, s, i).on = t /\ u <= Op(w, s, i).until

\* The same by way of the compute stream, the only one that others wait for twice.
After(w, s, place, t, u) ==
    \E v \in 0..w["compute"].issued :
        /\ IF s = "compute" THEN v = place ELSE Waits(w, s, place, "compute", v)
        /\ IF t = "compute" THEN u <= v ELSE Waits(w, "compute", v, t, u)

\* The first u operations of its stream leave p in block b.
Leaves(w, m, u, b, p) ==
    LET t == Writer(b) IN
    \/ m[b] = p /\ \A i \in Pending(w, t) : i <= u => ~Changes(Op(w, t, i), b)
    \/ \E i \in Pending(w, t) :
         /\ i <= u /\ Writes(Op(w, t, i), b) /\ Op(w, t, i).value = p
         /\ \A j \in Pending(w, t) : i < j /\ j <= u => ~Changes(Op(w, t, j), b)

\* Operation place of s finds p in b: it runs after what leaves p there, and before what
\* changes it again.
Finds(w, m, s, place, b, p) ==
    LET t == Writer(b) IN
    \E u \in 0..w[t].issued :
        /\ After(w, s, place, t, u) /\ Leaves(w, m, u, b, p)
        /\ \A i \in Pending(w, t) :
             u < i /\ Changes(Op(w, t, i), b) => After(w, t, i, s, place)

\* Every read that is pending finds the activations of its own pass.
ReadsInv(w, m) ==
    \A s \in Streams : \A place \in Pending(w, s) : \A b \in Blocks :
        Reads(Op(w, s, place), b) => Finds(w, m, s, place, b, Op(w, s, place).value)

-----------------------------------------------------------------------------
(* What the host holds.                                                    *)

\* Is a group ever moved to the host?  Where every group is to be, only the first:
\* the copy of each other is due before it is saved.
Moved(l) == l < NumOffload /\ (NumOffload < NumLayers \/ l = 0)

\* The window that is open at layer l.
Ended(n, l) == (n = 0 \/ Window[n - 1] < l) /\ Window[n] >= l

AheadInv ==
    LET l == current_group
        n == offloaded_group_count
        held == IF host = "commit forward" THEN 0..l ELSE 0..l - 1
    IN  /\ l \in 0..NumLayers - 1 /\ n \in 0..NumOffload - 1 /\ Ended(n, l)
        /\ group_offload_mapping = IF l = 0 THEN {} ELSE 0..n
        /\ tag_to_buf = {h \in held : n <= h /\ h < NumOffload}
        /\ \A h \in Groups :
             tag_to_state[h] = IF h \notin held THEN "none"
                               ELSE IF h < l /\ h <= n /\ Moved(h) THEN "tuple" ELSE "saved"

BackInv ==
    LET c == current_group
        m == offloaded_group_count
        held == IF host = "backward" THEN 0..c ELSE 0..c - 1
    IN  /\ c \in IF host = "backward" THEN 0..NumLayers - 1 ELSE 1..NumLayers
        /\ IF c = 0 THEN m = 0
           ELSE /\ m \in 1..NumOffload
                /\ m = 1 \/ Window[m - 1] < c
                /\ m = NumOffload \/ Window[m] >= c
        /\ group_offload_mapping = {i \in 0..NumOffload - 1 : Window[i] < c}
        /\ tag_to_buf = {}
        /\ \A h \in Groups :
             tag_to_state[h] = IF h \notin held THEN "none"
                               ELSE IF ~Moved(h) THEN "saved"
                               ELSE IF Window[h] < c THEN "tuple" ELSE "loaded"

HostInv ==
    /\ host \in {"forward", "commit forward", "commit backward", "backward", "done"}
    /\ host \in {"forward", "commit forward"} => AheadInv
    /\ host \in {"commit backward", "backward"} => BackInv
    /\ host = "done" => /\ current_group = 0 /\ offloaded_group_count = 0
                        /\ tag_to_buf = {} /\ group_offload_mapping = {}
                        /\ \A h \in Groups : tag_to_state[h] = "none"

-----------------------------------------------------------------------------
(* What of the streams the host relies on.                                 *)

Issued(s) == work[s].issued

\* What is enqueued on the compute stream next runs after the first u operations of t.
Awaited(t, u) == Waits(work, "compute", Issued("compute"), t, u)

Forwards == host \in {"forward", "commit forward"}

\* What was saved, copied or reloaded will be where it is looked for.
HeldInv ==
    \A l \in Groups :
        /\ tag_to_state[l] = "saved" =>
             <<"gpu", l>> \notin released /\ Leaves(work, memory, Issued("compute"), <<"gpu", l>>, pass)
        /\ tag_to_state[l] = "tuple" => Leaves(work, memory, Issued("d2h"), <<"cpu", l>>, pass)
        /\ tag_to_state[l] = "loaded" =>
             <<"back", l>> \notin released /\ Leaves(work, memory, Issued("h2d"), <<"back", l>>, pass)

\* A copy to the host that was not awaited is of a group whose memory is not released.
CopiesInv ==
    /\ ~Forwards => Awaited("d2h", Issued("d2h"))
    /\ \A i \in Pending(work, "d2h") : Op(work, "d2h", i).kind = "offload" =>
         LET b == Op(work, "d2h", i).block IN
         Awaited("d2h", i) \/ (tag_to_state[b[2]] = "tuple" /\ b \notin released)

\* Reloads are awaited before the layers that read them: after the first u.
ReloadsInv ==
    /\ Forwards \/ current_group = 0 => Awaited("h2d", Issued("h2d"))
    /\ \A l \in Groups : tag_to_state[l] = "loaded" =>
         \/ \E u \in 0..Issued("h2d") :
              /\ Awaited("h2d", u) /\ Leaves(work, memory, u, <<"back", l>>, pass)
              /\ \A i \in Pending(work, "h2d") :
                   u < i => ~Changes(Op(work, "h2d", i), <<"back", l>>)
         \/ IF l = 0 THEN current_group > 0 ELSE current_group > Window[l - 1]

\* An operation of a stream that changes memory.
Transfer(s) ==
    [kind : CASE s = "compute" -> {"forward", "backward"} [] s = "d2h" -> {"offload"}
              [] OTHER -> {"reload"},
     block : Blocks, value : 1..Passes, over : SUBSET Blocks]
Wait(s) == [kind : {"wait"}, on : Streams \ {s}, until : Nat]

\* A queue, of operations of its stream.
Queue(s) == [issued : Nat, pending : Seq(Wait(s) \cup Transfer(s))]

\* Which blocks an operation is about.
Fits(s, op) ==
    op.kind # "wait" =>
        /\ CASE op.kind = "reload" -> op.block[1] = "back"
             [] op.kind = "backward" -> op.block[1] \in {"gpu", "back"}
             [] OTHER -> op.block[1] = "gpu"
        /\ \A b \in op.over : Writer(b) = s

QueuesType(w) ==
    /\ w = [s \in Streams |-> w[s]]
    /\ \A s \in Streams : w[s] \in Queue(s) /\ Len(w[s].pending) <= w[s].issued

QueuesInv ==
    /\ QueuesType(work)
    /\ released \subseteq {"gpu", "back"} \X Groups
    /\ \A s \in Streams : \A i \in Pending(work, s) : Fits(s, Op(work, s, i))

OffloadInv ==
    /\ OffloadTypeOK /\ QueuesInv /\ ReadsInv(work, memory) /\ HostInv /\ HeldInv /\ CopiesInv
    /\ ReloadsInv
-----------------------------------------------------------------------------
(* Where the windows end.                                                  *)

\* The bounds of groups and windows.
LEMMA Sizes ==
  ASSUME OffloadAssumption
  PROVE  /\ NumLayers \in Nat \ {0} /\ NumOffload \in Nat \ {0} /\ NumOffload <= NumLayers
         /\ Passes \in Nat \ {0}
         /\ Groups = 0..NumLayers - 1 /\ DOMAIN Window = 0..NumOffload - 1
BY DEF OffloadAssumption, Groups, Window

\* A window ends no earlier than the group it is for, and later where not every group is
\* offloaded; windows end one after the other, and the last with the last layer.
LEMMA WindowFacts ==
  ASSUME OffloadAssumption
  PROVE  /\ \A i \in 0..NumOffload - 1 : Window[i] \in Nat /\ Window[i] >= i
         /\ \A i, j \in 0..NumOffload - 1 : i < j => Window[i] < Window[j]
         /\ Window[NumOffload - 1] = NumLayers - 1
         /\ NumOffload = NumLayers => \A i \in 0..NumOffload - 1 : Window[i] = i
         /\ NumOffload < NumLayers => \A i \in 0..NumOffload - 1 : Window[i] >= i + 1
         /\ NumOffload = NumLayers - 1 => \A i \in 0..NumOffload - 1 : Window[i] = i + 1
<1> DEFINE q == NumLayers \div NumOffload
           e == NumLayers % NumOffload
<1>1. NumLayers \in Nat \ {0} /\ NumOffload \in Nat \ {0} /\ NumOffload <= NumLayers
  BY Sizes
<1>2. q \in Nat /\ e \in Nat /\ e < NumOffload /\ NumLayers = q * NumOffload + e
  BY ONLY <1>1
<1>3. \A i \in 0..NumOffload - 1 :
        Window[i] = q * (i + 1) - 1 + IF i < e THEN i + 1 ELSE e
  BY <1>1 DEF Window
<1> HIDE DEF q, e
<1>4. PICK p \in Nat : q = p + 1
  <2>1. q # 0
    <3> SUFFICES ASSUME q = 0 PROVE FALSE
      OBVIOUS
    <3>1. q * NumOffload = 0
      BY ONLY <1>1, q = 0
    <3> QED  BY ONLY <1>1, <1>2, <3>1
  <2>2. q - 1 \in Nat /\ q = (q - 1) + 1
    BY ONLY <1>2, <2>1
  <2> QED  BY ONLY <2>2
<1>5. ASSUME NEW j \in Nat
      PROVE  p * (j + 1) \in Nat /\ q * (j + 1) = p * (j + 1) + j + 1
  BY ONLY <1>4, j \in Nat
<1>6. ASSUME NEW i \in 0..NumOffload - 1
      PROVE  /\ Window[i] = p * (i + 1) + i + IF i < e THEN i + 1 ELSE e
             /\ i \in Nat /\ p * (i + 1) \in Nat
  <2>1. i \in Nat
    BY ONLY <1>1, i \in 0..NumOffload - 1
  <2>2. p * (i + 1) \in Nat /\ q * (i + 1) = p * (i + 1) + i + 1
    BY <1>5, <2>1
  <2>3. Window[i] = q * (i + 1) - 1 + IF i < e THEN i + 1 ELSE e
    BY <1>3
  <2> DEFINE x == p * (i + 1)
             y == q * (i + 1)
             z == IF i < e THEN i + 1 ELSE e
  <2>4. z \in Nat
    BY ONLY <1>2, <2>1
  <2>5. x \in Nat /\ y = x + i + 1 /\ Window[i] = y - 1 + z
    BY <2>2, <2>3
  <2> HIDE DEF x, y, z
  <2>6. Window[i] = x + i + z
    BY ONLY <2>1, <2>4, <2>5
  <2> QED  BY <2>1, <2>2, <2>6 DEF x, z
<1>7. \A i \in 0..NumOffload - 1 : Window[i] \in Nat /\ Window[i] >= i
  <2> TAKE i \in 0..NumOffload - 1
  <2> DEFINE x == p * (i + 1)
  <2>1. Window[i] = x + i + (IF i < e THEN i + 1 ELSE e) /\ i \in Nat /\ x \in Nat
    BY <1>6
  <2> HIDE DEF x
  <2> QED  BY ONLY <1>2, <2>1
<1>8. \A i, j \in 0..NumOffload - 1 : i < j => Window[i] < Window[j]
  <2> TAKE i, j \in 0..NumOffload - 1
  <2> HAVE i < j
  <2> DEFINE x == p * (i + 1)
             y == p * (j + 1)
             z == p * (j - i)
  <2>1. i \in Nat /\ j \in Nat /\ j - i \in Nat
    BY ONLY <1>1, i < j, i \in 0..NumOffload - 1, j \in 0..NumOffload - 1
  <2>2. Window[i] = x + i + (IF i < e THEN i + 1 ELSE e) /\ x \in Nat
    BY <1>6
  <2>3. Window[j] = y + j + (IF j < e THEN j + 1 ELSE e) /\ y \in Nat
    BY <1>6
  <2>4. y = x + z /\ z \in Nat
    BY ONLY <1>4, <2>1
  <2> HIDE DEF x, y, z
  <2> QED  BY ONLY <1>2, <2>1, <2>2, <2>3, <2>4, i < j
<1>9. Window[NumOffload - 1] = NumLayers - 1
  <2> DEFINE k == NumOffload - 1
             x == p * (k + 1)
  <2>1. k \in 0..NumOffload - 1 /\ k \in Nat /\ ~(k < e) /\ NumOffload = k + 1
    BY ONLY <1>1, <1>2
  <2>2. Window[k] = x + k + (IF k < e THEN k + 1 ELSE e) /\ x \in Nat
    BY <1>6, <2>1
  <2>3. q * (k + 1) = x + k + 1
    BY <1>5, <2>1
  <2>4. NumLayers = x + k + 1 + e
    BY ONLY <1>2, <2>1, <2>3
  <2> HIDE DEF x, k
  <2>5. Window[k] = NumLayers - 1
    BY ONLY <1>2, <2>1, <2>2, <2>4
  <2> QED  BY <2>5 DEF k
<1>10. p * NumOffload \in Nat /\ NumLayers = p * NumOffload + NumOffload + e
  <2>1. p * NumOffload \in Nat /\ (p + 1) * NumOffload = p * NumOffload + NumOffload
    BY ONLY <1>1, <1>4
  <2> QED  BY ONLY <1>2, <1>4, <2>1
<1>11. p = 0 \/ p * NumOffload >= NumOffload
  <2> SUFFICES ASSUME p # 0 PROVE p * NumOffload >= NumOffload
    OBVIOUS
  <2>1. PICK r \in Nat : p = r + 1
    <3>1. p - 1 \in Nat /\ p = (p - 1) + 1
      BY ONLY <1>4, p # 0
    <3> QED  BY ONLY <3>1
  <2>2. r * NumOffload \in Nat /\ p * NumOffload = r * NumOffload + NumOffload
    BY ONLY <1>1, <2>1
  <2> DEFINE x == r * NumOffload
             y == p * NumOffload
  <2>3. x \in Nat /\ y = x + NumOffload
    BY <2>2
  <2> HIDE DEF x, y
  <2>4. y >= NumOffload
    BY ONLY <1>1, <2>3
  <2> QED  BY <2>4 DEF y
<1>12. ASSUME NEW i \in 0..NumOffload - 1
       PROVE  /\ NumOffload = NumLayers => Window[i] = i
              /\ NumOffload < NumLayers => Window[i] >= i + 1
              /\ NumOffload = NumLayers - 1 => Window[i] = i + 1
  <2> DEFINE x == p * (i + 1)
             y == p * NumOffload
  <2>1. Window[i] = x + i + (IF i < e THEN i + 1 ELSE e) /\ i \in Nat /\ x \in Nat /\ i < NumOffload
    <3>1. i < NumOffload
      BY ONLY <1>1, i \in 0..NumOffload - 1
    <3> QED  BY <1>6, <3>1
  <2>2. /\ y \in Nat /\ NumLayers = y + NumOffload + e /\ (p = 0 \/ y >= NumOffload)
    BY <1>10, <1>11
  <2>3. p = 0 => x = 0 /\ y = 0
    BY ONLY <1>1, <2>1, <1>4
  <2>4. p # 0 => x >= i + 1
    <3> SUFFICES ASSUME p # 0 PROVE x >= i + 1
      OBVIOUS
    <3>1. PICK r \in Nat : p = r + 1
      <4>1. p - 1 \in Nat /\ p = (p - 1) + 1
        BY ONLY <1>4, p # 0
      <4> QED  BY ONLY <4>1
    <3>2. r * (i + 1) \in Nat /\ p * (i + 1) = r * (i + 1) + (i + 1)
      BY ONLY <2>1, <3>1
    <3> DEFINE z == r * (i + 1)
    <3>3. z \in Nat /\ x = z + (i + 1)
      BY <3>2
    <3> HIDE DEF z, x
    <3> QED  BY ONLY <2>1, <3>3
  <2>5. y = NumOffload => NumOffload >= 1
    BY ONLY <1>1
  <2> HIDE DEF x, y
  <2>6. NumOffload = NumLayers => Window[i] = i
    BY ONLY <1>1, <1>2, <1>4, <2>1, <2>2, <2>3
  <2>7. NumOffload < NumLayers => Window[i] >= i + 1
    BY ONLY <1>1, <1>2, <1>4, <2>1, <2>2, <2>3, <2>4
  <2>8. ASSUME NumOffload = NumLayers - 1 PROVE Window[i] = i + 1
    <3>1. CASE p = 0
      <4>1. e = 1 /\ x = 0
        BY ONLY <1>1, <1>2, <2>2, <2>3, <2>8, <3>1
      <4> QED  BY ONLY <2>1, <4>1
    <3>2. CASE p # 0
      <4>1. y = 1 /\ e = 0 /\ NumOffload = 1
        BY ONLY <1>1, <1>2, <2>2, <2>8, <3>2
      <4>2. p * 1 = 1
        BY <4>1 DEF y
      <4>3. i = 0 /\ p = 1
        BY ONLY <2>1, <4>1, <4>2, <1>4
      <4>4. x = 1
        BY ONLY <4>3 DEF x
      <4> QED  BY ONLY <2>1, <4>1, <4>3, <4>4
    <3> QED  BY <3>1, <3>2
  <2> QED  BY <2>6, <2>7, <2>8
<1> QED  BY <1>7, <1>8, <1>9, <1>12

-----------------------------------------------------------------------------
(* Queues.                                                                 *)

\* The work of w, and more behind it.
Grown(w, x) ==
    /\ QueuesType(w) /\ QueuesType(x)
    /\ \A t \in Streams :
         /\ Past(x, t) = Past(w, t) /\ w[t].issued <= x[t].issued
         /\ \A i \in Pending(w, t) : Op(x, t, i) = Op(w, t, i)

\* Positions are numbers.
LEMMA Positions ==
  ASSUME NEW w, QueuesType(w), NEW s \in Streams
  PROVE  /\ Past(w, s) \in Nat /\ w[s].issued \in Nat /\ Past(w, s) <= w[s].issued
         /\ Pending(w, s) \subseteq Nat
         /\ \A i \in Pending(w, s) : i > Past(w, s) /\ i <= w[s].issued
                                     /\ i \in 0..w[s].issued
                                     /\ Op(w, s, i) \in Wait(s) \cup Transfer(s)
<1>1. w[s].issued \in Nat /\ w[s].pending \in Seq(Wait(s) \cup Transfer(s))
      /\ Len(w[s].pending) <= w[s].issued
  BY DEF QueuesType, Queue
<1>2. Len(w[s].pending) \in Nat
  BY <1>1
<1>3. Past(w, s) \in Nat /\ Past(w, s) <= w[s].issued
  BY ONLY <1>1, <1>2 DEF Past
<1>4. Pending(w, s) \subseteq Nat /\ \A i \in Pending(w, s) : i > Past(w, s) /\ i <= w[s].issued
        /\ i \in 0..w[s].issued
  BY ONLY <1>1, <1>3 DEF Pending
<1>5. ASSUME NEW i \in Pending(w, s) PROVE Op(w, s, i) \in Wait(s) \cup Transfer(s)
  <2>1. i - Past(w, s) \in 1..Len(w[s].pending)
    <3>1. i \in Nat /\ i > Past(w, s) /\ i <= w[s].issued
      BY <1>4
    <3> QED  BY ONLY <1>1, <1>2, <1>3, <3>1 DEF Past
  <2> HIDE DEF Past
  <2> QED  BY <1>1, <2>1 DEF Op
<1> QED  BY <1>1, <1>3, <1>4, <1>5

\* One operation more.
LEMMA PutGrows ==
  ASSUME NEW w, QueuesType(w), NEW s \in Streams, NEW op \in Wait(s) \cup Transfer(s)
  PROVE  LET x == Put(w, s, op) IN
         /\ Grown(w, x)
         /\ x[s].issued = w[s].issued + 1 /\ Op(x, s, w[s].issued + 1) = op
         /\ \A t \in Streams : t # s => x[t] = w[t]
<1> DEFINE x == Put(w, s, op)
<1>1. w = [t \in Streams |-> w[t]]
  BY DEF QueuesType
<1>2. w[s] \in Queue(s)
  BY DEF QueuesType
<1>3. /\ x = [t \in Streams |-> x[t]] /\ \A t \in Streams : t # s => x[t] = w[t]
      /\ x[s] = [issued |-> w[s].issued + 1, pending |-> Append(w[s].pending, op)]
  BY <1>1, <1>2 DEF Put, Queue
<1> HIDE DEF x
<1>4. /\ w[s].issued \in Nat /\ w[s].pending \in Seq(Wait(s) \cup Transfer(s))
      /\ Len(w[s].pending) <= w[s].issued /\ Len(w[s].pending) \in Nat
  BY <1>2 DEF QueuesType, Queue
<1>5. /\ x[s].issued = w[s].issued + 1 /\ x[s].pending = Append(w[s].pending, op)
      /\ Len(x[s].pending) = Len(w[s].pending) + 1
      /\ x[s].pending \in Seq(Wait(s) \cup Transfer(s))
  <2>1. x[s].issued = w[s].issued + 1 /\ x[s].pending = Append(w[s].pending, op)
    BY <1>3
  <2> DEFINE S == Wait(s) \cup Transfer(s)
             q == w[s].pending
  <2>2. q \in Seq(S) /\ op \in S
    BY <1>4
  <2> HIDE DEF S, q
  <2>3. Len(Append(q, op)) = Len(q) + 1 /\ Append(q, op) \in Seq(S)
    BY ONLY <2>2
  <2> QED  BY <2>1, <2>3 DEF S, q
<1>6. QueuesType(x)
  <2>1. x[s] \in Queue(s)
    BY <1>3, <1>4, <1>5 DEF Queue
  <2>2. Len(x[s].pending) <= x[s].issued
    BY ONLY <1>4, <1>5
  <2> QED  BY <1>3, <2>1, <2>2 DEF QueuesType
<1>7. Past(x, s) = Past(w, s)
  BY ONLY <1>4, <1>5 DEF Past
<1>8. ASSUME NEW i \in Pending(w, s) PROVE Op(x, s, i) = Op(w, s, i)
  <2> DEFINE k == i - Past(w, s)
  <2>1. k \in 1..Len(w[s].pending)
    BY ONLY <1>4, i \in Pending(w, s) DEF Pending, Past
  <2>2. Append(w[s].pending, op)[k] = w[s].pending[k]
    BY ONLY <1>4, <2>1
  <2> QED  BY <1>5, <1>7, <2>2 DEF Op
<1>9. Op(x, s, w[s].issued + 1) = op
  <2>2. Append(w[s].pending, op)[Len(w[s].pending) + 1] = op
    BY ONLY <1>4
  <2> DEFINE k == w[s].issued + 1
  <2>3. Op(x, s, k) = x[s].pending[k - Past(x, s)]
    BY DEF Op
  <2>4. k - Past(x, s) = Len(w[s].pending) + 1
    BY ONLY <1>4, <1>5 DEF Past
  <2> HIDE DEF k
  <2>5. Op(x, s, k) = op
    BY ONLY <1>5, <2>2, <2>3, <2>4
  <2> QED  BY <2>5 DEF k
<1>10. ASSUME NEW t \in Streams, t # s
       PROVE  /\ Past(x, t) = Past(w, t) /\ x[t].issued = w[t].issued
              /\ \A i \in Pending(w, t) : Op(x, t, i) = Op(w, t, i)
  BY <1>3, <1>10 DEF Past, Op
<1>11. ASSUME NEW t \in Streams PROVE w[t].issued <= x[t].issued
  <2>1. w[t].issued \in Nat
    BY Positions
  <2>2. w[t].issued = x[t].issued \/ x[t].issued = w[t].issued + 1
    BY <1>5, <1>10
  <2> QED  BY ONLY <2>1, <2>2
<1>12. Grown(w, x)
  BY <1>6, <1>7, <1>8, <1>10, <1>11 DEF Grown
<1> QED  BY <1>3, <1>5, <1>9, <1>12 DEF x

\* Growing twice.
LEMMA GrownTwice ==
  ASSUME NEW w, NEW x, NEW y, Grown(w, x), Grown(x, y)
  PROVE  Grown(w, y)
<1> SUFFICES ASSUME NEW t \in Streams
             PROVE  /\ Past(y, t) = Past(w, t) /\ w[t].issued <= y[t].issued
                    /\ \A i \in Pending(w, t) : Op(y, t, i) = Op(w, t, i)
  BY DEF Grown
<1>1. /\ Past(x, t) = Past(w, t) /\ w[t].issued <= x[t].issued
      /\ Past(y, t) = Past(x, t) /\ x[t].issued <= y[t].issued
      /\ \A i \in Pending(w, t) : Op(x, t, i) = Op(w, t, i)
      /\ \A i \in Pending(x, t) : Op(y, t, i) = Op(x, t, i)
      /\ QueuesType(w) /\ QueuesType(x) /\ QueuesType(y)
  BY DEF Grown
<1>2. w[t].issued \in Nat /\ x[t].issued \in Nat /\ y[t].issued \in Nat /\ Past(w, t) \in Nat
  BY <1>1, Positions
<1>3. w[t].issued <= y[t].issued
  BY ONLY <1>1, <1>2
<1>4. Pending(w, t) \subseteq Pending(x, t)
  BY ONLY <1>1, <1>2 DEF Pending
<1> QED  BY <1>1, <1>3, <1>4

\* Enqueueing moves nothing that is pending.
LEMMA GrownFacts ==
  ASSUME NEW w, NEW x, Grown(w, x), NEW t \in Streams
  PROVE  /\ QueuesType(w) /\ QueuesType(x) /\ Past(x, t) = Past(w, t) /\ w[t].issued <= x[t].issued
         /\ Pending(w, t) \subseteq Pending(x, t)
         /\ \A i \in Pending(x, t) : i <= w[t].issued => i \in Pending(w, t)
         /\ \A i \in Pending(w, t) : Op(x, t, i) = Op(w, t, i)
<1>1. QueuesType(w) /\ QueuesType(x) /\ Past(x, t) = Past(w, t) /\ w[t].issued <= x[t].issued
  BY DEF Grown
<1>2. w[t].issued \in Nat /\ x[t].issued \in Nat /\ Past(w, t) \in Nat
  BY <1>1, Positions
<1>3. /\ Pending(w, t) \subseteq Pending(x, t)
      /\ \A i \in Pending(x, t) : i <= w[t].issued => i \in Pending(w, t)
  BY ONLY <1>1, <1>2 DEF Pending
<1> QED  BY <1>1, <1>3 DEF Grown

\* What runs after what stays so.
LEMMA WaitsGrow ==
  ASSUME NEW w, NEW x, Grown(w, x), NEW s \in Streams, NEW t \in Streams,
         NEW place \in Nat, NEW u \in Nat, Waits(w, s, place, t, u)
  PROVE  Waits(x, s, place, t, u)
<1>1. CASE u <= Past(w, t)
  BY <1>1 DEF Waits, Grown
<1>2. CASE \E i \in Pending(w, s) :
             i <= place /\ Op(w, s, i).kind = "wait" /\ Op(w, s, i).on = t /\ u <= Op(w, s, i).until
  BY <1>2, GrownFacts DEF Waits
<1> QED  BY <1>1, <1>2 DEF Waits

\* A wait holds for what is enqueued behind it, and for what comes before what it waits for.
LEMMA WaitsLater ==
  ASSUME NEW w, QueuesType(w), NEW s \in Streams, NEW t \in Streams,
         NEW place \in Nat, NEW later \in Nat, place <= later, NEW u \in Nat, NEW before \in Nat,
         before <= u, Waits(w, s, place, t, u)
  PROVE  Waits(w, s, later, t, before)
<1>1. CASE u <= Past(w, t)
  <2>1. Past(w, t) \in Nat
    BY Positions
  <2>2. before <= Past(w, t)
    BY ONLY <1>1, <2>1, before <= u, before \in Nat, u \in Nat
  <2> QED  BY <2>2 DEF Waits
<1>2. CASE \E i \in Pending(w, s) :
             i <= place /\ Op(w, s, i).kind = "wait" /\ Op(w, s, i).on = t /\ u <= Op(w, s, i).until
  <2>1. PICK i \in Pending(w, s) :
             i <= place /\ Op(w, s, i).kind = "wait" /\ Op(w, s, i).on = t /\ u <= Op(w, s, i).until
    BY <1>2
  <2>2. i \in Nat /\ Op(w, s, i).until \in Nat
    BY <2>1, Positions DEF Wait, Transfer
  <2>3. i <= later /\ before <= Op(w, s, i).until
    BY ONLY <2>1, <2>2, place \in Nat, later \in Nat, place <= later, u \in Nat, before \in Nat,
            before <= u
  <2> QED  BY <2>1, <2>3 DEF Waits
<1> QED  BY <1>1, <1>2 DEF Waits

\* An order between operations holds when more is enqueued.
LEMMA AfterGrows ==
  ASSUME NEW w, NEW x, Grown(w, x), NEW s \in Streams, NEW t \in Streams,
         NEW place \in Nat, NEW u \in Nat, After(w, s, place, t, u)
  PROVE  After(x, s, place, t, u)
<1>1. PICK v \in 0..w["compute"].issued :
        /\ IF s = "compute" THEN v = place ELSE Waits(w, s, place, "compute", v)
        /\ IF t = "compute" THEN u <= v ELSE Waits(w, "compute", v, t, u)
  BY DEF After
<1>2. "compute" \in Streams /\ v \in Nat /\ v \in 0..x["compute"].issued
  <2>1. "compute" \in Streams
    BY DEF Streams
  <2>2. w["compute"].issued \in Nat /\ x["compute"].issued \in Nat
        /\ w["compute"].issued <= x["compute"].issued
    BY <2>1, GrownFacts, Positions
  <2> QED  BY ONLY <2>1, <2>2, <1>1
<1>3. /\ s # "compute" => Waits(x, s, place, "compute", v)
      /\ t # "compute" => Waits(x, "compute", v, t, u)
  BY <1>1, <1>2, WaitsGrow
<1> QED  BY <1>1, <1>2, <1>3 DEF After

\* What is left in a block is left there, by what was issued and by more that does not
\* change the block.
LEMMA LeavesGrow ==
  ASSUME NEW w, NEW x, Grown(w, x), NEW m, NEW b, NEW p, Writer(b) \in Streams,
         NEW u \in 0..w[Writer(b)].issued, NEW v \in Nat, u <= v,
         Leaves(w, m, u, b, p),
         \A i \in Pending(x, Writer(b)) : u < i /\ i <= v => ~Changes(Op(x, Writer(b), i), b)
  PROVE  Leaves(x, m, v, b, p)
<1> DEFINE t == Writer(b)
<1>1. /\ QueuesType(w) /\ QueuesType(x) /\ Pending(w, t) \subseteq Pending(x, t)
      /\ \A i \in Pending(x, t) : i <= w[t].issued => i \in Pending(w, t)
      /\ \A i \in Pending(w, t) : Op(x, t, i) = Op(w, t, i)
      /\ Pending(x, t) \subseteq Nat /\ w[t].issued \in Nat
  BY GrownFacts, Positions
<1> HIDE DEF t
<1>2. u \in Nat /\ u <= w[t].issued
  BY ONLY <1>1, u \in 0..w[Writer(b)].issued DEF t
<1>3. ASSUME NEW i \in Pending(x, t)
      PROVE  /\ i <= v => i <= u \/ u < i
             /\ i <= u => i \in Pending(w, t) /\ Op(x, t, i) = Op(w, t, i) /\ i <= v
  <2>1. i \in Nat
    BY <1>1
  <2>2. i <= u => i <= w[t].issued
    BY ONLY <1>1, <1>2, <2>1
  <2>3. i <= u => i <= v
    BY ONLY <1>2, <2>1, v \in Nat, u <= v
  <2> QED  BY <1>1, <1>2, <2>1, <2>2, <2>3
<1>4. \A i \in Pending(x, t) : u < i /\ i <= v => ~Changes(Op(x, t, i), b)
  BY DEF t
<1>5. CASE m[b] = p /\ \A i \in Pending(w, t) : i <= u => ~Changes(Op(w, t, i), b)
  <2>1. \A i \in Pending(x, t) : i <= v => ~Changes(Op(x, t, i), b)
    BY <1>3, <1>4, <1>5
  <2> QED  BY <1>5, <2>1 DEF Leaves, t
<1>6. CASE \E i \in Pending(w, t) :
             /\ i <= u /\ Writes(Op(w, t, i), b) /\ Op(w, t, i).value = p
             /\ \A j \in Pending(w, t) : i < j /\ j <= u => ~Changes(Op(w, t, j), b)
  <2>1. PICK i \in Pending(w, t) :
             /\ i <= u /\ Writes(Op(w, t, i), b) /\ Op(w, t, i).value = p
             /\ \A j \in Pending(w, t) : i < j /\ j <= u => ~Changes(Op(w, t, j), b)
    BY <1>6
  <2>2. i \in Pending(x, t) /\ i <= v /\ Writes(Op(x, t, i), b) /\ Op(x, t, i).value = p
    BY <1>1, <1>3, <2>1
  <2>3. \A j \in Pending(x, t) : i < j /\ j <= v => ~Changes(Op(x, t, j), b)
    BY <1>3, <1>4, <2>1
  <2> QED  BY <2>2, <2>3 DEF Leaves, t
<1> QED  BY <1>5, <1>6 DEF Leaves, t

\* The writer of a block is a stream.
LEMMA Writers ==
  ASSUME NEW b
  PROVE  Writer(b) \in Streams
BY DEF Writer, Streams

\* What is pending still finds what it reads when more is enqueued behind it, which finds
\* what it reads and changes only what is read before.
LEMMA ReadsGrow ==
  ASSUME NEW w, NEW x, Grown(w, x), NEW m, ReadsInv(w, m),
         \A s \in Streams : \A i \in Pending(x, s) : i > w[s].issued =>
            \A b \in Blocks :
              /\ Reads(Op(x, s, i), b) => Finds(x, m, s, i, b, Op(x, s, i).value)
              /\ Changes(Op(x, s, i), b) =>
                   \A r \in Streams : \A place \in Pending(w, r) :
                      Reads(Op(w, r, place), b) => After(x, s, i, r, place)
  PROVE  ReadsInv(x, m)
<1> SUFFICES ASSUME NEW s \in Streams, NEW place \in Pending(x, s), NEW b \in Blocks,
                    Reads(Op(x, s, place), b)
             PROVE  Finds(x, m, s, place, b, Op(x, s, place).value)
  BY DEF ReadsInv
<1>1. QueuesType(w) /\ QueuesType(x)
  BY DEF Grown
<1>2. place \in Nat /\ w[s].issued \in Nat
  BY <1>1, Positions
<1>3. CASE place > w[s].issued
  BY <1>3
<1>4. CASE place <= w[s].issued
  <2>1. place \in Pending(w, s) /\ Op(x, s, place) = Op(w, s, place)
    BY <1>4, GrownFacts
  <2> DEFINE t == Writer(b)
             p == Op(w, s, place).value
  <2>2. Finds(w, m, s, place, b, p)
    BY <2>1 DEF ReadsInv
  <2>3. PICK u \in 0..w[t].issued :
          /\ After(w, s, place, t, u) /\ Leaves(w, m, u, b, p)
          /\ \A i \in Pending(w, t) :
               u < i /\ Changes(Op(w, t, i), b) => After(w, t, i, s, place)
    BY <2>2 DEF Finds
  <2>4. t \in Streams
    BY Writers
  <2>5. w[t].issued \in Nat /\ x[t].issued \in Nat /\ w[t].issued <= x[t].issued
    BY <1>1, <2>4, Positions, GrownFacts
  <2>6. u \in Nat /\ u <= w[t].issued /\ u \in 0..x[t].issued
    BY ONLY <2>3, <2>5
  <2>7. After(x, s, place, t, u)
    BY <1>2, <2>3, <2>4, <2>6, AfterGrows
  <2>8. Leaves(x, m, u, b, p)
    <3>1. \A i \in Pending(x, t) : ~(u < i /\ i <= u)
      <4>1. Pending(x, t) \subseteq Nat
        BY <1>1, <2>4, Positions
      <4> QED  BY ONLY <2>6, <4>1
    <3>2. u <= u
      BY ONLY <2>6
    <3> HIDE DEF p
    <3> QED  BY <2>3, <2>4, <2>6, <3>1, <3>2, LeavesGrow
  <2>9. ASSUME NEW i \in Pending(x, t), u < i, Changes(Op(x, t, i), b)
        PROVE  After(x, t, i, s, place)
    <3>1. i \in Nat
      BY <1>1, <2>4, Positions
    <3>2. CASE i <= w[t].issued
      <4>1. i \in Pending(w, t) /\ Op(x, t, i) = Op(w, t, i)
        BY <2>4, <3>2, GrownFacts
      <4>2. After(w, t, i, s, place)
        BY <2>3, <2>9, <4>1
      <4> QED  BY <1>2, <2>4, <3>1, <4>2, AfterGrows
    <3>3. CASE i > w[t].issued
      BY <2>1, <2>4, <2>9, <3>3
    <3> QED  BY ONLY <2>5, <3>1, <3>2, <3>3
  <2> QED  BY <2>1, <2>3, <2>6, <2>7, <2>8, <2>9 DEF Finds
<1> QED  BY ONLY <1>2, <1>3, <1>4

-----------------------------------------------------------------------------
(* Streams.                                                                *)

\* What a stream executes next.
Next1(w, s) == Op(w, s, Past(w, s) + 1)

\* Stream s has executed its next operation.
Ran(w, x, s) ==
    /\ QueuesType(w) /\ QueuesType(x)
    /\ Past(w, s) + 1 \in Pending(w, s) /\ Past(x, s) = Past(w, s) + 1
    /\ Next1(w, s).kind = "wait" => Next1(w, s).until <= Past(w, Next1(w, s).on)
    /\ \A t \in Streams :
         /\ x[t].issued = w[t].issued
         /\ t # s => Past(x, t) = Past(w, t)
         /\ \A i \in Pending(x, t) : i \in Pending(w, t) /\ Op(x, t, i) = Op(w, t, i)
         /\ \A i \in Pending(w, t) : i \in Pending(x, t) \/ (t = s /\ i = Past(w, s) + 1)

\* The next operation of a stream is the head of what is pending.
LEMMA HeadIsNext ==
  ASSUME NEW w, QueuesType(w), NEW s \in Streams, w[s].pending # <<>>
  PROVE  /\ Past(w, s) + 1 \in Pending(w, s) /\ Next1(w, s) = Head(w[s].pending)
<1> DEFINE S == Wait(s) \cup Transfer(s)
           q == w[s].pending
           n == w[s].issued
           a == Past(w, s)
           k == a + 1
<1>1. q \in Seq(S) /\ n \in Nat /\ Len(q) <= n /\ q # <<>>
  BY DEF QueuesType, Queue
<1>2. a = n - Len(q)
  BY DEF Past
<1>3. /\ k \in Pending(w, s) <=> k \in a + 1..n
      /\ Next1(w, s) = q[k - a]
  BY DEF Pending, Next1, Op
<1> HIDE DEF S, q, n, a
<1>4. Len(q) \in Nat /\ Len(q) >= 1 /\ Head(q) = q[1]
  BY ONLY <1>1
<1>5. a \in Int /\ k \in a + 1..n /\ k - a = 1
  BY ONLY <1>1, <1>2, <1>4
<1> HIDE DEF k
<1>6. k \in Pending(w, s) /\ Next1(w, s) = Head(q)
  BY ONLY <1>3, <1>4, <1>5
<1> QED  BY ONLY <1>6 DEF k, a, q

\* What a stream executes next.
LEMMA ExecuteRuns ==
  ASSUME QueuesType(work), NEW s \in Streams, Execute(s)
  PROVE  Ran(work, work', s) /\ Next1(work, s) = Head(work[s].pending)
<1>1. /\ work = [t \in Streams |-> work[t]] /\ work[s].issued \in Nat
      /\ work[s].pending \in Seq(Wait(s) \cup Transfer(s)) /\ Len(work[s].pending) \in Nat
      /\ Len(work[s].pending) <= work[s].issued /\ work[s].pending # <<>>
      /\ work[s] = [issued |-> work[s].issued, pending |-> work[s].pending]
  <2>1. work[s] \in Queue(s) /\ work = [t \in Streams |-> work[t]]
        /\ Len(work[s].pending) <= work[s].issued /\ work[s].pending # <<>>
    BY DEF QueuesType, Execute
  <2>2. /\ work[s].issued \in Nat /\ work[s].pending \in Seq(Wait(s) \cup Transfer(s))
        /\ work[s] = [issued |-> work[s].issued, pending |-> work[s].pending]
    BY <2>1 DEF Queue
  <2>3. Len(work[s].pending) \in Nat
    BY <2>2
  <2> QED  BY <2>1, <2>2, <2>3
<1>2. work' = [work EXCEPT ![s].pending = Tail(work[s].pending)]
  BY DEF Execute
<1>3. /\ work' = [t \in Streams |-> work'[t]]
      /\ \A t \in Streams : t # s => work'[t] = work[t]
      /\ work'[s] = [issued |-> work[s].issued, pending |-> Tail(work[s].pending)]
  BY <1>1, <1>2
<1> DEFINE S == Wait(s) \cup Transfer(s)
           q == work[s].pending
           n == work[s].issued
<1>4. q \in Seq(S) /\ q # <<>> /\ Len(q) \in Nat /\ Len(q) <= n /\ n \in Nat
  BY <1>1
<1>5. work'[s].issued = n /\ work'[s].pending = Tail(q)
  BY <1>3
<1> HIDE DEF S, q, n
<1>6. /\ Len(q) >= 1 /\ Tail(q) \in Seq(S) /\ Len(Tail(q)) = Len(q) - 1 /\ Head(q) = q[1]
      /\ \A k \in 1..Len(q) - 1 : Tail(q)[k] = q[k + 1]
  BY ONLY <1>4
<1>7. /\ Past(work, s) = n - Len(q) /\ Past(work', s) = Past(work, s) + 1
  <2>1. Past(work, s) = n - Len(q)
    BY DEF Past, n, q
  <2>2. Past(work', s) = n - Len(Tail(q))
    BY <1>5 DEF Past
  <2> QED  BY ONLY <1>4, <1>6, <2>1, <2>2
<1>8. QueuesType(work')
  <2>1. work'[s] \in Queue(s) /\ Len(work'[s].pending) <= work'[s].issued
    <3>1. Len(Tail(q)) <= n
      BY ONLY <1>4, <1>6
    <3> QED  BY <1>3, <1>4, <1>5, <1>6, <3>1 DEF Queue, S, n
  <2> QED  BY <1>3, <2>1 DEF QueuesType
<1>9. Past(work, s) + 1 \in Pending(work, s)
  BY <1>1, HeadIsNext
<1>10. Next1(work, s) = Head(q)
  BY <1>1, HeadIsNext DEF q
<1>11. Next1(work, s).kind = "wait" =>
         Next1(work, s).until <= Past(work, Next1(work, s).on)
  <2> SUFFICES ASSUME Head(q).kind = "wait" PROVE Head(q).until <= Past(work, Head(q).on)
    BY <1>10
  <2>1. Executed(Head(q).on) >= Head(q).until
    BY DEF Execute, q
  <2>2. Executed(Head(q).on) = Past(work, Head(q).on)
    BY DEF Executed, Past
  <2>3. Head(q) \in S
    BY ONLY <1>4, <1>6
  <2>4. Head(q).until \in Nat /\ Head(q).on \in Streams
    BY <2>3 DEF S, Wait, Transfer
  <2>5. Past(work, Head(q).on) \in Nat
    BY <2>4, Positions
  <2> QED  BY ONLY <2>1, <2>2, <2>4, <2>5
<1>12. ASSUME NEW t \in Streams, t # s
       PROVE  /\ work'[t].issued = work[t].issued /\ Past(work', t) = Past(work, t)
              /\ \A i \in Pending(work', t) : i \in Pending(work, t) /\ Op(work', t, i) = Op(work, t, i)
              /\ \A i \in Pending(work, t) : i \in Pending(work', t)
  BY <1>3, <1>12 DEF Past, Pending, Op
<1>13. \A i \in Pending(work', s) : i \in Pending(work, s) /\ Op(work', s, i) = Op(work, s, i)
  <2> TAKE i \in Pending(work', s)
  <2> DEFINE a == Past(work, s)
  <2>1. a = n - Len(q) /\ Past(work', s) = a + 1
    BY <1>7
  <2>2. i \in a + 1 + 1..n
    BY <1>5, <2>1 DEF Pending
  <2> HIDE DEF a
  <2>3. i \in a + 1..n /\ i - (a + 1) \in 1..Len(q) - 1 /\ i - (a + 1) + 1 = i - a
    BY ONLY <1>4, <1>6, <2>1, <2>2
  <2>4. Op(work', s, i) = Tail(q)[i - (a + 1)]
    BY <1>5, <2>1 DEF Op
  <2>5. Op(work, s, i) = q[i - a]
    BY DEF Op, q, a
  <2>6. i \in Pending(work, s)
    BY <2>3 DEF Pending, n, a
  <2>7. Tail(q)[i - (a + 1)] = q[i - (a + 1) + 1]
    BY ONLY <1>6, <2>3
  <2> QED  BY <2>3, <2>4, <2>5, <2>6, <2>7
<1>14. \A i \in Pending(work, s) : i \in Pending(work', s) \/ i = Past(work, s) + 1
  <2> TAKE i \in Pending(work, s)
  <2> DEFINE a == Past(work, s)
  <2>1. a = n - Len(q) /\ Past(work', s) = a + 1 /\ a \in Int
    BY <1>4, <1>7
  <2>2. i \in a + 1..n
    BY DEF Pending, n, a
  <2> HIDE DEF a
  <2>3. i \in a + 1 + 1..n \/ i = a + 1
    BY ONLY <1>4, <2>1, <2>2
  <2> QED  BY <1>5, <2>1, <2>3 DEF Pending, a
<1>15. Ran(work, work', s)
  BY <1>5, <1>7, <1>8, <1>9, <1>11, <1>12, <1>13, <1>14 DEF Ran, n
<1> QED  BY <1>10, <1>15 DEF q

\* What a stream has executed when it has executed one operation more.
LEMMA RanFacts ==
  ASSUME NEW w, NEW x, NEW s \in Streams, Ran(w, x, s), NEW t \in Streams
  PROVE  /\ Past(w, t) \in Nat /\ Past(x, t) \in Nat /\ Past(w, t) <= Past(x, t)
         /\ w[t].issued \in Nat /\ x[t].issued = w[t].issued
         /\ Pending(w, t) \subseteq Nat /\ Pending(x, t) \subseteq Nat
         /\ \A i \in Pending(x, t) : i > Past(x, t)
<1>1. /\ Past(w, t) \in Nat /\ Past(x, t) \in Nat
      /\ w[t].issued \in Nat /\ x[t].issued = w[t].issued
      /\ Pending(w, t) \subseteq Nat /\ Pending(x, t) \subseteq Nat
      /\ \A i \in Pending(x, t) : i > Past(x, t)
  BY Positions DEF Ran
<1>2. Past(x, t) = Past(w, t) \/ Past(x, t) = Past(w, t) + 1
  BY DEF Ran
<1>3. Past(w, t) <= Past(x, t)
  BY ONLY <1>1, <1>2
<1> QED  BY <1>1, <1>3

\* What runs after what stays so when a stream has executed an operation.
LEMMA WaitsRun ==
  ASSUME NEW w, NEW x, NEW s \in Streams, Ran(w, x, s), NEW r \in Streams, NEW t \in Streams,
         NEW place \in Nat, NEW u \in Nat, Waits(w, r, place, t, u)
  PROVE  Waits(x, r, place, t, u)
<1>1. Past(w, t) \in Nat /\ Past(x, t) \in Nat /\ Past(w, t) <= Past(x, t)
  BY RanFacts
<1>2. CASE u <= Past(w, t)
  <2>1. u <= Past(x, t)
    BY ONLY <1>1, <1>2, u \in Nat
  <2> QED  BY <2>1 DEF Waits
<1>3. CASE \E i \in Pending(w, r) :
             i <= place /\ Op(w, r, i).kind = "wait" /\ Op(w, r, i).on = t /\ u <= Op(w, r, i).until
  <2>1. PICK i \in Pending(w, r) :
             i <= place /\ Op(w, r, i).kind = "wait" /\ Op(w, r, i).on = t /\ u <= Op(w, r, i).until
    BY <1>3
  <2>2. CASE i \in Pending(x, r)
    BY <2>1, <2>2 DEF Waits, Ran
  <2>3. CASE r = s /\ i = Past(w, s) + 1
    <3>1. Op(w, r, i).until <= Past(w, t) /\ QueuesType(w)
      BY <2>1, <2>3 DEF Ran, Next1
    <3>2. Op(w, r, i).until \in Nat
      BY <2>1, <3>1, Positions DEF Wait, Transfer
    <3>3. u <= Past(x, t)
      BY ONLY <1>1, <2>1, <3>1, <3>2, u \in Nat
    <3> QED  BY <3>3 DEF Waits
  <2> QED  BY <2>2, <2>3 DEF Ran
<1> QED  BY <1>2, <1>3 DEF Waits

\* An order between operations holds when a stream has executed one more.
LEMMA AfterRun ==
  ASSUME NEW w, NEW x, NEW s \in Streams, Ran(w, x, s), NEW r \in Streams, NEW t \in Streams,
         NEW place \in Nat, NEW u \in Nat, After(w, r, place, t, u)
  PROVE  After(x, r, place, t, u)
<1>1. PICK v \in 0..w["compute"].issued :
        /\ IF r = "compute" THEN v = place ELSE Waits(w, r, place, "compute", v)
        /\ IF t = "compute" THEN u <= v ELSE Waits(w, "compute", v, t, u)
  BY DEF After
<1>2. "compute" \in Streams /\ v \in Nat /\ v \in 0..x["compute"].issued
  <2>1. "compute" \in Streams
    BY DEF Streams
  <2>2. w["compute"].issued \in Nat /\ x["compute"].issued = w["compute"].issued
    BY <2>1, RanFacts
  <2> QED  BY ONLY <2>1, <2>2, <1>1
<1>3. /\ r # "compute" => Waits(x, r, place, "compute", v)
      /\ t # "compute" => Waits(x, "compute", v, t, u)
  BY <1>1, <1>2, WaitsRun
<1> QED  BY <1>1, <1>2, <1>3 DEF After

\* When a stream is about to execute an operation, what that runs after has been executed.
LEMMA AtHead ==
  ASSUME NEW w, QueuesType(w), NEW s \in Streams, NEW t \in Streams, NEW u \in Nat,
         Past(w, s) + 1 \in Pending(w, s), Next1(w, s).kind # "wait",
         After(w, s, Past(w, s) + 1, t, u)
  PROVE  u <= Past(w, t) \/ (s = "compute" /\ t = "compute" /\ u <= Past(w, s) + 1)
<1> DEFINE place == Past(w, s) + 1
<1>1. Past(w, s) \in Nat /\ place \in Nat
  BY Positions
<1>2. "compute" \in Streams
  BY DEF Streams
<1>3. PICK v \in 0..w["compute"].issued :
        /\ IF s = "compute" THEN v = place ELSE Waits(w, s, place, "compute", v)
        /\ IF t = "compute" THEN u <= v ELSE Waits(w, "compute", v, t, u)
  BY DEF After
<1>4. v \in Nat /\ Past(w, "compute") \in Nat
  <2>1. w["compute"].issued \in Nat /\ Past(w, "compute") \in Nat
    BY <1>2, Positions
  <2> QED  BY ONLY <1>3, <2>1
<1>5. \A i \in Pending(w, s) : i <= place => i = place
  <2>1. \A i \in Pending(w, s) : i \in Nat /\ i > Past(w, s)
    BY Positions
  <2> QED  BY ONLY <1>1, <2>1
<1>6. ASSUME NEW r \in Streams, NEW z \in Nat, Waits(w, s, place, r, z)
      PROVE  z <= Past(w, r)
  BY <1>5, <1>6 DEF Waits, Next1
<1>7. CASE s = "compute"
  <2>1. v = place
    BY <1>3, <1>7
  <2>2. CASE t = "compute"
    BY <1>3, <1>7, <2>1, <2>2
  <2>3. CASE t # "compute"
    <3>1. Waits(w, s, place, t, u)
      BY <1>3, <1>7, <2>1, <2>3
    <3> QED  BY <1>6, <3>1
  <2> QED  BY <2>2, <2>3
<1>8. CASE s # "compute"
  <2>1. v <= Past(w, "compute")
    <3>1. Waits(w, s, place, "compute", v)
      BY <1>3, <1>8
    <3> QED  BY <1>2, <1>4, <1>6, <3>1
  <2>2. CASE t = "compute"
    <3>1. u <= v
      BY <1>3, <2>2
    <3>2. u <= Past(w, "compute")
      BY ONLY <1>4, <2>1, <3>1, u \in Nat
    <3> QED  BY <2>2, <3>2
  <2>3. CASE t # "compute"
    <3>1. Waits(w, "compute", v, t, u)
      BY <1>3, <2>3
    <3>2. \A i \in Pending(w, "compute") : ~(i <= v)
      <4>1. \A i \in Pending(w, "compute") : i \in Nat /\ i > Past(w, "compute")
        BY <1>2, Positions
      <4> QED  BY ONLY <1>4, <2>1, <4>1
    <3> QED  BY <3>1, <3>2 DEF Waits
  <2> QED  BY <2>2, <2>3
<1> QED  BY <1>7, <1>8

\* What the memory m becomes when operation op of stream s is executed.
Moves(op, s, m, n) ==
    \A b \in Blocks :
        /\ (Writer(b) = s /\ Changes(op, b)) \/ n[b] = m[b]
        /\ Writer(b) = s /\ Writes(op, b) => n[b] = op.value

\* What leaves p in a block still does when a stream has executed one operation more, unless
\* that is a change of the block behind it.
LEMMA LeavesRun ==
  ASSUME NEW w, NEW x, NEW s \in Streams, Ran(w, x, s), NEW m, NEW n,
         Moves(Next1(w, s), s, m, n), NEW b \in Blocks, NEW p, NEW u \in Nat,
         Writer(b) = s /\ Changes(Next1(w, s), b) => Past(w, s) + 1 <= u,
         Leaves(w, m, u, b, p)
  PROVE  Leaves(x, n, u, b, p)
<1> DEFINE t == Writer(b)
           h == Past(w, s) + 1
           op == Next1(w, s)
<1>1. t \in Streams
  BY Writers
<1>2. /\ \A i \in Pending(x, t) : i \in Pending(w, t) /\ Op(x, t, i) = Op(w, t, i)
      /\ \A i \in Pending(w, t) : i \in Pending(x, t) \/ (t = s /\ i = h)
      /\ Op(w, s, h) = op
  BY <1>1 DEF Ran, Next1
<1>3. /\ (t = s /\ Changes(op, b)) \/ n[b] = m[b]
      /\ t = s /\ Writes(op, b) => n[b] = op.value
      /\ t = s /\ Changes(op, b) => h <= u
  BY DEF Moves
<1>4. h \in Pending(w, s)
  BY DEF Ran
<1> HIDE DEF h, op, t
<1>5. CASE m[b] = p /\ \A i \in Pending(w, t) : i <= u => ~Changes(Op(w, t, i), b)
  <2>1. ~(t = s /\ Changes(op, b))
    BY <1>2, <1>3, <1>4, <1>5
  <2>2. n[b] = p
    BY <1>3, <1>5, <2>1
  <2> QED  BY <1>2, <1>5, <2>2 DEF Leaves, t
<1>6. CASE \E i \in Pending(w, t) :
             /\ i <= u /\ Writes(Op(w, t, i), b) /\ Op(w, t, i).value = p
             /\ \A j \in Pending(w, t) : i < j /\ j <= u => ~Changes(Op(w, t, j), b)
  <2>1. PICK i \in Pending(w, t) :
             /\ i <= u /\ Writes(Op(w, t, i), b) /\ Op(w, t, i).value = p
             /\ \A j \in Pending(w, t) : i < j /\ j <= u => ~Changes(Op(w, t, j), b)
    BY <1>6
  <2>2. CASE i \in Pending(x, t)
    BY <1>2, <2>1, <2>2 DEF Leaves, t
  <2>3. CASE t = s /\ i = h
    <3>1. n[b] = p
      BY <1>2, <1>3, <2>1, <2>3
    <3>2. \A j \in Pending(x, t) : h < j
      <4>1. Past(x, s) = h /\ \A j \in Pending(x, s) : j > Past(x, s) /\ j \in Nat /\ Past(x, s) \in Nat
        BY RanFacts DEF Ran, h
      <4> QED  BY <2>3, <4>1
    <3>3. \A j \in Pending(x, t) : j <= u => ~Changes(Op(x, t, j), b)
      BY <1>2, <2>1, <2>3, <3>2
    <3> QED  BY <3>1, <3>3 DEF Leaves, t
  <2> QED  BY <1>2, <2>2, <2>3
<1> QED  BY <1>5, <1>6 DEF Leaves, t

\* What a stream reads next is what is to be found.
LEMMA FoundAtHead ==
  ASSUME NEW w, QueuesType(w), NEW m, ReadsInv(w, m), NEW s \in Streams,
         Past(w, s) + 1 \in Pending(w, s), NEW b \in Blocks, Reads(Next1(w, s), b)
  PROVE  m[b] = Next1(w, s).value
<1> DEFINE place == Past(w, s) + 1
           op == Next1(w, s)
           t == Writer(b)
<1>1. Finds(w, m, s, place, b, op.value)
  BY DEF ReadsInv, Next1
<1>2. PICK u \in 0..w[t].issued :
        After(w, s, place, t, u) /\ Leaves(w, m, u, b, op.value)
  BY <1>1 DEF Finds
<1>3. t \in Streams
  BY Writers
<1>4. u \in Nat /\ Past(w, t) \in Nat /\ Past(w, s) \in Nat
  <2>1. w[t].issued \in Nat /\ Past(w, t) \in Nat /\ Past(w, s) \in Nat
    BY <1>3, Positions
  <2> QED  BY ONLY <1>2, <2>1
<1>5. op.kind # "wait" /\ op \in Wait(s) \cup Transfer(s)
  BY Positions DEF Reads, Next1
<1>6. u <= Past(w, t) \/ (s = "compute" /\ t = "compute" /\ u <= place)
  BY <1>2, <1>3, <1>4, <1>5, AtHead
<1>7. \A i \in Pending(w, t) : i <= u => s = "compute" /\ t = "compute" /\ i = place
  <2>1. \A i \in Pending(w, t) : i > Past(w, t) /\ i \in Nat
    BY <1>3, Positions
  <2> HIDE DEF t
  <2> QED  BY ONLY <1>4, <1>6, <2>1
<1>8. s = "compute" => ~Writes(op, b)
  BY <1>5 DEF Transfer, Wait, Reads, Writes
<1>9. \A i \in Pending(w, t) : i <= u => ~Writes(Op(w, t, i), b)
  BY <1>7, <1>8 DEF Next1
<1> QED  BY <1>2, <1>9 DEF Leaves

\* What executing an operation does to memory, if it reads what it should.
LEMMA WrittenMoves ==
  ASSUME NEW s \in Streams, NEW op \in Transfer(s), Fits(s, op), memory \in [Blocks -> 0..Passes],
         \A b \in Blocks : Reads(op, b) => memory[b] = op.value
  PROVE  Moves(op, s, memory, Written(op))
<1> DEFINE junk == [b \in Blocks |-> IF b \in op.over THEN 0 ELSE memory[b]]
<1>1. /\ op.kind \in {"forward", "backward", "offload", "reload"} /\ op.block \in Blocks
      /\ op.kind \in {"forward", "backward"} <=> s = "compute"
      /\ op.kind = "offload" <=> s = "d2h"
      /\ op.kind = "reload" <=> s = "h2d"
  BY DEF Transfer, Streams
<1>2. Copy(op.block) \in Blocks /\ Copy(op.block)[1] = "cpu"
  BY <1>1 DEF Copy, Blocks
<1>3. /\ op.kind = "reload" => op.block[1] = "back"
      /\ op.kind \in {"forward", "offload"} => op.block[1] = "gpu"
      /\ \A b \in op.over : Writer(b) = s
  BY <1>1 DEF Fits
<1>4. /\ op.kind = "forward" => Written(op) = [junk EXCEPT ![op.block] = op.value]
      /\ op.kind = "offload" => Written(op) = [junk EXCEPT ![Copy(op.block)] = memory[op.block]]
      /\ op.kind = "reload" => Written(op) = [junk EXCEPT ![op.block] = memory[Copy(op.block)]]
      /\ op.kind = "backward" => Written(op) = junk
  BY <1>1 DEF Written
<1>5. \A b \in Blocks : b \in op.over \/ junk[b] = memory[b]
  OBVIOUS
<1>6. DOMAIN junk = Blocks
  OBVIOUS
<1> HIDE DEF junk
<1>7. /\ op.kind = "offload" => memory[op.block] = op.value
      /\ op.kind = "reload" => memory[Copy(op.block)] = op.value
  BY <1>1, <1>2 DEF Reads
<1>8. ASSUME NEW b \in Blocks
      PROVE  /\ (Writer(b) = s /\ Changes(op, b)) \/ Written(op)[b] = memory[b]
             /\ Writes(op, b) => Written(op)[b] = op.value
  <2>1. Writes(op, b) => Written(op)[b] = op.value
    BY <1>1, <1>2, <1>4, <1>6, <1>7 DEF Writes
  <2>2. ~Writes(op, b) => Written(op)[b] = junk[b]
    BY <1>1, <1>2, <1>4, <1>6 DEF Writes
  <2>3. Writes(op, b) => Writer(b) = s
    BY <1>1, <1>2, <1>3 DEF Writes, Writer
  <2>4. b \in op.over => Writer(b) = s
    BY <1>3
  <2>5. op.kind # "wait"
    BY <1>1
  <2> QED  BY <1>5, <2>1, <2>2, <2>3, <2>4, <2>5 DEF Changes
<1> QED  BY <1>8 DEF Moves

\* Executing an operation keeps what is still to be read where it is to be read.
LEMMA ReadsRun ==
  ASSUME NEW w, NEW x, NEW s \in Streams, Ran(w, x, s), NEW m, NEW n, ReadsInv(w, m),
         Moves(Next1(w, s), s, m, n)
  PROVE  ReadsInv(x, n)
<1> SUFFICES ASSUME NEW r \in Streams, NEW place \in Pending(x, r), NEW b \in Blocks,
                    Reads(Op(x, r, place), b)
             PROVE  Finds(x, n, r, place, b, Op(x, r, place).value)
  BY DEF ReadsInv
<1> DEFINE t == Writer(b)
           h == Past(w, s) + 1
           p == Op(w, r, place).value
<1>1. place \in Pending(w, r) /\ Op(x, r, place) = Op(w, r, place) /\ QueuesType(w)
  BY DEF Ran
<1>2. PICK u \in 0..w[t].issued :
        /\ After(w, r, place, t, u) /\ Leaves(w, m, u, b, p)
        /\ \A i \in Pending(w, t) :
             u < i /\ Changes(Op(w, t, i), b) => After(w, t, i, r, place)
  BY <1>1 DEF Finds, ReadsInv
<1>3. t \in Streams
  BY Writers
<1>4. /\ u \in Nat /\ w[t].issued = x[t].issued /\ place \in Nat /\ place > Past(x, r)
      /\ Past(w, r) \in Nat /\ Past(x, r) \in Nat /\ Past(w, r) <= Past(x, r)
      /\ Past(w, s) \in Nat /\ Past(x, s) = h
      /\ \A i \in Pending(x, t) : i \in Nat
  <2>1. /\ w[t].issued \in Nat /\ w[t].issued = x[t].issued /\ place \in Nat /\ place > Past(x, r)
        /\ Past(w, r) \in Nat /\ Past(x, r) \in Nat /\ Past(w, r) <= Past(x, r)
        /\ Past(w, s) \in Nat
        /\ \A i \in Pending(x, t) : i \in Nat
    BY <1>3, RanFacts
  <2>2. u \in Nat
    BY ONLY <1>2, <2>1
  <2> QED  BY <2>1, <2>2 DEF Ran
<1>5. After(x, r, place, t, u)
  BY <1>2, <1>3, <1>4, AfterRun
<1>6. ASSUME t = s, Changes(Next1(w, s), b)
      PROVE  h <= u
  <2> SUFFICES ASSUME ~(h <= u) PROVE FALSE
    OBVIOUS
  <2>1. u < h
    BY ONLY <1>4, ~(h <= u)
  <2>2. h \in Pending(w, s) /\ Op(w, s, h) = Next1(w, s) /\ Next1(w, s).kind # "wait"
    BY <1>6 DEF Ran, Next1, Changes
  <2>3. After(w, s, h, r, place)
    BY <1>2, <1>6, <2>1, <2>2
  <2>4. place <= Past(w, r) \/ (s = "compute" /\ r = "compute" /\ place <= h)
    BY <1>1, <1>4, <2>2, <2>3, AtHead
  <2>5. s = r => place > h
    BY <1>4
  <2> HIDE DEF h
  <2> QED  BY ONLY <1>4, <2>4, <2>5
<1>7. Leaves(x, n, u, b, p)
  BY <1>2, <1>4, <1>6, LeavesRun
<1>8. ASSUME NEW i \in Pending(x, t), u < i, Changes(Op(x, t, i), b)
      PROVE  After(x, t, i, r, place)
  <2>1. i \in Pending(w, t) /\ Op(x, t, i) = Op(w, t, i)
    BY <1>3 DEF Ran
  <2>2. After(w, t, i, r, place)
    BY <1>2, <1>8, <2>1
  <2> QED  BY <1>3, <1>4, <2>2, AfterRun
<1> QED  BY <1>1, <1>2, <1>4, <1>5, <1>7, <1>8 DEF Finds

-----------------------------------------------------------------------------
(* Execution keeps the invariant.                                          *)

\* What an operation writes is of a pass, or nothing.
LEMMA WrittenType ==
  ASSUME NEW s \in Streams, NEW op \in Transfer(s), OffloadAssumption,
         memory \in [Blocks -> 0..Passes]
  PROVE  Written(op) \in [Blocks -> 0..Passes]
<1> DEFINE junk == [b \in Blocks |-> IF b \in op.over THEN 0 ELSE memory[b]]
<1>1. /\ op.kind \in {"forward", "backward", "offload", "reload"} /\ op.block \in Blocks
      /\ op.value \in 0..Passes
  BY Sizes DEF Transfer, Streams
<1>2. Copy(op.block) \in Blocks
  BY <1>1 DEF Copy, Blocks
<1>3. junk \in [Blocks -> 0..Passes]
  BY Sizes
<1>4. /\ op.kind = "forward" => Written(op) = [junk EXCEPT ![op.block] = op.value]
      /\ op.kind = "offload" => Written(op) = [junk EXCEPT ![Copy(op.block)] = memory[op.block]]
      /\ op.kind = "reload" => Written(op) = [junk EXCEPT ![op.block] = memory[Copy(op.block)]]
      /\ op.kind = "backward" => Written(op) = junk
  BY <1>1 DEF Written
<1> HIDE DEF junk
<1> QED  BY <1>1, <1>2, <1>3, <1>4

\* Whatever stream executes its next operation, the invariant stays.
LEMMA ExecuteKeeps ==
  ASSUME OffloadAssumption, OffloadInv, NEW s \in Streams, Execute(s)
  PROVE  OffloadInv'
<1> DEFINE op == Next1(work, s)
           h == Past(work, s) + 1
<1>1. /\ QueuesType(work) /\ memory \in [Blocks -> 0..Passes] /\ ReadsInv(work, memory)
      /\ \A t \in Streams : \A i \in Pending(work, t) : Fits(t, Op(work, t, i))
  BY DEF OffloadInv, OffloadTypeOK, QueuesInv
<1>2. Ran(work, work', s) /\ op = Head(work[s].pending)
  BY <1>1, ExecuteRuns
<1>3. /\ UNCHANGED <<host, pass, current_group, offloaded_group_count, tag_to_state, tag_to_buf,
                     group_offload_mapping, released>>
      /\ \/ op.kind = "wait" /\ UNCHANGED memory
         \/ op.kind # "wait" /\ memory' = Written(op)
  BY <1>2 DEF Execute
<1>4. op \in Wait(s) \cup Transfer(s) /\ Fits(s, op) /\ h \in Pending(work, s)
  BY <1>1, <1>2, Positions DEF Next1, Ran
<1>5. op.kind # "wait" => op \in Transfer(s)
  BY <1>4 DEF Wait
<1>6. memory' \in [Blocks -> 0..Passes]
  BY <1>1, <1>3, <1>5, WrittenType
<1>7. Moves(op, s, memory, memory')
  <2>1. CASE op.kind = "wait"
    BY <1>3, <2>1 DEF Moves, Writes
  <2>2. CASE op.kind # "wait"
    <3>1. \A b \in Blocks : Reads(op, b) => memory[b] = op.value
      BY <1>1, <1>4, FoundAtHead
    <3> QED  BY <1>1, <1>3, <1>4, <1>5, <2>2, <3>1, WrittenMoves
  <2> QED  BY <2>1, <2>2
<1> HIDE DEF op
<1>8. ReadsInv(work', memory')
  BY <1>1, <1>2, <1>7, ReadsRun DEF op
<1>9. QueuesInv'
  <2>1. QueuesType(work')
    BY <1>2 DEF Ran
  <2>2. \A t \in Streams : \A i \in Pending(work', t) : Fits(t, Op(work', t, i))
    BY <1>1, <1>2 DEF Ran
  <2>3. released' = released /\ released \subseteq {"gpu", "back"} \X Groups
    BY <1>3 DEF OffloadInv, QueuesInv
  <2> QED  BY <2>1, <2>2, <2>3 DEF QueuesInv
<1>10. OffloadTypeOK'
  BY <1>3, <1>6 DEF OffloadInv, OffloadTypeOK
<1>11. HostInv'
  BY <1>3 DEF OffloadInv, HostInv, AheadInv, BackInv, Ended, Moved, Window
<1>12. \A t \in Streams : Issued(t)' = Issued(t) /\ Issued(t) \in Nat
  <2>1. \A t \in Streams : work'[t].issued = work[t].issued /\ work[t].issued \in Nat
    BY <1>2, RanFacts
  <2> QED  BY <2>1 DEF Issued
<1>13. ASSUME NEW b \in Blocks, NEW p, NEW u \in Nat, Leaves(work, memory, u, b, p),
              Writer(b) = s /\ Changes(op, b) => h <= u
       PROVE  Leaves(work', memory', u, b, p)
  BY <1>2, <1>7, <1>13, LeavesRun DEF op
<1>14. ASSUME NEW b \in Blocks, NEW p, Leaves(work, memory, Issued(Writer(b)), b, p)
       PROVE  Leaves(work', memory', Issued(Writer(b)), b, p)
  <2>1. Writer(b) \in Streams
    BY Writers
  <2>2. h <= Issued(s)
    BY <1>1, <1>4, Positions DEF Issued
  <2> QED  BY <1>12, <1>13, <1>14, <2>1, <2>2
<1>15. ASSUME NEW t \in Streams, NEW u \in Nat, Awaited(t, u)
       PROVE  Awaited(t, u)'
  <2>1. "compute" \in Streams
    BY DEF Streams
  <2>2. Waits(work, "compute", Issued("compute"), t, u)
    BY <1>15 DEF Awaited
  <2>3. Waits(work', "compute", Issued("compute"), t, u)
    BY <1>2, <1>12, <2>1, <2>2, WaitsRun
  <2> QED  BY <1>12, <2>1, <2>3 DEF Awaited
<1>16. \A l \in Groups : /\ <<"gpu", l>> \in Blocks /\ Writer(<<"gpu", l>>) = "compute"
                         /\ <<"cpu", l>> \in Blocks /\ Writer(<<"cpu", l>>) = "d2h"
                         /\ <<"back", l>> \in Blocks /\ Writer(<<"back", l>>) = "h2d"
  BY DEF Blocks, Writer
<1>17. "compute" \in Streams /\ "d2h" \in Streams /\ "h2d" \in Streams
  BY DEF Streams
<1>18. HeldInv'
  <2> SUFFICES ASSUME NEW l \in Groups
               PROVE  /\ tag_to_state'[l] = "saved" =>
                           /\ <<"gpu", l>> \notin released'
                           /\ Leaves(work', memory', Issued("compute")', <<"gpu", l>>, pass')
                      /\ tag_to_state'[l] = "tuple" =>
                           Leaves(work', memory', Issued("d2h")', <<"cpu", l>>, pass')
                      /\ tag_to_state'[l] = "loaded" =>
                           /\ <<"back", l>> \notin released'
                           /\ Leaves(work', memory', Issued("h2d")', <<"back", l>>, pass')
    BY DEF HeldInv
  <2>1. /\ tag_to_state[l] = "saved" =>
             /\ <<"gpu", l>> \notin released
             /\ Leaves(work, memory, Issued("compute"), <<"gpu", l>>, pass)
        /\ tag_to_state[l] = "tuple" => Leaves(work, memory, Issued("d2h"), <<"cpu", l>>, pass)
        /\ tag_to_state[l] = "loaded" =>
             /\ <<"back", l>> \notin released
             /\ Leaves(work, memory, Issued("h2d"), <<"back", l>>, pass)
    BY DEF OffloadInv, HeldInv
  <2>2. /\ tag_to_state[l] = "saved" => Leaves(work', memory', Issued("compute"), <<"gpu", l>>, pass)
        /\ tag_to_state[l] = "tuple" => Leaves(work', memory', Issued("d2h"), <<"cpu", l>>, pass)
        /\ tag_to_state[l] = "loaded" => Leaves(work', memory', Issued("h2d"), <<"back", l>>, pass)
    BY <1>14, <1>16, <2>1
  <2> QED  BY <1>3, <1>12, <1>17, <2>1, <2>2
<1>19. CopiesInv'
  <2>1. ~Forwards' => Awaited("d2h", Issued("d2h"))'
    <3>1. ~Forwards' => Awaited("d2h", Issued("d2h"))
      BY <1>3 DEF OffloadInv, CopiesInv, Forwards
    <3>2. Awaited("d2h", Issued("d2h")) => Waits(work', "compute", Issued("compute")', "d2h", Issued("d2h"))
      BY <1>12, <1>15, <1>17 DEF Awaited
    <3> QED  BY <1>12, <1>17, <3>1, <3>2 DEF Awaited
  <2>2. ASSUME NEW i \in Pending(work', "d2h"), Op(work', "d2h", i).kind = "offload"
        PROVE  LET b == Op(work', "d2h", i).block IN
               Awaited("d2h", i)' \/ (tag_to_state'[b[2]] = "tuple" /\ b \notin released')
    <3>1. i \in Pending(work, "d2h") /\ Op(work', "d2h", i) = Op(work, "d2h", i) /\ i \in Nat
      BY <1>2, <1>17, RanFacts DEF Ran
    <3>2. LET b == Op(work, "d2h", i).block IN
          Awaited("d2h", i) \/ (tag_to_state[b[2]] = "tuple" /\ b \notin released)
      BY <2>2, <3>1 DEF OffloadInv, CopiesInv
    <3>3. Awaited("d2h", i) => Awaited("d2h", i)'
      BY <1>15, <1>17, <3>1
    <3> QED  BY <1>3, <3>1, <3>2, <3>3
  <2> QED  BY <2>1, <2>2 DEF CopiesInv
<1>20. ReloadsInv'
  <2>1. Forwards' \/ current_group' = 0 => Awaited("h2d", Issued("h2d"))'
    <3>1. Forwards' \/ current_group' = 0 => Awaited("h2d", Issued("h2d"))
      BY <1>3 DEF OffloadInv, ReloadsInv, Forwards
    <3>2. Awaited("h2d", Issued("h2d")) => Waits(work', "compute", Issued("compute")', "h2d", Issued("h2d"))
      BY <1>12, <1>15, <1>17 DEF Awaited
    <3> QED  BY <1>12, <1>17, <3>1, <3>2 DEF Awaited
  <2>2. ASSUME NEW l \in Groups, tag_to_state'[l] = "loaded",
               ~(IF l = 0 THEN current_group > 0 ELSE current_group > Window[l - 1])'
        PROVE  \E u \in 0..Issued("h2d") :
                 /\ Awaited("h2d", u)' /\ Leaves(work', memory', u, <<"back", l>>, pass)
                 /\ \A i \in Pending(work', "h2d") :
                      u < i => ~Changes(Op(work', "h2d", i), <<"back", l>>)
    <3>1. PICK u \in 0..Issued("h2d") :
              /\ Awaited("h2d", u) /\ Leaves(work, memory, u, <<"back", l>>, pass)
              /\ \A i \in Pending(work, "h2d") :
                   u < i => ~Changes(Op(work, "h2d", i), <<"back", l>>)
      BY <1>3, <2>2 DEF OffloadInv, ReloadsInv, Window
    <3>2. u \in Nat /\ Past(work, s) \in Nat
      <4>1. Issued("h2d") \in Nat /\ Past(work, s) \in Nat
        BY <1>2, <1>12, <1>17, RanFacts
      <4> QED  BY ONLY <3>1, <4>1
    <3>3. "h2d" = s /\ Changes(op, <<"back", l>>) => h <= u
      <4>1. "h2d" = s /\ Changes(op, <<"back", l>>) => ~(u < h)
        BY <1>4, <3>1 DEF op, Next1
      <4> QED  BY ONLY <3>2, <4>1
    <3>4. Leaves(work', memory', u, <<"back", l>>, pass)
      BY <1>13, <1>16, <3>1, <3>2, <3>3
    <3>5. \A i \in Pending(work', "h2d") : u < i => ~Changes(Op(work', "h2d", i), <<"back", l>>)
      BY <1>2, <1>17, <3>1 DEF Ran
    <3>6. Awaited("h2d", u)'
      BY <1>15, <1>17, <3>1, <3>2
    <3> QED  BY <3>1, <3>4, <3>5, <3>6
  <2> QED  BY <1>3, <1>12, <1>17, <2>1, <2>2 DEF ReloadsInv
<1> QED  BY <1>8, <1>9, <1>10, <1>11, <1>18, <1>19, <1>20 DEF OffloadInv

\* The invariant holds at first.
LEMMA OffloadBegins ==
  ASSUME OffloadAssumption, OffloadInit
  PROVE  OffloadInv
<1>1. /\ NumLayers \in Nat \ {0} /\ NumOffload \in Nat \ {0} /\ NumOffload <= NumLayers
      /\ Passes \in Nat \ {0} /\ Groups = 0..NumLayers - 1
      /\ Window[0] \in Nat /\ Window[0] >= 0
  <2>1. /\ NumLayers \in Nat \ {0} /\ NumOffload \in Nat \ {0} /\ NumOffload <= NumLayers
        /\ Passes \in Nat \ {0} /\ Groups = 0..NumLayers - 1
    BY Sizes
  <2>2. 0 \in 0..NumOffload - 1
    BY ONLY <2>1
  <2> QED  BY <2>1, <2>2, WindowFacts
<1>2. \A s \in Streams : work[s].issued = 0 /\ work[s].pending = <<>>
  BY DEF OffloadInit
<1>3. \A s \in Streams : Past(work, s) = 0 /\ Pending(work, s) = {} /\ Issued(s) = 0
  <2>1. Len(<<>>) = 0 /\ 0 + 1..0 = {} /\ 0 - 0 = 0
    OBVIOUS
  <2> QED  BY <1>2, <2>1 DEF Past, Pending, Issued
<1>4. QueuesInv
  <2>1. work = [s \in Streams |-> work[s]]
        /\ \A s \in Streams : work[s] = [issued |-> 0, pending |-> <<>>]
    BY DEF OffloadInit
  <2>2. QueuesType(work)
    <3>1. \A s \in Streams : work[s] \in Queue(s) /\ Len(work[s].pending) = 0
      <4>1. ASSUME NEW s \in Streams PROVE [issued |-> 0, pending |-> <<>>] \in Queue(s)
        <5> DEFINE S == Wait(s) \cup Transfer(s)
        <5>1. <<>> \in Seq(S)
          OBVIOUS
        <5> HIDE DEF S
        <5>2. [issued |-> 0, pending |-> <<>>] \in [issued : Nat, pending : Seq(S)]
          BY ONLY <5>1
        <5> QED  BY <5>2 DEF Queue, S
      <4> QED  BY <2>1, <4>1
    <3>2. \A s \in Streams : Len(work[s].pending) <= work[s].issued
      BY <2>1, <3>1
    <3> QED  BY <2>1, <3>1, <3>2 DEF QueuesType
  <2> QED  BY <1>3, <2>2 DEF QueuesInv, OffloadInit
<1>5. ReadsInv(work, memory)
  BY <1>3 DEF ReadsInv
<1>6. HostInv
  <2>1. 0..0 - 1 = {} /\ 0 \in 0..NumLayers - 1 /\ 0 \in 0..NumOffload - 1
    BY ONLY <1>1
  <2> QED  BY <1>1, <2>1 DEF OffloadInit, HostInv, AheadInv, Ended
<1>7. HeldInv
  BY DEF OffloadInit, HeldInv
<1>8. \A t \in Streams : Awaited(t, 0)
  BY <1>3 DEF Awaited, Waits
<1>9. CopiesInv /\ ReloadsInv
  <2>1. "d2h" \in Streams /\ "h2d" \in Streams
    BY DEF Streams
  <2> QED  BY <1>3, <1>8, <2>1 DEF OffloadInit, CopiesInv, ReloadsInv
<1>10. OffloadTypeOK
  BY <1>1 DEF OffloadInit, OffloadTypeOK
<1> QED  BY <1>4, <1>5, <1>6, <1>7, <1>9, <1>10 DEF OffloadInv

-----------------------------------------------------------------------------
(* What the host enqueues.                                                 *)

\* The streams by name.
LEMMA StreamNames == "compute" \in Streams /\ "d2h" \in Streams /\ "h2d" \in Streams
BY DEF Streams

\* The blocks of a group, and who writes them.
LEMMA BlockFacts ==
  ASSUME NEW l \in Groups
  PROVE  /\ <<"gpu", l>> \in Blocks /\ Writer(<<"gpu", l>>) = "compute"
         /\ <<"cpu", l>> \in Blocks /\ Writer(<<"cpu", l>>) = "d2h"
         /\ <<"back", l>> \in Blocks /\ Writer(<<"back", l>>) = "h2d"
         /\ Copy(<<"gpu", l>>) = <<"cpu", l>> /\ Copy(<<"back", l>>) = <<"cpu", l>>
BY DEF Blocks, Writer, Copy

\* Of the blocks of a stream, those that nothing refers to.
LEMMA PoolFacts ==
  ASSUME QueuesInv, NEW s \in Streams
  PROVE  /\ Pool(s) \subseteq released /\ Pool(s) \subseteq Blocks
         /\ \A b \in Pool(s) : b[1] = IF s = "compute" THEN "gpu" ELSE "back"
         /\ s # "d2h" => \A b \in Pool(s) : Writer(b) = s
         /\ \A l \in Groups : <<IF s = "compute" THEN "gpu" ELSE "back", l>> \notin released \ Pool(s)
<1>1. \A b \in Pool(s) : b[1] = IF s = "compute" THEN "gpu" ELSE "back"
  BY DEF Pool
<1>2. s # "d2h" => \A b \in Pool(s) : Writer(b) = s
  BY <1>1 DEF Writer, Streams
<1>3. released \subseteq Blocks
  BY DEF QueuesInv, Blocks
<1> QED  BY <1>1, <1>2, <1>3 DEF Pool

\* Waiting for another stream, and moving memory, put one operation.
LEMMA WaitPuts ==
  ASSUME NEW w, QueuesType(w), NEW s \in Streams, NEW t \in Streams \ {s}
  PROVE  LET x == WaitStream(w, s, t)
             n == w[s].issued + 1
         IN /\ Grown(w, x) /\ x[s].issued = n
            /\ Op(x, s, n) = [kind |-> "wait", on |-> t, until |-> w[t].issued]
            /\ \A r \in Streams : r # s => x[r] = w[r]
<1> DEFINE op == [kind |-> "wait", on |-> t, until |-> w[t].issued]
<1>1. op \in Wait(s) \cup Transfer(s)
  <2>1. w[t].issued \in Nat
    BY Positions
  <2> QED  BY <2>1 DEF Wait
<1>2. WaitStream(w, s, t) = Put(w, s, op)
  BY DEF WaitStream
<1> HIDE DEF op
<1>3. /\ Grown(w, Put(w, s, op)) /\ Put(w, s, op)[s].issued = w[s].issued + 1
      /\ Op(Put(w, s, op), s, w[s].issued + 1) = op
      /\ \A r \in Streams : r # s => Put(w, s, op)[r] = w[r]
  BY <1>1, PutGrows
<1> QED  BY <1>2, <1>3 DEF op

\* What is enqueued to change memory gets the position behind all others of its stream.
LEMMA DoPuts ==
  ASSUME QueuesInv, pass \in 1..Passes, NEW w, QueuesType(w), NEW s \in Streams, NEW kind,
         NEW block \in Blocks,
         kind \in CASE s = "compute" -> {"forward", "backward"} [] s = "d2h" -> {"offload"}
                    [] OTHER -> {"reload"}
  PROVE  LET x == Do(w, s, kind, block)
             n == w[s].issued + 1
         IN /\ Grown(w, x) /\ x[s].issued = n
            /\ Op(x, s, n) = [kind |-> kind, block |-> block, value |-> pass,
                              over |-> IF s = "d2h" THEN {} ELSE Pool(s)]
            /\ \A r \in Streams : r # s => x[r] = w[r]
<1> DEFINE op == [kind |-> kind, block |-> block, value |-> pass,
                  over |-> IF s = "d2h" THEN {} ELSE Pool(s)]
<1>1. op \in Wait(s) \cup Transfer(s)
  <2>1. (IF s = "d2h" THEN {} ELSE Pool(s)) \in SUBSET Blocks
    BY PoolFacts
  <2> QED  BY <2>1 DEF Transfer
<1>2. Do(w, s, kind, block) = Put(w, s, op)
  BY DEF Do
<1> HIDE DEF op
<1>3. /\ Grown(w, Put(w, s, op)) /\ Put(w, s, op)[s].issued = w[s].issued + 1
      /\ Op(Put(w, s, op), s, w[s].issued + 1) = op
      /\ \A r \in Streams : r # s => Put(w, s, op)[r] = w[r]
  BY <1>1, PutGrows
<1> QED  BY <1>2, <1>3 DEF op

\* What the host relies on is still there when more is enqueued.
LEMMA Carried ==
  ASSUME Grown(work, work')
  PROVE  /\ \A t \in Streams : Issued(t) \in Nat /\ Issued(t)' \in Nat /\ Issued(t) <= Issued(t)'
         /\ \A t \in Streams : \A u \in Nat : Awaited(t, u) => Waits(work', "compute", Issued("compute")', t, u)
         /\ \A b \in Blocks : \A p :
              /\ Leaves(work, memory, Issued(Writer(b)), b, p)
              /\ \A i \in Pending(work', Writer(b)) :
                   i > Issued(Writer(b)) => ~Changes(Op(work', Writer(b), i), b)
              => /\ Leaves(work', memory, Issued(Writer(b)), b, p)
                 /\ Leaves(work', memory, work'[Writer(b)].issued, b, p)
<1>1. \A t \in Streams : /\ work[t].issued \in Nat /\ work'[t].issued \in Nat
                         /\ work[t].issued <= work'[t].issued
                         /\ QueuesType(work) /\ QueuesType(work')
  BY GrownFacts, Positions
<1>2. ASSUME NEW t \in Streams, NEW u \in Nat, Awaited(t, u)
      PROVE  Waits(work', "compute", Issued("compute")', t, u)
  <2> DEFINE n == work["compute"].issued
             k == work'["compute"].issued
  <2>1. n \in Nat /\ k \in Nat /\ n <= k /\ QueuesType(work')
    BY <1>1, StreamNames
  <2>2. Waits(work, "compute", n, t, u)
    BY <1>2 DEF Awaited, Issued
  <2> HIDE DEF n, k
  <2>3. Waits(work', "compute", n, t, u)
    BY <2>1, <2>2, WaitsGrow, StreamNames
  <2>4. u <= u
    OBVIOUS
  <2>5. Waits(work', "compute", k, t, u)
    BY <2>1, <2>3, <2>4, WaitsLater, StreamNames
  <2> QED  BY <2>5 DEF k, Issued
<1>3. ASSUME NEW b \in Blocks, NEW p,
             Leaves(work, memory, Issued(Writer(b)), b, p),
             \A i \in Pending(work', Writer(b)) :
                i > Issued(Writer(b)) => ~Changes(Op(work', Writer(b), i), b)
      PROVE  /\ Leaves(work', memory, Issued(Writer(b)), b, p)
             /\ Leaves(work', memory, work'[Writer(b)].issued, b, p)
  <2> DEFINE t == Writer(b)
             n == work[t].issued
             k == work'[t].issued
  <2>1. t \in Streams
    BY Writers
  <2>2. n \in Nat /\ k \in Nat /\ n <= k /\ n \in 0..n /\ n <= n
    <3>1. n \in Nat /\ k \in Nat /\ n <= k
      BY <1>1, <2>1
    <3> HIDE DEF n, k
    <3> QED  BY ONLY <3>1
  <2>3. \A i \in Pending(work', t) : n < i => ~Changes(Op(work', t, i), b)
    <3>1. Pending(work', t) \subseteq Nat
      BY <1>1, <2>1, Positions
    <3>2. \A i \in Pending(work', t) : i > n => ~Changes(Op(work', t, i), b)
      BY <1>3 DEF Issued
    <3> HIDE DEF n
    <3> QED  BY <2>2, <3>1, <3>2
  <2>4. Leaves(work, memory, n, b, p)
    BY <1>3 DEF Issued
  <2>5. Leaves(work', memory, n, b, p)
    BY <2>1, <2>2, <2>3, <2>4, LeavesGrow
  <2>6. Leaves(work', memory, k, b, p)
    BY <2>1, <2>2, <2>3, <2>4, LeavesGrow
  <2> QED  BY <2>5, <2>6 DEF Issued
<1> QED  BY <1>1, <1>2, <1>3 DEF Issued

\* What is written last is left.
LEMMA WrittenLast ==
  ASSUME NEW w, QueuesType(w), NEW m, NEW b, Writer(b) \in Streams,
         NEW i \in Pending(w, Writer(b)), Writes(Op(w, Writer(b), i), b),
         \A j \in Pending(w, Writer(b)) : i < j => ~Changes(Op(w, Writer(b), j), b)
  PROVE  Leaves(w, m, w[Writer(b)].issued, b, Op(w, Writer(b), i).value)
<1>1. i <= w[Writer(b)].issued
  BY Positions
<1> QED  BY <1>1 DEF Leaves

-----------------------------------------------------------------------------
(* What the host does.                                                     *)

\* Where the forward pass stands.
LEMMA AheadFacts ==
  ASSUME OffloadAssumption, OffloadInv, Forwards
  PROVE  /\ AheadInv /\ current_group \in Nat /\ offloaded_group_count \in Nat
         /\ current_group \in Groups /\ offloaded_group_count \in Groups
         /\ current_group < NumLayers /\ offloaded_group_count < NumOffload
         /\ offloaded_group_count \in DOMAIN Window
         /\ offloaded_group_count <= current_group
         /\ current_group > 0 /\ NumOffload < NumLayers => offloaded_group_count < current_group
         /\ NumOffload = NumLayers => offloaded_group_count = current_group
         /\ current_group = NumLayers - 1 <=>
              offloaded_group_count = NumOffload - 1 /\ Window[offloaded_group_count] = current_group
         /\ NumOffload < NumLayers /\ Window[offloaded_group_count] = current_group
              => offloaded_group_count + 1 <= current_group
<1> DEFINE l == current_group
           n == offloaded_group_count
<1>1. AheadInv
  BY DEF OffloadInv, HostInv, Forwards
<1>2. /\ NumLayers \in Nat \ {0} /\ NumOffload \in Nat \ {0} /\ NumOffload <= NumLayers
      /\ Groups = 0..NumLayers - 1 /\ DOMAIN Window = 0..NumOffload - 1
  BY Sizes
<1>3. l \in 0..NumLayers - 1 /\ n \in 0..NumOffload - 1 /\ (n = 0 \/ Window[n - 1] < l) /\ Window[n] >= l
  BY <1>1 DEF AheadInv, Ended
<1> HIDE DEF l, n
<1>4. /\ l \in Nat /\ n \in Nat /\ l \in Groups /\ n \in Groups /\ l < NumLayers /\ n < NumOffload
      /\ n \in DOMAIN Window
  BY ONLY <1>2, <1>3
<1>5. /\ Window[n] \in Nat
      /\ n # 0 => /\ Window[n - 1] \in Nat /\ Window[n - 1] >= n - 1
                  /\ NumOffload < NumLayers => Window[n - 1] >= n
                  /\ NumOffload = NumLayers => Window[n - 1] = n - 1
      /\ NumOffload < NumLayers => Window[n] >= n + 1
      /\ NumOffload = NumLayers => Window[n] = n
      /\ n # NumOffload - 1 => Window[n] < Window[NumOffload - 1]
      /\ Window[NumOffload - 1] = NumLayers - 1
  <2>1. n # 0 => n - 1 \in 0..NumOffload - 1 /\ n - 1 + 1 = n
    BY ONLY <1>2, <1>3
  <2>2. NumOffload - 1 \in 0..NumOffload - 1 /\ (n # NumOffload - 1 => n < NumOffload - 1)
    BY ONLY <1>2, <1>3
  <2>3. n # 0 => /\ Window[n - 1] \in Nat /\ Window[n - 1] >= n - 1
                 /\ NumOffload < NumLayers => Window[n - 1] >= n - 1 + 1
                 /\ NumOffload = NumLayers => Window[n - 1] = n - 1
    BY <2>1, WindowFacts
  <2> QED  BY <1>3, <2>1, <2>2, <2>3, WindowFacts
<1>6. /\ n <= l
      /\ l > 0 /\ NumOffload < NumLayers => n < l
      /\ NumOffload = NumLayers => n = l
      /\ l = NumLayers - 1 <=> n = NumOffload - 1 /\ Window[n] = l
      /\ NumOffload < NumLayers /\ Window[n] = l => n + 1 <= l
  <2>1. /\ n <= l
        /\ l > 0 /\ NumOffload < NumLayers => n < l
        /\ NumOffload = NumLayers => n = l
    BY ONLY <1>2, <1>3, <1>4, <1>5
  <2>2. l = NumLayers - 1 <=> n = NumOffload - 1 /\ Window[n] = l
    BY ONLY <1>2, <1>3, <1>4, <1>5
  <2>3. NumOffload < NumLayers /\ Window[n] = l => n + 1 <= l
    BY ONLY <1>4, <1>5
  <2> QED  BY <2>1, <2>2, <2>3
<1> QED  BY <1>1, <1>4, <1>6 DEF l, n

\* A layer of the forward pass never finds activations it did not expect.
LEMMA ForwardHost ==
  ASSUME OffloadAssumption, OffloadInv, LayerForward
  PROVE  /\ HostInv' /\ tag_to_state[current_group] = "none" /\ current_group \in Groups
         /\ host' = "commit forward"
         /\ tag_to_state' = [tag_to_state EXCEPT ![current_group] = "saved"]
         /\ work' = Do(work, "compute", "forward", <<"gpu", current_group>>)
         /\ released' = released \ Pool("compute")
         /\ UNCHANGED <<pass, current_group, offloaded_group_count, group_offload_mapping, memory>>
<1> DEFINE l == current_group
           n == offloaded_group_count
<1>1. host = "forward" /\ Forwards
  BY DEF LayerForward, Forwards
<1>2. /\ AheadInv /\ l \in Nat /\ n \in Nat /\ l \in Groups /\ n <= l /\ l < NumLayers
  BY <1>1, AheadFacts
<1>3. l \notin 0..l - 1 /\ 0..l = 0..l - 1 \cup {l}
  BY ONLY <1>2
<1>4. tag_to_state[l] = "none"
  BY <1>1, <1>2, <1>3 DEF AheadInv
<1>5. /\ host' = "commit forward"
      /\ tag_to_state' = [tag_to_state EXCEPT ![l] = "saved"]
      /\ tag_to_buf' = IF l < NumOffload THEN tag_to_buf \union {l} ELSE tag_to_buf
      /\ work' = Do(work, "compute", "forward", <<"gpu", l>>)
      /\ released' = released \ Pool("compute")
      /\ UNCHANGED <<pass, current_group, offloaded_group_count, group_offload_mapping, memory>>
  BY <1>4 DEF LayerForward
<1>6. tag_to_buf' = {h \in 0..l : n <= h /\ h < NumOffload}
  <2>1. tag_to_buf = {h \in 0..l - 1 : n <= h /\ h < NumOffload}
    BY <1>1, <1>2 DEF AheadInv
  <2> HIDE DEF l, n
  <2> QED  BY <1>2, <1>3, <1>5, <2>1
<1>7. \A h \in Groups :
        tag_to_state'[h] = IF h \notin 0..l THEN "none"
                           ELSE IF h < l /\ h <= n /\ Moved(h) THEN "tuple" ELSE "saved"
  <2>1. \A h \in Groups :
          tag_to_state[h] = IF h \notin 0..l - 1 THEN "none"
                            ELSE IF h < l /\ h <= n /\ Moved(h) THEN "tuple" ELSE "saved"
    BY <1>1, <1>2 DEF AheadInv
  <2>2. tag_to_state'[l] = "saved" /\ \A h \in Groups : h # l => tag_to_state'[h] = tag_to_state[h]
    BY <1>2, <1>5 DEF OffloadInv, OffloadTypeOK
  <2>3. ~(l < l)
    BY ONLY <1>2
  <2> HIDE DEF l, n
  <2> QED  BY <1>3, <2>1, <2>2, <2>3
<1>8. AheadInv'
  <2>1. /\ l' = l /\ n' = n /\ group_offload_mapping' = group_offload_mapping
        /\ l \in 0..NumLayers - 1 /\ n \in 0..NumOffload - 1 /\ Ended(n, l)
        /\ group_offload_mapping = IF l = 0 THEN {} ELSE 0..n
    BY <1>2, <1>5 DEF AheadInv
  <2>2. \A h : Moved(h)' = Moved(h)
    BY DEF Moved
  <2>3. Ended(n, l)' = Ended(n, l)
    BY <2>1 DEF Ended, Window
  <2> QED  BY <1>5, <1>6, <1>7, <2>1, <2>2, <2>3 DEF AheadInv
<1> QED  BY <1>2, <1>4, <1>5, <1>8 DEF HostInv

\* The end of a layer of the forward pass: no window ends too early for its group, and
\* none is left when the backward pass begins.
LEMMA CommitForwardHost ==
  ASSUME OffloadAssumption, OffloadInv, CommitForward
  PROVE  LET l == current_group
             n == offloaded_group_count
             ends == Window[n] = l
             more == ends /\ n < NumOffload - 1
             moved == (IF l = 0 THEN {0} ELSE {})
                        \cup (IF more /\ tag_to_state[n + 1] = "saved" THEN {n + 1} ELSE {})
         IN /\ HostInv'
            /\ moved \subseteq Groups /\ \A h \in moved : tag_to_state[h] = "saved"
            /\ \A h \in Groups : tag_to_state'[h] = IF h \in moved THEN "tuple" ELSE tag_to_state[h]
            /\ ends => tag_to_state'[n] = "tuple" \/ <<"gpu", n>> \notin released' \ released
            /\ released' = released \cup {<<"gpu", n>>} \/ released' = released
            /\ released' # released => ends
            /\ ~Forwards' => ends /\ ~more
            /\ tag_to_state' = [h \in Groups |-> tag_to_state'[h]]
            /\ l + 1 = NumLayers <=> ~Forwards'
            /\ current_group' = l + 1 /\ UNCHANGED <<pass, memory>>
            /\ LET begun == IF l = 0 THEN BulkOffload(WaitStream(work, "d2h", "compute"), tag_to_state, 0)
                            ELSE work
                   waited == IF ends THEN Both(begun, "d2h") ELSE begun
               IN work' = IF more /\ tag_to_state[n + 1] = "saved"
                          THEN Do(waited, "d2h", "offload", <<"gpu", n + 1>>) ELSE waited
<1> DEFINE l == current_group
           n == offloaded_group_count
           ends == Window[n] = l
           more == ends /\ n < NumOffload - 1
           starts == l = 0
           marks == IF starts THEN Offloaded(tag_to_state, 0) ELSE tag_to_state
           begun == IF starts THEN BulkOffload(WaitStream(work, "d2h", "compute"), tag_to_state, 0)
                    ELSE work
           waited == IF ends THEN Both(begun, "d2h") ELSE begun
           free == ends /\ n \in tag_to_buf /\ marks[n] = "tuple"
           moved == (IF l = 0 THEN {0} ELSE {})
                      \cup (IF more /\ tag_to_state[n + 1] = "saved" THEN {n + 1} ELSE {})
<1>1. host = "commit forward" /\ Forwards
  BY DEF CommitForward, Forwards
<1>2. /\ AheadInv /\ l \in Nat /\ n \in Nat /\ l \in Groups /\ n \in Groups
      /\ l < NumLayers /\ n < NumOffload /\ n \in DOMAIN Window /\ n <= l
      /\ l > 0 /\ NumOffload < NumLayers => n < l
      /\ NumOffload = NumLayers => n = l
      /\ l = NumLayers - 1 <=> n = NumOffload - 1 /\ Window[n] = l
      /\ NumOffload < NumLayers /\ Window[n] = l => n + 1 <= l
  BY <1>1, AheadFacts
<1>3. /\ NumLayers \in Nat \ {0} /\ NumOffload \in Nat \ {0} /\ NumOffload <= NumLayers
      /\ Groups = 0..NumLayers - 1
  BY Sizes
<1>4. /\ \A h \in Groups :
           tag_to_state[h] = IF h \notin 0..l THEN "none"
                             ELSE IF h < l /\ h <= n /\ Moved(h) THEN "tuple" ELSE "saved"
      /\ tag_to_buf = {h \in 0..l : n <= h /\ h < NumOffload}
      /\ group_offload_mapping = IF l = 0 THEN {} ELSE 0..n
      /\ Ended(n, l)
  BY <1>1, <1>2 DEF AheadInv
<1>5. tag_to_state \in [Groups -> {"none", "saved", "tuple", "loaded"}]
  BY DEF OffloadInv, OffloadTypeOK
<1>6. 0 \in Groups /\ 0 \in 0..l /\ more => n + 1 \in Groups
  BY ONLY <1>2, <1>3
<1>7. l = 0 => tag_to_state[0] = "saved"
  <2>1. l = 0 => ~(0 < l) /\ 0 \in 0..l
    BY ONLY <1>2
  <2>2. 0 \in Groups
    BY ONLY <1>3
  <2> QED  BY <1>4, <2>1, <2>2
<1>8. more => n + 1 \in Groups /\ tag_to_state[n + 1] # "tuple" /\ n + 1 # 0
  <2>1. more => n + 1 \in Groups /\ ~(n + 1 <= n) /\ n + 1 # 0
    BY ONLY <1>2, <1>3
  <2> QED  BY <1>4, <2>1
<1>9. marks = [h \in Groups |-> IF l = 0 /\ h = 0 THEN "tuple" ELSE tag_to_state[h]]
  <2>1. Offloaded(tag_to_state, 0) =
          IF tag_to_state[0] = "saved" THEN [tag_to_state EXCEPT ![0] = "tuple"] ELSE tag_to_state
    BY DEF Offloaded
  <2> QED  BY <1>5, <1>7, <2>1
<1>10. more => marks[n + 1] = tag_to_state[n + 1] /\ marks[n + 1] # "tuple"
  BY <1>8, <1>9
<1>11. /\ work' = IF more THEN BulkOffload(waited, marks, n + 1) ELSE waited
       /\ released' = released \union IF free THEN {<<"gpu", n>>} ELSE {}
       /\ tag_to_state' = IF more THEN Offloaded(marks, n + 1) ELSE marks
       /\ tag_to_buf' = IF ends THEN tag_to_buf \ {n} ELSE tag_to_buf
       /\ group_offload_mapping' = group_offload_mapping
             \union (IF starts THEN {0} ELSE {}) \union (IF more THEN {n + 1} ELSE {})
       /\ offloaded_group_count' = IF ends THEN n + 1 ELSE n
       /\ current_group' = l + 1
       /\ host' = IF l + 1 = NumLayers THEN "commit backward" ELSE "forward"
       /\ UNCHANGED <<pass, memory>>
  BY <1>2, <1>10 DEF CommitForward
<1> HIDE DEF marks, begun, waited
<1>12. \A h \in Groups : tag_to_state'[h] = IF h \in moved THEN "tuple" ELSE tag_to_state[h]
  <2>1. CASE ~more
    BY <1>9, <1>11, <2>1
  <2>2. CASE more /\ tag_to_state[n + 1] # "saved"
    <3>1. tag_to_state' = marks
      BY <1>10, <1>11, <2>2 DEF Offloaded
    <3> QED  BY <1>9, <2>2, <3>1
  <2>3. CASE more /\ tag_to_state[n + 1] = "saved"
    <3>1. tag_to_state' = [marks EXCEPT ![n + 1] = "tuple"]
      BY <1>10, <1>11, <2>3 DEF Offloaded
    <3>2. moved = (IF l = 0 THEN {0} ELSE {}) \cup {n + 1}
      BY <2>3
    <3> DEFINE k == n + 1
    <3>3. k \in Groups /\ k # 0
      BY <1>8, <2>3
    <3> HIDE DEF k, moved
    <3> QED  BY <1>9, <3>1, <3>2, <3>3 DEF k
  <2> QED  BY <2>1, <2>2, <2>3
<1>22. tag_to_state' = [h \in Groups |-> tag_to_state'[h]]
  <2>1. CASE ~more
    BY <1>9, <1>11, <2>1
  <2>2. CASE more
    <3>1. tag_to_state' = IF marks[n + 1] = "saved" THEN [marks EXCEPT ![n + 1] = "tuple"]
                          ELSE marks
      BY <1>11, <2>2 DEF Offloaded
    <3>2. marks = [h \in Groups |-> marks[h]]
      BY <1>9
    <3> QED  BY <3>1, <3>2
  <2> QED  BY <2>1, <2>2
<1>13. moved \subseteq Groups /\ \A h \in moved : tag_to_state[h] = "saved"
  BY <1>3, <1>7, <1>8
<1>14. work' = IF more /\ tag_to_state[n + 1] = "saved"
               THEN Do(waited, "d2h", "offload", <<"gpu", n + 1>>) ELSE waited
  BY <1>10, <1>11 DEF BulkOffload
<1>15. l + 1 = NumLayers <=> ends /\ ~more
  BY ONLY <1>2, <1>3
<1>16. Forwards' <=> l + 1 # NumLayers
  BY <1>11 DEF Forwards
<1>17. tag_to_buf' = IF ends THEN {h \in 0..l : n + 1 <= h /\ h < NumOffload}
                     ELSE {h \in 0..l : n <= h /\ h < NumOffload}
  <2>1. CASE ends
    <3>1. tag_to_buf' = {h \in 0..l : n <= h /\ h < NumOffload} \ {n}
      BY <1>4, <1>11, <2>1
    <3> HIDE DEF l, n
    <3>2. {h \in 0..l : n <= h /\ h < NumOffload} \ {n} = {h \in 0..l : n + 1 <= h /\ h < NumOffload}
      BY ONLY <1>2
    <3> QED  BY <2>1, <3>1, <3>2
  <2>2. CASE ~ends
    BY <1>4, <1>11, <2>2
  <2> QED  BY <2>1, <2>2
<1>18. more => n + 1 \in 0..NumOffload - 1 /\ Window[n + 1] > l /\ Window[n + 1] \in Nat
  <2> SUFFICES ASSUME more
               PROVE  n + 1 \in 0..NumOffload - 1 /\ Window[n + 1] > l /\ Window[n + 1] \in Nat
    OBVIOUS
  <2>1. n + 1 \in 0..NumOffload - 1 /\ n \in 0..NumOffload - 1 /\ n < n + 1
    BY ONLY <1>2, <1>3, more
  <2>2. Window[n] < Window[n + 1] /\ Window[n + 1] \in Nat
    BY <2>1, WindowFacts
  <2> QED  BY <1>2, <2>1, <2>2
<1>19. ASSUME l + 1 # NumLayers
       PROVE  HostInv'
  <2> DEFINE k == IF ends THEN n + 1 ELSE n
  <2>1. /\ host' = "forward" /\ current_group' = l + 1 /\ offloaded_group_count' = k
        /\ ends => more
    BY <1>11, <1>15, <1>19
  <2>2. l + 1 \in 0..NumLayers - 1 /\ k \in 0..NumOffload - 1 /\ l + 1 # 0 /\ l + 1 - 1 = l
    BY ONLY <1>2, <1>3, <1>19, <2>1
  <2>3. Ended(k, l + 1)
    <3>1. CASE ends
      <4>1. Window[n + 1] \in Nat /\ Window[n + 1] > l /\ n + 1 - 1 = n
        BY <1>2, <1>18, <2>1, <3>1
      <4>2. Window[n + 1] >= l + 1 /\ l < l + 1
        BY ONLY <1>2, <4>1
      <4>3. k = n + 1 /\ k - 1 = n
        <5>1. k = n + 1
          BY <3>1
        <5> HIDE DEF k, n
        <5> QED  BY ONLY <5>1, <1>2
      <4>4. Window[k - 1] < l + 1 /\ Window[k] >= l + 1
        BY <3>1, <4>2, <4>3
      <4> HIDE DEF k, l
      <4> QED  BY <4>4 DEF Ended
    <3>2. CASE ~ends
      <4>1. (n = 0 \/ Window[n - 1] < l) /\ Window[n] >= l /\ Window[n] # l
        BY <1>4, <3>2 DEF Ended
      <4>2. Window[n] \in Nat /\ (n # 0 => Window[n - 1] \in Nat)
        <5>1. n \in 0..NumOffload - 1 /\ (n # 0 => n - 1 \in 0..NumOffload - 1)
          BY ONLY <1>2, <1>3
        <5> QED  BY <5>1, WindowFacts
      <4>3. (n = 0 \/ Window[n - 1] < l + 1) /\ Window[n] >= l + 1
        BY ONLY <1>2, <4>1, <4>2
      <4> QED  BY <3>2, <4>3 DEF Ended
    <3> QED  BY <3>1, <3>2
  <2>4. group_offload_mapping' = 0..k
    <3>1. group_offload_mapping' = (IF l = 0 THEN {} ELSE 0..n)
             \union (IF l = 0 THEN {0} ELSE {}) \union (IF ends THEN {n + 1} ELSE {})
      BY <1>4, <1>11, <2>1
    <3>2. l = 0 => n = 0
      BY ONLY <1>2
    <3>3. 0..n = (IF l = 0 THEN {} ELSE 0..n) \union (IF l = 0 THEN {0} ELSE {})
      BY ONLY <1>2, <3>2
    <3>4. 0..n + 1 = 0..n \cup {n + 1}
      BY ONLY <1>2
    <3> QED  BY ONLY <3>1, <3>3, <3>4
  <2>5. tag_to_buf' = {h \in 0..l : k <= h /\ h < NumOffload}
    BY <1>17
  <2>6. \A h \in Groups :
          tag_to_state'[h] = IF h \notin 0..l THEN "none"
                             ELSE IF h < l + 1 /\ h <= k /\ Moved(h) THEN "tuple" ELSE "saved"
    <3> TAKE h \in Groups
    <3>1. tag_to_state'[h] = IF h \in moved THEN "tuple" ELSE tag_to_state[h]
      BY <1>12
    <3>2. h \in Nat /\ (h \in 0..l <=> h <= l) /\ (h \in 0..l <=> h < l + 1)
      BY ONLY <1>2, <1>3, h \in Groups
    <3>3. tag_to_state[h] = IF h \notin 0..l THEN "none"
                            ELSE IF h < l /\ h <= n /\ Moved(h) THEN "tuple" ELSE "saved"
      BY <1>4
    <3>4. Moved(h) <=> h < NumOffload /\ (NumOffload < NumLayers \/ h = 0)
      BY DEF Moved
    <3>5. CASE h \in moved
      <4>1. tag_to_state[h] = "saved"
        BY <1>13, <3>5
      <4>2. h \in 0..l
        BY <3>3, <4>1
      <4>3. CASE h = 0
        <5>1. h <= k /\ h < NumOffload
          BY ONLY <1>2, <1>3, <4>3
        <5> QED  BY <3>1, <3>2, <3>4, <3>5, <4>2, <4>3, <5>1
      <4>4. CASE h # 0
        <5>1. more /\ h = n + 1
          BY <3>5, <4>4
        <5>2. h <= k /\ h < NumOffload /\ NumOffload < NumLayers
          <6>1. h <= l
            BY <3>2, <4>2
          <6> QED  BY ONLY <1>2, <1>3, <5>1, <6>1
        <5> QED  BY <3>1, <3>2, <3>4, <3>5, <4>2, <5>2
      <4> QED  BY <4>3, <4>4
    <3>6. CASE h \notin moved
      <4>1. tag_to_state'[h] = tag_to_state[h]
        BY <3>1, <3>6
      <4>2. CASE h \notin 0..l
        BY <3>3, <4>1, <4>2
      <4>3. CASE h \in 0..l
        <5>1. h < l /\ h <= n /\ Moved(h) => h < l + 1 /\ h <= k
          BY ONLY <1>2, <3>2
        <5>2. ASSUME h < l + 1, h <= k, Moved(h)  PROVE h < l /\ h <= n
          <6>1. ~(l = 0 /\ h = 0)
            BY <3>6
          <6>2. ~(more /\ h = n + 1)
            <7>1. ASSUME more, h = n + 1 PROVE FALSE
              <8>1. tag_to_state[h] = "saved"
                BY <1>2, <3>3, <4>3, <7>1
              <8> QED  BY <3>6, <7>1, <8>1
            <7> QED  BY <7>1
          <6>3. h <= n
            BY ONLY <1>2, <2>1, <3>2, <5>2, <6>2
          <6>4. NumOffload < NumLayers \/ h = 0
            BY <3>4, <5>2
          <6>5. h < l
            BY ONLY <1>2, <1>3, <3>2, <5>2, <6>1, <6>3, <6>4
          <6> QED  BY <6>3, <6>5
        <5> QED  BY <3>3, <4>1, <4>3, <5>1, <5>2
      <4> QED  BY <4>2, <4>3
    <3> QED  BY <3>5, <3>6
  <2>7. AheadInv'
    <3>1. \A h : Moved(h)' = Moved(h)
      BY DEF Moved
    <3>2. Ended(k, l + 1) = (Ended(offloaded_group_count, current_group))'
      BY <2>1 DEF Ended, Window
    <3> DEFINE g1 == current_group'
               n1 == offloaded_group_count'
    <3>3. g1 = l + 1 /\ n1 = k
      BY <2>1
    <3> HIDE DEF k, l, n, g1, n1
    <3>4. 0..g1 - 1 = 0..l /\ g1 # 0
      BY ONLY <1>2, <3>3
    <3>5. /\ g1 \in 0..NumLayers - 1 /\ n1 \in 0..NumOffload - 1
          /\ group_offload_mapping' = IF g1 = 0 THEN {} ELSE 0..n1
          /\ tag_to_buf' = {h \in 0..g1 - 1 : n1 <= h /\ h < NumOffload}
          /\ \A h \in Groups :
               tag_to_state'[h] = IF h \notin 0..g1 - 1 THEN "none"
                                  ELSE IF h < g1 /\ h <= n1 /\ Moved(h)' THEN "tuple" ELSE "saved"
      BY <2>2, <2>4, <2>5, <2>6, <3>1, <3>3, <3>4
    <3>6. Ended(offloaded_group_count, current_group)' /\ host' # "commit forward"
      BY <2>1, <2>3, <3>2
    <3> QED  BY <3>5, <3>6 DEF AheadInv, g1, n1
  <2>8. host' = "forward"
    BY <2>1
  <2> HIDE DEF k, l, n, ends, more, moved, free, starts
  <2> QED  BY ONLY <2>7, <2>8 DEF HostInv
<1>20. ASSUME l + 1 = NumLayers
       PROVE  HostInv'
  <2>1. /\ host' = "commit backward" /\ current_group' = NumLayers /\ offloaded_group_count' = NumOffload
        /\ ends /\ ~more /\ n = NumOffload - 1 /\ n + 1 = NumOffload /\ l = NumLayers - 1
    <3>1. ends /\ ~more
      BY <1>15, <1>20
    <3>2. n = NumOffload - 1 /\ n + 1 = NumOffload /\ l = NumLayers - 1
      BY ONLY <1>2, <1>3, <3>1, <1>20
    <3> QED  BY <1>11, <1>20, <3>1, <3>2
  <2>2. /\ NumLayers \in 1..NumLayers /\ NumLayers # 0 /\ NumOffload \in 1..NumOffload
        /\ NumLayers - 1 < NumLayers /\ 0..l = 0..NumLayers - 1
    <3>1. l = NumLayers - 1
      BY <2>1
    <3> HIDE DEF l
    <3> QED  BY ONLY <1>3, <3>1
  <2>3. \A i \in 0..NumOffload - 1 : Window[i] < NumLayers
    <3> TAKE i \in 0..NumOffload - 1
    <3>1. i = NumOffload - 1 \/ i < NumOffload - 1
      BY ONLY <1>3, i \in 0..NumOffload - 1
    <3>2. NumOffload - 1 \in 0..NumOffload - 1
      BY ONLY <1>3
    <3>3. Window[i] \in Nat /\ (Window[i] = NumLayers - 1 \/ Window[i] < NumLayers - 1)
      BY <3>1, <3>2, WindowFacts
    <3> QED  BY ONLY <1>3, <3>3
  <2>4. group_offload_mapping' = {i \in 0..NumOffload - 1 : Window[i] < NumLayers}
    <3>1. group_offload_mapping' = (IF l = 0 THEN {} ELSE 0..n) \union (IF l = 0 THEN {0} ELSE {})
      BY <1>4, <1>11, <2>1
    <3>2. (IF l = 0 THEN {} ELSE 0..n) \union (IF l = 0 THEN {0} ELSE {}) = 0..n
      BY ONLY <1>2
    <3> QED  BY <2>1, <2>3, <3>1, <3>2
  <2>5. tag_to_buf' = {}
    <3>1. tag_to_buf' = {h \in 0..l : n + 1 <= h /\ h < NumOffload}
      BY <1>17, <2>1
    <3>2. \A h \in 0..l : ~(NumOffload <= h /\ h < NumOffload)
      BY ONLY <1>2, <1>3
    <3> QED  BY <2>1, <3>1, <3>2
  <2>6. \A h \in Groups :
          tag_to_state'[h] = IF h \notin 0..NumLayers - 1 THEN "none"
                             ELSE IF ~Moved(h) THEN "saved"
                             ELSE IF Window[h] < NumLayers THEN "tuple" ELSE "loaded"
    <3> TAKE h \in Groups
    <3>1. tag_to_state'[h] = IF l = 0 /\ h = 0 THEN "tuple" ELSE tag_to_state[h]
      BY <1>12, <2>1
    <3>8. n = NumOffload - 1 /\ l = NumLayers - 1
      BY <2>1
    <3>2. h \in Nat /\ h <= l /\ h \in 0..l /\ h \in 0..NumLayers - 1
      <4> HIDE DEF l
      <4> QED  BY ONLY <1>3, <3>8, h \in Groups
    <3>3. tag_to_state[h] = IF h < l /\ h <= n /\ Moved(h) THEN "tuple" ELSE "saved"
      BY <1>4, <3>2
    <3>4. Moved(h) <=> h < NumOffload /\ (NumOffload < NumLayers \/ h = 0)
      BY DEF Moved
    <3>5. Moved(h) => h \in 0..NumOffload - 1 /\ h <= n
      <4> HIDE DEF n, l
      <4> QED  BY ONLY <1>3, <3>8, <3>2, <3>4
    <3>6. Moved(h) /\ ~(l = 0 /\ h = 0) => h < l
      <4> SUFFICES ASSUME Moved(h), ~(l = 0 /\ h = 0) PROVE h < l
        OBVIOUS
      <4>1. h <= n /\ (NumOffload < NumLayers \/ h = 0)
        BY <3>4, <3>5
      <4>2. n < NumOffload /\ (NumOffload < NumLayers => n < l \/ l = 0) /\ n = NumOffload - 1
        BY <1>2, <3>8
      <4> HIDE DEF n, l
      <4> QED  BY ONLY <1>3, <3>8, <3>2, <4>1, <4>2, ~(l = 0 /\ h = 0)
    <3>7. l = 0 /\ h = 0 => Moved(h)
      BY ONLY <1>3, <3>4
    <3> QED  BY <2>3, <3>1, <3>2, <3>3, <3>5, <3>6, <3>7
  <2>7. BackInv'
    <3>1. \A h : Moved(h)' = Moved(h)
      BY DEF Moved
    <3> QED  BY <2>1, <2>2, <2>4, <2>5, <2>6, <3>1 DEF BackInv, Window
  <2>8. host' = "commit backward"
    BY <2>1
  <2> HIDE DEF l, n, ends, more, moved, free, starts
  <2> QED  BY ONLY <2>7, <2>8 DEF HostInv
<1>21. /\ ends => tag_to_state'[n] = "tuple" \/ <<"gpu", n>> \notin released' \ released
       /\ released' = released \cup {<<"gpu", n>>} \/ released' = released
       /\ released' # released => ends
  <2>1. free => tag_to_state'[n] = "tuple"
    <3> SUFFICES ASSUME free PROVE tag_to_state'[n] = "tuple"
      OBVIOUS
    <3>1. n \in Groups /\ marks[n] = "tuple"
      BY <1>2
    <3>2. n \in moved \/ tag_to_state[n] = "tuple"
      BY <1>9, <3>1
    <3> QED  BY <1>12, <3>1, <3>2
  <2> QED  BY <1>11, <2>1
<1> QED  BY <1>11, <1>12, <1>13, <1>14, <1>15, <1>16, <1>19, <1>20, <1>21, <1>22 DEF waited, begun

\* Where the backward pass stands: only the window of the last copied group that is still
\* to be reloaded may begin at the layer that is next.
LEMMA BackFacts ==
  ASSUME OffloadAssumption, OffloadInv, host = "commit backward"
  PROVE  LET c == current_group
             n == offloaded_group_count - 1
         IN /\ BackInv /\ ~Forwards
            /\ c \in Nat /\ n \in Nat /\ c > 0 /\ c <= NumLayers /\ c - 1 \in Nat /\ c - 1 \in Groups
            /\ n < NumOffload /\ n \in Groups /\ n \in DOMAIN Window /\ offloaded_group_count = n + 1
            /\ \A i \in 0..NumOffload - 1 : Window[i] \in Nat /\ (Window[i] = c - 1 => i = n)
            /\ n = 0 \/ Window[n] < c
            /\ n + 1 = NumOffload \/ Window[n + 1] >= c
            /\ Window[n] = c - 1 => n <= c - 1
<1> DEFINE c == current_group
           m == offloaded_group_count
           n == m - 1
<1>1. BackInv /\ ~Forwards
  BY DEF OffloadInv, HostInv, Forwards
<1>2. /\ NumLayers \in Nat \ {0} /\ NumOffload \in Nat \ {0} /\ NumOffload <= NumLayers
      /\ Groups = 0..NumLayers - 1 /\ DOMAIN Window = 0..NumOffload - 1
  BY Sizes
<1>3. /\ c \in 1..NumLayers
      /\ IF c = 0 THEN m = 0 ELSE m \in 1..NumOffload /\ (m = 1 \/ Window[m - 1] < c)
                                  /\ (m = NumOffload \/ Window[m] >= c)
  BY <1>1 DEF BackInv
<1> HIDE DEF c, m
<1>4. /\ c \in Nat /\ c > 0 /\ c <= NumLayers /\ c - 1 \in Nat /\ c - 1 \in 0..NumLayers - 1
      /\ m \in 1..NumOffload /\ (m = 1 \/ Window[m - 1] < c) /\ (m = NumOffload \/ Window[m] >= c)
  BY ONLY <1>2, <1>3
<1>5. /\ n \in Nat /\ n < NumOffload /\ n \in 0..NumLayers - 1 /\ n \in 0..NumOffload - 1 /\ m = n + 1
      /\ m = 1 <=> n = 0
  BY ONLY <1>2, <1>4
<1>6. /\ n = 0 \/ Window[n] < c
      /\ n + 1 = NumOffload \/ Window[n + 1] >= c
  BY <1>4, <1>5
<1> HIDE DEF n
<1>7. \A i \in 0..NumOffload - 1 : Window[i] \in Nat /\ (Window[i] = c - 1 => i = n)
  <2> TAKE i \in 0..NumOffload - 1
  <2>1. Window[i] \in Nat /\ Window[n] \in Nat
    BY <1>5, WindowFacts
  <2>2. ASSUME i < n PROVE Window[i] # c - 1
    <3>1. Window[i] < Window[n]
      BY <1>5, <2>2, WindowFacts
    <3>2. i \in Nat
      BY ONLY <1>2, i \in 0..NumOffload - 1
    <3> QED  BY ONLY <1>4, <1>5, <1>6, <2>1, <2>2, <3>1, <3>2
  <2>3. ASSUME i > n PROVE Window[i] # c - 1
    <3>1. n + 1 \in 0..NumOffload - 1 /\ n + 1 # NumOffload /\ (i = n + 1 \/ n + 1 < i)
      BY ONLY <1>2, <1>5, <2>3, i \in 0..NumOffload - 1
    <3>2. Window[n + 1] \in Nat /\ (i = n + 1 \/ Window[n + 1] < Window[i])
      BY <3>1, WindowFacts
    <3>3. Window[n + 1] >= c
      BY <1>6, <3>1
    <3>4. Window[i] >= c
      BY ONLY <1>4, <2>1, <3>2, <3>3
    <3> QED  BY ONLY <1>4, <2>1, <3>4
  <2>4. i \in Nat
    BY ONLY <1>2, i \in 0..NumOffload - 1
  <2>5. i < n \/ i = n \/ i > n
    BY ONLY <1>5, <2>4
  <2> QED  BY <2>1, <2>2, <2>3, <2>5
<1>8. Window[n] = c - 1 => n <= c - 1
  BY <1>5, WindowFacts
<1> QED  BY <1>1, <1>2, <1>4, <1>5, <1>6, <1>7, <1>8 DEF c, n, m

\* Before a layer of the backward pass: the group whose window begins is on the host, and
\* nothing is looked up that is not there.
LEMMA CommitBackwardHost ==
  ASSUME OffloadAssumption, OffloadInv, CommitBackward
  PROVE  LET l == current_group - 1
             n == offloaded_group_count - 1
             begins == Window[n] = l
             moves == begins /\ tag_to_state[n] = "tuple"
             waited == IF begins THEN Both(work, "h2d") ELSE work
             reloaded == IF moves THEN Do(waited, "h2d", "reload", <<"back", n>>) ELSE waited
         IN /\ HostInv' /\ host = "commit backward" /\ host' = "backward"
            /\ work' = IF l = 0 THEN WaitStream(reloaded, "compute", "h2d") ELSE reloaded
            /\ released' = released \ IF moves THEN Pool("h2d") ELSE {}
            /\ \A h \in Groups : tag_to_state'[h] = IF moves /\ h = n THEN "loaded" ELSE tag_to_state[h]
            /\ tag_to_state' \in [Groups -> {"none", "saved", "tuple", "loaded"}]
            /\ current_group' = l /\ UNCHANGED <<pass, memory>>
<1> DEFINE c == current_group
           l == c - 1
           m == offloaded_group_count
           n == m - 1
           begins == Window[n] = l
           moves == begins /\ tag_to_state[n] = "tuple"
           waited == IF begins THEN Both(work, "h2d") ELSE work
           reloaded == IF moves THEN Do(waited, "h2d", "reload", <<"back", n>>) ELSE waited
<1>1. host = "commit backward"
  BY DEF CommitBackward
<1>2. /\ BackInv
      /\ c \in Nat /\ n \in Nat /\ c > 0 /\ c <= NumLayers /\ l \in Nat /\ l \in Groups
      /\ n < NumOffload /\ n \in Groups /\ n \in DOMAIN Window /\ m = n + 1
      /\ \A i \in 0..NumOffload - 1 : Window[i] \in Nat /\ (Window[i] = l => i = n)
      /\ n = 0 \/ Window[n] < c
      /\ n + 1 = NumOffload \/ Window[n + 1] >= c
      /\ Window[n] = l => n <= l
  BY <1>1, BackFacts
<1>3. /\ NumLayers \in Nat \ {0} /\ NumOffload \in Nat \ {0} /\ NumOffload <= NumLayers
      /\ Groups = 0..NumLayers - 1 /\ DOMAIN Window = 0..NumOffload - 1
  BY Sizes
<1>4. /\ group_offload_mapping = {i \in 0..NumOffload - 1 : Window[i] < c}
      /\ tag_to_buf = {}
      /\ \A h \in Groups :
           tag_to_state[h] = IF h \notin 0..c - 1 THEN "none"
                             ELSE IF ~Moved(h) THEN "saved"
                             ELSE IF Window[h] < c THEN "tuple" ELSE "loaded"
  BY <1>1, <1>2 DEF BackInv
<1>5. tag_to_state \in [Groups -> {"none", "saved", "tuple", "loaded"}]
  BY DEF OffloadInv, OffloadTypeOK
<1> HIDE DEF waited, reloaded
<1>6. begins => n \in group_offload_mapping
  <2>1. l < c
    BY ONLY <1>2
  <2> QED  BY <1>2, <1>3, <1>4, <2>1
<1>7. ~(l < 0)
  BY ONLY <1>2
<1>8. /\ work' = IF l = 0 THEN WaitStream(reloaded, "compute", "h2d") ELSE reloaded
      /\ released' = released \ IF moves THEN Pool("h2d") ELSE {}
      /\ tag_to_state' = IF moves THEN [tag_to_state EXCEPT ![n] = "loaded"] ELSE tag_to_state
      /\ group_offload_mapping' =
            IF begins THEN group_offload_mapping \ {n} ELSE group_offload_mapping
      /\ offloaded_group_count' = IF l = 0 THEN 0 ELSE IF begins /\ n > 0 THEN n ELSE n + 1
      /\ current_group' = l
      /\ host' = "backward"
      /\ UNCHANGED <<pass, tag_to_buf, memory>>
  BY <1>2, <1>6, <1>7 DEF CommitBackward, waited, reloaded
<1>9. \A h \in Groups : tag_to_state'[h] = IF moves /\ h = n THEN "loaded" ELSE tag_to_state[h]
  <2> HIDE DEF n, l, moves
  <2> QED  BY <1>2, <1>5, <1>8
<1>10. tag_to_state' \in [Groups -> {"none", "saved", "tuple", "loaded"}]
  <2> HIDE DEF n, l, moves
  <2> QED  BY <1>2, <1>5, <1>8
<1> DEFINE m1 == IF l = 0 THEN 0 ELSE IF begins /\ n > 0 THEN n ELSE n + 1
<1>11. IF l = 0 THEN m1 = 0
       ELSE m1 \in 1..NumOffload /\ (m1 = 1 \/ Window[m1 - 1] < l) /\ (m1 = NumOffload \/ Window[m1] >= l)
  <2> SUFFICES ASSUME l # 0
               PROVE  m1 \in 1..NumOffload /\ (m1 = 1 \/ Window[m1 - 1] < l)
                      /\ (m1 = NumOffload \/ Window[m1] >= l)
    OBVIOUS
  <2>1. n \in 0..NumOffload - 1 /\ (n > 0 => n - 1 \in 0..NumOffload - 1 /\ n - 1 < n)
        /\ (n + 1 # NumOffload => n + 1 \in 0..NumOffload - 1 /\ n < n + 1)
    <3> HIDE DEF n
    <3> QED  BY ONLY <1>2, <1>3
  <2>2. /\ Window[n] \in Nat
        /\ n > 0 => Window[n - 1] \in Nat /\ Window[n - 1] < Window[n]
        /\ n + 1 # NumOffload => Window[n + 1] \in Nat /\ Window[n] < Window[n + 1]
    <3> HIDE DEF n
    <3> QED  BY <2>1, WindowFacts
  <2>3. CASE begins /\ n > 0
    <3>1. m1 = n
      BY <2>3
    <3>2. n \in 1..NumOffload /\ Window[n - 1] < l /\ Window[n] >= l
      <4>1. Window[n] = l /\ l \in Nat
        BY <1>2, <2>3
      <4> HIDE DEF n, l
      <4> QED  BY ONLY <1>2, <1>3, <2>2, <2>3, <4>1
    <3> HIDE DEF m1
    <3> QED  BY <3>1, <3>2
  <2>4. CASE begins /\ ~(n > 0)
    <3>1. m1 = 1 /\ n = 0 /\ n + 1 = 1
      <4>1. n = 0
        BY ONLY <1>2, <2>4
      <4>2. m1 = n + 1
        BY <2>4
      <4> HIDE DEF m1, n
      <4> QED  BY ONLY <4>1, <4>2
    <3>2. 1 \in 1..NumOffload /\ (1 = NumOffload \/ Window[1] >= l)
      <4>1. Window[n] = l /\ l \in Nat
        BY <1>2, <2>4
      <4> HIDE DEF n, l, m1
      <4>2. n + 1 # NumOffload => Window[n + 1] >= l
        BY ONLY <2>2, <4>1
      <4> QED  BY <1>3, <3>1, <4>2
    <3> HIDE DEF m1
    <3> QED  BY <3>1, <3>2
  <2>5. CASE ~begins
    <3>1. m1 = n + 1
      BY <2>5
    <3> DEFINE k == n + 1
    <3>2. k \in 1..NumOffload /\ k - 1 = n /\ (k = 1 <=> n = 0)
      <4> HIDE DEF n
      <4> QED  BY ONLY <1>2, <1>3
    <3>3. n = 0 \/ Window[n] < l
      <4>1. Window[n] # l /\ l = c - 1
        BY <2>5
      <4> HIDE DEF n, l, c
      <4> QED  BY ONLY <1>2, <2>2, <4>1
    <3>4. k = NumOffload \/ Window[k] >= l
      <4>1. n + 1 # NumOffload => Window[n + 1] >= l
        <5>1. l = c - 1
          OBVIOUS
        <5> HIDE DEF n, l, c
        <5> QED  BY ONLY <1>2, <2>2, <5>1
      <4> QED  BY <4>1
    <3>5. m1 = k
      BY <3>1
    <3> HIDE DEF k, m1, n, l
    <3> QED  BY <3>2, <3>3, <3>4, <3>5
  <2> QED  BY <2>3, <2>4, <2>5
<1>12. \A i \in 0..NumOffload - 1 : Window[i] < c <=> Window[i] < l \/ (begins /\ i = n)
  <2> TAKE i \in 0..NumOffload - 1
  <2>1. Window[i] \in Nat /\ (Window[i] = l => i = n) /\ l = c - 1
    BY <1>2
  <2>2. begins /\ i = n => Window[i] = l
    OBVIOUS
  <2>3. Window[i] = l => begins /\ i = n
    BY <2>1
  <2> HIDE DEF begins, n, l, c
  <2> QED  BY ONLY <1>2, <2>1, <2>2, <2>3
<1>13. begins => Window[n] = l /\ ~(l < l)
  BY ONLY <1>2
<1>14. group_offload_mapping' = {i \in 0..NumOffload - 1 : Window[i] < l}
  <2>1. group_offload_mapping = {i \in 0..NumOffload - 1 : Window[i] < c}
    BY <1>4
  <2>2. group_offload_mapping' = IF begins THEN group_offload_mapping \ {n} ELSE group_offload_mapping
    BY <1>8
  <2> HIDE DEF begins, n, l, c
  <2> QED  BY ONLY <1>12, <1>13, <2>1, <2>2
<1>15. \A h \in Groups :
         tag_to_state'[h] = IF h \notin 0..l THEN "none"
                            ELSE IF ~Moved(h) THEN "saved"
                            ELSE IF Window[h] < l THEN "tuple" ELSE "loaded"
  <2> TAKE h \in Groups
  <2>1. tag_to_state[h] = IF h \notin 0..l THEN "none"
                          ELSE IF ~Moved(h) THEN "saved"
                          ELSE IF Window[h] < c THEN "tuple" ELSE "loaded"
    BY <1>4
  <2>2. tag_to_state'[h] = IF moves /\ h = n THEN "loaded" ELSE tag_to_state[h]
    BY <1>9
  <2>3. Moved(h) => h \in 0..NumOffload - 1
    BY ONLY <1>3, h \in Groups DEF Moved
  <2>4. Moved(h) => (Window[h] < c <=> Window[h] < l \/ (begins /\ h = n))
    BY <1>12, <2>3
  <2>5. CASE moves /\ h = n
    <3>1. tag_to_state[h] = "tuple" /\ begins
      BY <2>5
    <3>2. h \in 0..l /\ Moved(h)
      BY <2>1, <3>1
    <3>3. ~(Window[h] < l)
      BY <1>13, <2>5, <3>1
    <3> QED  BY <2>2, <2>5, <3>2, <3>3
  <2>6. CASE ~(moves /\ h = n)
    <3>1. tag_to_state'[h] = tag_to_state[h]
      BY <2>2, <2>6
    <3>2. h \in 0..l /\ Moved(h) => (Window[h] < c <=> Window[h] < l)
      <4> SUFFICES ASSUME h \in 0..l, Moved(h), ~(Window[h] < c <=> Window[h] < l) PROVE FALSE
        OBVIOUS
      <4>1. begins /\ h = n /\ Window[h] < c
        BY <2>4
      <4>2. tag_to_state[h] = "tuple"
        BY <2>1, <4>1
      <4> QED  BY <2>6, <4>1, <4>2
    <3> HIDE DEF l, c, n, moves
    <3> QED  BY <2>1, <3>1, <3>2
  <2> QED  BY <2>5, <2>6
<1>16. HostInv'
  <2> DEFINE c1 == current_group'
             q == offloaded_group_count'
  <2>1. c1 = l /\ q = m1 /\ host' = "backward" /\ tag_to_buf' = {}
    BY <1>4, <1>8
  <2>2. l \in 0..NumLayers - 1
    BY <1>2, <1>3
  <2>3. \A h : Moved(h)' = Moved(h)
    BY DEF Moved
  <2> HIDE DEF c1, q, l, m1
  <2>4. /\ c1 \in 0..NumLayers - 1
        /\ IF c1 = 0 THEN q = 0
           ELSE q \in 1..NumOffload /\ (q = 1 \/ Window[q - 1] < c1) /\ (q = NumOffload \/ Window[q] >= c1)
        /\ group_offload_mapping' = {i \in 0..NumOffload - 1 : Window[i] < c1}
        /\ \A h \in Groups :
             tag_to_state'[h] = IF h \notin 0..c1 THEN "none"
                                ELSE IF ~Moved(h)' THEN "saved"
                                ELSE IF Window[h] < c1 THEN "tuple" ELSE "loaded"
    BY <1>11, <1>14, <1>15, <2>1, <2>2, <2>3
  <2>5. BackInv'
    BY <2>1, <2>4 DEF BackInv, Window, c1, q
  <2> QED  BY ONLY <2>1, <2>5 DEF HostInv
<1> QED  BY <1>1, <1>8, <1>9, <1>10, <1>16 DEF waited, reloaded
\* A layer of the backward pass finds its activations on the device, and if they were
\* reloaded, an earlier wait covers the reload; after the first layer nothing is held.
LEMMA BackwardHost ==
  ASSUME OffloadAssumption, OffloadInv, LayerBackward
  PROVE  LET l == current_group
         IN /\ HostInv' /\ host = "backward" /\ l \in Groups
            /\ tag_to_state[l] \in {"saved", "loaded"}
            /\ tag_to_state[l] = "loaded" => ~(IF l = 0 THEN l > 0 ELSE l > Window[l - 1])
            /\ l # 0 => ~Forwards'
            /\ l = 0 => \A h \in Groups : tag_to_state'[h] = "none"
            /\ l # 0 => pass' = pass
            /\ pass' \in 1..Passes
            /\ work' = Do(work, "compute", "backward", Block(l))
            /\ released' = (released \ Pool("compute")) \union {Block(l)}
            /\ \A h \in Groups : tag_to_state'[h] = IF h = l THEN "none" ELSE tag_to_state[h]
            /\ tag_to_state' \in [Groups -> {"none", "saved", "tuple", "loaded"}]
            /\ UNCHANGED <<current_group, offloaded_group_count, group_offload_mapping, memory>>
<1> DEFINE l == current_group
           m == offloaded_group_count
<1>1. host = "backward" /\ BackInv
  BY DEF LayerBackward, OffloadInv, HostInv
<1>2. /\ NumLayers \in Nat \ {0} /\ NumOffload \in Nat \ {0} /\ NumOffload <= NumLayers
      /\ Groups = 0..NumLayers - 1 /\ DOMAIN Window = 0..NumOffload - 1
  BY Sizes
<1>3. /\ l \in 0..NumLayers - 1
      /\ IF l = 0 THEN m = 0
         ELSE m \in 1..NumOffload /\ (m = 1 \/ Window[m - 1] < l) /\ (m = NumOffload \/ Window[m] >= l)
      /\ group_offload_mapping = {i \in 0..NumOffload - 1 : Window[i] < l}
      /\ tag_to_buf = {}
      /\ \A h \in Groups :
           tag_to_state[h] = IF h \notin 0..l THEN "none"
                             ELSE IF ~Moved(h) THEN "saved"
                             ELSE IF Window[h] < l THEN "tuple" ELSE "loaded"
  BY <1>1 DEF BackInv
<1>4. tag_to_state \in [Groups -> {"none", "saved", "tuple", "loaded"}] /\ pass \in 1..Passes
  BY DEF OffloadInv, OffloadTypeOK
<1>5. l \in Groups /\ l \in Nat /\ l \in 0..l
  <2>1. l \in Groups
    BY <1>2, <1>3
  <2> HIDE DEF l
  <2>2. l \in Nat
    BY ONLY <1>2, <1>3
  <2> QED  BY ONLY <2>1, <2>2
<1>6. Moved(l) => /\ l \in 0..NumOffload - 1 /\ Window[l] \in Nat /\ ~(Window[l] < l)
                  /\ l # 0 => Window[l - 1] >= l
  <2> SUFFICES ASSUME Moved(l)
               PROVE  /\ l \in 0..NumOffload - 1 /\ Window[l] \in Nat /\ ~(Window[l] < l)
                      /\ l # 0 => Window[l - 1] >= l
    OBVIOUS
  <2>1. l < NumOffload /\ (NumOffload < NumLayers \/ l = 0)
    BY DEF Moved
  <2> HIDE DEF l
  <2>2. l \in 0..NumOffload - 1 /\ (l # 0 => l - 1 \in 0..NumOffload - 1 /\ l - 1 + 1 = l)
    BY ONLY <1>2, <1>5, <2>1
  <2>3. Window[l] \in Nat /\ Window[l] >= l
    BY <2>2, WindowFacts
  <2>4. ~(Window[l] < l)
    BY ONLY <1>5, <2>3
  <2>5. l # 0 => Window[l - 1] >= l - 1 + 1
    BY <2>1, <2>2, WindowFacts
  <2> QED  BY <2>2, <2>3, <2>4, <2>5
<1>7. tag_to_state[l] = IF Moved(l) THEN "loaded" ELSE "saved"
  BY <1>3, <1>5, <1>6
<1>8. tag_to_state[l] = "loaded" => ~(IF l = 0 THEN l > 0 ELSE l > Window[l - 1])
  <2> SUFFICES ASSUME Moved(l) PROVE ~(IF l = 0 THEN l > 0 ELSE l > Window[l - 1])
    BY <1>7
  <2>1. l # 0 => l - 1 \in 0..NumOffload - 1
    <3> HIDE DEF l
    <3> QED  BY ONLY <1>2, <1>5, <1>6, Moved(l)
  <2>2. l # 0 => Window[l - 1] \in Nat /\ Window[l - 1] >= l
    BY <1>6, <2>1, WindowFacts
  <2> HIDE DEF l
  <2> QED  BY ONLY <1>5, <2>2
<1>9. /\ work' = Do(work, "compute", "backward", Block(l))
      /\ released' = (released \ Pool("compute")) \union {Block(l)}
      /\ tag_to_state' = [tag_to_state EXCEPT ![l] = "none"]
      /\ tag_to_buf' = tag_to_buf \ {l}
      /\ pass' = IF l = 0 /\ pass < Passes THEN pass + 1 ELSE pass
      /\ host' = CASE l > 0 -> "commit backward"
                   [] l = 0 /\ pass < Passes -> "forward"
                   [] OTHER -> "done"
      /\ UNCHANGED <<current_group, offloaded_group_count, group_offload_mapping, memory>>
  <2>1. tag_to_state[l] \in {"saved", "loaded"}
    BY <1>7
  <2> QED  BY <2>1 DEF LayerBackward
<1>10. \A h \in Groups : tag_to_state'[h] = IF h = l THEN "none" ELSE tag_to_state[h]
  <2> HIDE DEF l
  <2> QED  BY <1>4, <1>5, <1>9
<1>11. tag_to_state' \in [Groups -> {"none", "saved", "tuple", "loaded"}]
  <2> HIDE DEF l
  <2> QED  BY <1>4, <1>5, <1>9
<1>12. pass' \in 1..Passes
  <2>1. pass' = pass \/ (pass < Passes /\ pass' = pass + 1)
    BY <1>9
  <2>2. Passes \in Nat
    BY Sizes
  <2> QED  BY ONLY <1>4, <2>1, <2>2
<1>13. l = 0 => \A h \in Groups : tag_to_state'[h] = "none"
  <2> SUFFICES ASSUME l = 0, NEW h \in Groups PROVE tag_to_state'[h] = "none"
    OBVIOUS
  <2>1. h # 0 => h \notin 0..0
    OBVIOUS
  <2>2. h # 0 => tag_to_state[h] = "none"
    BY <1>3, <2>1
  <2> QED  BY <1>10, <2>2
<1>14. tag_to_buf' = {}
  BY <1>3, <1>9
<1>15. ASSUME l # 0
       PROVE  HostInv' /\ host' = "commit backward" /\ pass' = pass
  <2>1. l > 0 /\ l \in 1..NumLayers
    <3> HIDE DEF l
    <3> QED  BY ONLY <1>2, <1>3, <1>15
  <2>2. host' = "commit backward" /\ pass' = pass
    BY <1>9, <1>15, <2>1
  <2>3. \A h \in Groups :
          tag_to_state'[h] = IF h \notin 0..l - 1 THEN "none"
                             ELSE IF ~Moved(h) THEN "saved"
                             ELSE IF Window[h] < l THEN "tuple" ELSE "loaded"
    <3> TAKE h \in Groups
    <3>1. h \in 0..l - 1 <=> h \in 0..l /\ h # l
      <4> HIDE DEF l
      <4> QED  BY ONLY <1>2, <1>5, h \in Groups
    <3> HIDE DEF l
    <3> QED  BY <1>3, <1>10, <3>1
  <2> DEFINE c1 == current_group'
             q == offloaded_group_count'
  <2>4. c1 = l /\ q = m
    BY <1>9
  <2>5. \A h : Moved(h)' = Moved(h)
    BY DEF Moved
  <2> HIDE DEF c1, q, l, m
  <2>6. /\ c1 \in 1..NumLayers
        /\ IF c1 = 0 THEN q = 0
           ELSE q \in 1..NumOffload /\ (q = 1 \/ Window[q - 1] < c1) /\ (q = NumOffload \/ Window[q] >= c1)
        /\ \A h \in Groups :
             tag_to_state'[h] = IF h \notin 0..c1 - 1 THEN "none"
                                ELSE IF ~Moved(h)' THEN "saved"
                                ELSE IF Window[h] < c1 THEN "tuple" ELSE "loaded"
    BY <1>3, <2>1, <2>3, <2>4, <2>5
  <2>7. group_offload_mapping' = {i \in 0..NumOffload - 1 : Window[i] < c1}
    BY <1>3, <1>9, <2>4
  <2>8. BackInv'
    BY <1>14, <2>2, <2>6, <2>7 DEF BackInv, Window, c1, q
  <2> QED  BY ONLY <2>2, <2>8 DEF HostInv
<1>16. ASSUME l = 0
       PROVE  HostInv'
  <2>1. /\ current_group' = 0 /\ offloaded_group_count' = 0 /\ tag_to_buf' = {}
        /\ host' \in {"forward", "done"}
    <3>1. ~(l > 0)
      BY ONLY <1>16
    <3> QED  BY <1>3, <1>9, <1>14, <1>16, <3>1
  <2>2. group_offload_mapping' = {}
    <3>1. \A i \in 0..NumOffload - 1 : Window[i] \in Nat /\ ~(Window[i] < 0)
      <4>1. \A i \in 0..NumOffload - 1 : Window[i] \in Nat
        BY WindowFacts
      <4>2. \A k \in Nat : ~(k < 0)
        OBVIOUS
      <4> QED  BY <4>1, <4>2
    <3> QED  BY <1>3, <1>9, <1>16, <3>1
  <2>3. host' = "forward" => AheadInv'
    <3> SUFFICES ASSUME host' = "forward" PROVE AheadInv'
      OBVIOUS
    <3>1. 0 \in 0..NumLayers - 1 /\ 0 \in 0..NumOffload - 1 /\ 0..0 - 1 = {}
      BY ONLY <1>2
    <3>2. Window[0] >= 0
      BY <3>1, WindowFacts
    <3>3. Ended(offloaded_group_count, current_group)'
      BY <2>1, <3>2 DEF Ended, Window
    <3> QED  BY <1>13, <1>16, <2>1, <2>2, <3>1, <3>3 DEF AheadInv
  <2>4. host' = "done" => \A h \in Groups : tag_to_state'[h] = "none"
    BY <1>13, <1>16
  <2> QED  BY ONLY <2>1, <2>2, <2>3, <2>4 DEF HostInv
<1>17. tag_to_state[l] \in {"saved", "loaded"}
  BY <1>7
<1>18. l # 0 => ~Forwards' /\ pass' = pass
  BY <1>15 DEF Forwards
<1>19. HostInv'
  BY <1>15, <1>16
<1> HIDE DEF l
<1> QED  BY <1>1, <1>5, <1>8, <1>9, <1>10, <1>11, <1>12, <1>13, <1>17, <1>18, <1>19 DEF l
-----------------------------------------------------------------------------
(* What the host enqueues keeps the invariant.                             *)

\* Where one stream was given one operation more, that is the only new one.
LEMMA OneMore ==
  ASSUME NEW w, NEW x, Grown(w, x), NEW s \in Streams, x[s].issued = w[s].issued + 1,
         \A r \in Streams : r # s => x[r] = w[r]
  PROVE  /\ w[s].issued + 1 \in Pending(x, s) /\ w[s].issued + 1 \in Nat
         /\ \A t \in Streams : \A i \in Pending(x, t) :
              \/ i \in Pending(w, t) /\ i <= w[t].issued /\ Op(x, t, i) = Op(w, t, i)
              \/ t = s /\ i = w[s].issued + 1 /\ i > w[t].issued
<1> DEFINE n == w[s].issued
           k == n + 1
<1>1. /\ n \in Nat /\ x[s].issued = k /\ Past(x, s) = Past(w, s) /\ Past(w, s) \in Nat
      /\ Past(w, s) <= n
  BY GrownFacts, Positions
<1> HIDE DEF n
<1>2. k \in Nat /\ k > n /\ k \in Past(w, s) + 1..k
  BY ONLY <1>1
<1>3. k \in Pending(x, s)
  BY <1>1, <1>2 DEF Pending
<1>4. ASSUME NEW t \in Streams, NEW i \in Pending(x, t), i <= w[t].issued
      PROVE  i \in Pending(w, t) /\ i <= w[t].issued /\ Op(x, t, i) = Op(w, t, i)
  BY <1>4, GrownFacts
<1>5. ASSUME NEW t \in Streams, NEW i \in Pending(x, t), ~(i <= w[t].issued)
      PROVE  t = s /\ i = k /\ i > w[t].issued
  <2>1. /\ QueuesType(x) /\ i \in Nat /\ i <= x[t].issued /\ w[t].issued \in Nat
        /\ x[t].issued \in Nat
    BY GrownFacts, Positions
  <2>2. t = s
    <3> SUFFICES ASSUME t # s PROVE FALSE
      OBVIOUS
    <3>1. x[t].issued = w[t].issued
      OBVIOUS
    <3> QED  BY ONLY <1>5, <2>1, <3>1
  <2>3. w[t].issued = n /\ x[t].issued = k
    BY <1>1, <2>2 DEF n
  <2>4. i = k /\ i > w[t].issued
    BY ONLY <1>1, <1>5, <2>1, <2>3
  <2> QED  BY <2>2, <2>4
<1> QED  BY <1>2, <1>3, <1>4, <1>5 DEF n

\* What the compute stream awaits, and what it was given before, comes before what it is
\* given now.
LEMMA AfterAwaited ==
  ASSUME Grown(work, work'), NEW k \in Nat, k > Issued("compute"), k <= work'["compute"].issued,
         NEW t \in Streams, NEW u \in Nat,
         IF t = "compute" THEN u <= k ELSE Awaited(t, u)
  PROVE  After(work', "compute", k, t, u)
<1>1. /\ Issued("compute") \in Nat /\ work'["compute"].issued \in Nat
      /\ Issued("compute") = work["compute"].issued /\ QueuesType(work')
  BY GrownFacts, Positions, StreamNames DEF Issued
<1>2. k \in 0..work'["compute"].issued /\ Issued("compute") <= k
  BY ONLY <1>1, k \in Nat, k > Issued("compute"), k <= work'["compute"].issued
<1>3. ASSUME t # "compute" PROVE Waits(work', "compute", k, t, u)
  <2>1. Waits(work, "compute", Issued("compute"), t, u)
    BY <1>3 DEF Awaited
  <2>2. Waits(work', "compute", Issued("compute"), t, u)
    BY <1>1, <2>1, WaitsGrow, StreamNames
  <2>3. u <= u
    OBVIOUS
  <2> QED  BY <1>1, <1>2, <2>2, <2>3, WaitsLater, StreamNames
<1> QED  BY <1>2, <1>3 DEF After

\* Where the state of the host fits, its variables have their types.
LEMMA StaysTyped ==
  ASSUME OffloadAssumption, OffloadInv, HostInv', pass' \in 1..Passes,
         tag_to_state' \in [Groups -> {"none", "saved", "tuple", "loaded"}],
         released' \subseteq {"gpu", "back"} \X Groups, memory' = memory
  PROVE  OffloadTypeOK'
<1> DEFINE c == current_group'
           q == offloaded_group_count'
<1>1. /\ NumLayers \in Nat \ {0} /\ NumOffload \in Nat \ {0} /\ NumOffload <= NumLayers
      /\ Groups = 0..NumLayers - 1
  BY Sizes
<1>2. host' \in {"forward", "commit forward", "commit backward", "backward", "done"}
  BY DEF HostInv
<1>3. memory' \in [Blocks -> 0..Passes] /\ released' \subseteq Blocks
  BY DEF OffloadInv, OffloadTypeOK, Blocks
<1>4. ASSUME host' \in {"forward", "commit forward"}
      PROVE  /\ c \in 0..NumLayers /\ q \in 0..NumOffload
             /\ tag_to_buf' \subseteq Groups /\ group_offload_mapping' \subseteq Groups
  <2>1. AheadInv'
    BY <1>4 DEF HostInv
  <2>2. /\ c \in 0..NumLayers - 1 /\ q \in 0..NumOffload - 1
        /\ group_offload_mapping' = IF c = 0 THEN {} ELSE 0..q
        /\ tag_to_buf' \subseteq 0..c \cup 0..c - 1
    BY <2>1 DEF AheadInv
  <2> HIDE DEF c, q
  <2>3. c \in 0..NumLayers /\ q \in 0..NumOffload /\ 0..c \subseteq Groups /\ 0..c - 1 \subseteq Groups
        /\ 0..q \subseteq Groups
    BY ONLY <1>1, <2>2
  <2>4. tag_to_buf' \subseteq Groups /\ group_offload_mapping' \subseteq Groups
    BY ONLY <2>2, <2>3
  <2> QED  BY <2>3, <2>4
<1>5. ASSUME host' \in {"commit backward", "backward"}
      PROVE  /\ c \in 0..NumLayers /\ q \in 0..NumOffload
             /\ tag_to_buf' \subseteq Groups /\ group_offload_mapping' \subseteq Groups
  <2>1. BackInv'
    BY <1>5 DEF HostInv
  <2>2. /\ c \in 0..NumLayers - 1 \/ c \in 1..NumLayers
        /\ q = 0 \/ q \in 1..NumOffload
        /\ group_offload_mapping' \subseteq 0..NumOffload - 1
        /\ tag_to_buf' = {}
    BY <2>1 DEF BackInv
  <2> HIDE DEF c, q
  <2>3. c \in 0..NumLayers /\ q \in 0..NumOffload /\ 0..NumOffload - 1 \subseteq Groups
    BY ONLY <1>1, <2>2
  <2> QED  BY <2>2, <2>3
<1>6. ASSUME host' = "done"
      PROVE  /\ c \in 0..NumLayers /\ q \in 0..NumOffload
             /\ tag_to_buf' \subseteq Groups /\ group_offload_mapping' \subseteq Groups
  <2>1. c = 0 /\ q = 0 /\ tag_to_buf' = {} /\ group_offload_mapping' = {}
    BY <1>6 DEF HostInv
  <2>2. 0 \in 0..NumLayers /\ 0 \in 0..NumOffload
    BY ONLY <1>1
  <2> QED  BY <2>1, <2>2
<1> QED  BY <1>2, <1>3, <1>4, <1>5, <1>6 DEF OffloadTypeOK

\* What a stream has left in a block stays there, if nothing new changes the block.
LEMMA LeftCarried ==
  ASSUME Grown(work, work'), NEW b \in Blocks, NEW p, NEW u \in 0..Issued(Writer(b)),
         Leaves(work, memory, u, b, p),
         \A i \in Pending(work, Writer(b)) : u < i => ~Changes(Op(work, Writer(b), i), b),
         \A i \in Pending(work', Writer(b)) :
            i > Issued(Writer(b)) => ~Changes(Op(work', Writer(b), i), b)
  PROVE  /\ u \in 0..work'[Writer(b)].issued /\ Leaves(work', memory, u, b, p)
         /\ \A i \in Pending(work', Writer(b)) : u < i => ~Changes(Op(work', Writer(b), i), b)
<1> DEFINE t == Writer(b)
<1>1. /\ t \in Streams /\ QueuesType(work') /\ work[t].issued \in Nat /\ work'[t].issued \in Nat
      /\ work[t].issued <= work'[t].issued /\ Issued(t) = work[t].issued
  BY Writers, GrownFacts, Positions DEF Issued
<1>2. Pending(work', t) \subseteq Nat
  BY <1>1, Positions
<1>3. u \in 0..Issued(t)
  OBVIOUS
<1> HIDE DEF t
<1>4. u \in Nat /\ u <= u /\ u \in 0..work[t].issued /\ u \in 0..work'[t].issued
  BY ONLY <1>1, <1>3
<1>5. \A i \in Pending(work', t) : u < i => ~Changes(Op(work', t, i), b)
  <2> TAKE i \in Pending(work', t)
  <2>1. CASE i <= work[t].issued
    BY <1>1, <2>1, GrownFacts DEF t
  <2>2. CASE i > work[t].issued
    BY <1>1, <2>2 DEF t
  <2>3. i \in Nat
    BY <1>2
  <2>4. i <= work[t].issued \/ i > work[t].issued
    BY ONLY <1>1, <2>3
  <2> QED  BY <2>1, <2>2, <2>4
<1>6. \A i \in Pending(work', t) : ~(u < i /\ i <= u)
  BY ONLY <1>2, <1>4
<1>7. Leaves(work', memory, u, b, p)
  BY <1>1, <1>4, <1>6, LeavesGrow DEF t
<1> QED  BY <1>4, <1>5, <1>7 DEF t
\* A layer runs forward: what its kernels overwrite was copied, or nothing is to read it.
LEMMA ForwardKeeps ==
  ASSUME OffloadAssumption, OffloadInv, LayerForward
  PROVE  OffloadInv'
<1> DEFINE l == current_group
           k == Issued("compute") + 1
           op == [kind |-> "forward", block |-> <<"gpu", l>>, value |-> pass, over |-> Pool("compute")]
<1>1. /\ HostInv' /\ tag_to_state[l] = "none" /\ l \in Groups
      /\ host' = "commit forward"
      /\ tag_to_state' = [tag_to_state EXCEPT ![l] = "saved"]
      /\ work' = Do(work, "compute", "forward", <<"gpu", l>>)
      /\ released' = released \ Pool("compute")
      /\ UNCHANGED <<pass, current_group, offloaded_group_count, group_offload_mapping, memory>>
  BY ForwardHost
<1>2. /\ QueuesInv /\ QueuesType(work) /\ pass \in 1..Passes /\ ReadsInv(work, memory)
      /\ tag_to_state \in [Groups -> {"none", "saved", "tuple", "loaded"}]
      /\ HeldInv /\ CopiesInv /\ ReloadsInv
      /\ released \subseteq {"gpu", "back"} \X Groups
      /\ \A s \in Streams : \A i \in Pending(work, s) : Fits(s, Op(work, s, i))
  BY DEF OffloadInv, OffloadTypeOK, QueuesInv
<1> HIDE DEF l
<1>3. /\ Grown(work, work') /\ work'["compute"].issued = k /\ Op(work', "compute", k) = op
      /\ \A r \in Streams : r # "compute" => work'[r] = work[r]
  <2>1. <<"gpu", l>> \in Blocks
    BY <1>1, BlockFacts
  <2>2. "forward" \in CASE "compute" = "compute" -> {"forward", "backward"}
                      [] "compute" = "d2h" -> {"offload"} [] OTHER -> {"reload"}
    OBVIOUS
  <2> DEFINE x == Do(work, "compute", "forward", <<"gpu", l>>)
  <2>3. /\ Grown(work, x) /\ x["compute"].issued = work["compute"].issued + 1
        /\ Op(x, "compute", work["compute"].issued + 1)
             = [kind |-> "forward", block |-> <<"gpu", l>>, value |-> pass,
                over |-> IF "compute" = "d2h" THEN {} ELSE Pool("compute")]
        /\ \A r \in Streams : r # "compute" => x[r] = work[r]
    BY <1>2, <2>1, <2>2, DoPuts, StreamNames
  <2> QED  BY <1>1, <2>3 DEF Issued
<1> HIDE DEF op
<1>4. /\ k \in Pending(work', "compute") /\ k \in Nat
      /\ \A t \in Streams : \A i \in Pending(work', t) :
           \/ i \in Pending(work, t) /\ i <= Issued(t) /\ Op(work', t, i) = Op(work, t, i)
           \/ t = "compute" /\ i = k /\ i > Issued(t)
  BY <1>3, OneMore, StreamNames DEF Issued
<1>5. \A t \in Streams : \A i \in Pending(work', t) : i > Issued(t) => t = "compute" /\ i = k
  <2>1. \A t \in Streams : Issued(t) \in Nat /\ Pending(work', t) \subseteq Nat
    BY <1>3, Carried, Positions DEF Grown
  <2>2. \A i, j \in Nat : i <= j => ~(i > j)
    OBVIOUS
  <2> QED  BY <1>4, <2>1, <2>2
<1> HIDE DEF k
<1>6. /\ op.kind = "forward" /\ op.block = <<"gpu", l>> /\ op.value = pass /\ op.over = Pool("compute")
  BY DEF op
<1>7. /\ Pool("compute") \subseteq released /\ Pool("compute") \subseteq Blocks
      /\ \A b \in Pool("compute") : b[1] = "gpu" /\ Writer(b) = "compute"
      /\ \A h \in Groups : <<"gpu", h>> \notin released \ Pool("compute")
  BY <1>2, PoolFacts, StreamNames
<1>8. \A b \in Blocks : /\ Changes(op, b) <=> b \in Pool("compute") \/ b = <<"gpu", l>>
                        /\ ~Reads(op, b)
  BY <1>6 DEF Changes, Writes, Reads
<1>9. /\ \A t \in Streams : Issued(t) \in Nat /\ Issued(t)' \in Nat /\ Issued(t) <= Issued(t)'
      /\ \A t \in Streams : \A u \in Nat :
           Awaited(t, u) => Waits(work', "compute", Issued("compute")', t, u)
      /\ \A t \in Streams \ {"compute"} : Issued(t)' = Issued(t)
  BY <1>3, Carried DEF Issued
<1>10. /\ QueuesInv'
  <2>1. Fits("compute", op)
    BY <1>6, <1>7 DEF Fits
  <2>2. \A t \in Streams : \A i \in Pending(work', t) : Fits(t, Op(work', t, i))
    BY <1>2, <1>3, <1>4, <2>1
  <2>3. QueuesType(work')
    BY <1>3 DEF Grown
  <2> QED  BY <1>1, <1>2, <2>2, <2>3 DEF QueuesInv
<1>11. ReadsInv(work', memory')
  <2>1. ASSUME NEW r \in Streams, NEW place \in Pending(work, r), NEW b \in Blocks,
               Reads(Op(work, r, place), b), Changes(op, b)
        PROVE  After(work', "compute", k, r, place)
    <3>1. place \in Nat /\ place <= Issued(r) /\ Op(work, r, place) \in Wait(r) \cup Transfer(r)
          /\ Fits(r, Op(work, r, place))
      BY <1>2, Positions DEF Issued
    <3>2. b[1] = "gpu"
      BY <1>7, <1>8, <2>1
    <3>3. r = "compute" \/ (r = "d2h" /\ Op(work, r, place).kind = "offload" /\ b = Op(work, r, place).block)
      BY <2>1, <3>1, <3>2 DEF Reads, Copy, Transfer, Wait, Streams
    <3>4. k > Issued("compute") /\ k <= work'["compute"].issued
      BY ONLY <1>3, <1>4, <1>9, StreamNames DEF k
    <3>5. CASE r = "compute"
      <4>1. place <= k
        BY ONLY <1>9, <1>4, <3>1, <3>4, <3>5, StreamNames
      <4> QED  BY <1>3, <1>4, <3>1, <3>4, <3>5, <4>1, AfterAwaited
    <3>6. CASE r = "d2h" /\ Op(work, r, place).kind = "offload" /\ b = Op(work, r, place).block
      <4>1. Awaited("d2h", place) \/ (tag_to_state[b[2]] = "tuple" /\ b \notin released)
        BY <1>2, <3>6 DEF CopiesInv
      <4>2. ~(tag_to_state[b[2]] = "tuple" /\ b \notin released)
        <5>1. b \in released \/ b = <<"gpu", l>>
          BY <1>7, <1>8, <2>1
        <5>2. <<"gpu", l>>[2] = l
          OBVIOUS
        <5> QED  BY <1>1, <5>1, <5>2
      <4> QED  BY <1>3, <1>4, <3>1, <3>4, <3>6, <4>1, <4>2, AfterAwaited
    <3> QED  BY <3>3, <3>5, <3>6
  <2>2. \A s \in Streams : \A i \in Pending(work', s) : i > work[s].issued => s = "compute" /\ i = k
    BY <1>5 DEF Issued
  <2>3. ReadsInv(work', memory)
    BY <1>2, <1>3, <1>8, <2>1, <2>2, ReadsGrow
  <2> QED  BY <1>1, <2>3
<1>12. \A b \in Blocks : ~Changes(op, b) =>
         \A i \in Pending(work', Writer(b)) :
            i > Issued(Writer(b)) => ~Changes(Op(work', Writer(b), i), b)
  BY <1>3, <1>5, Writers
<1>13. HeldInv'
  <2> SUFFICES ASSUME NEW h \in Groups
               PROVE  /\ tag_to_state'[h] = "saved" =>
                           /\ <<"gpu", h>> \notin released'
                           /\ Leaves(work', memory', Issued("compute")', <<"gpu", h>>, pass')
                      /\ tag_to_state'[h] = "tuple" =>
                           Leaves(work', memory', Issued("d2h")', <<"cpu", h>>, pass')
                      /\ tag_to_state'[h] = "loaded" =>
                           /\ <<"back", h>> \notin released'
                           /\ Leaves(work', memory', Issued("h2d")', <<"back", h>>, pass')
    BY DEF HeldInv
  <2>1. /\ tag_to_state[h] = "saved" =>
             /\ <<"gpu", h>> \notin released
             /\ Leaves(work, memory, Issued("compute"), <<"gpu", h>>, pass)
        /\ tag_to_state[h] = "tuple" => Leaves(work, memory, Issued("d2h"), <<"cpu", h>>, pass)
        /\ tag_to_state[h] = "loaded" =>
             /\ <<"back", h>> \notin released
             /\ Leaves(work, memory, Issued("h2d"), <<"back", h>>, pass)
    BY <1>2 DEF HeldInv
  <2>2. /\ <<"gpu", h>> \in Blocks /\ Writer(<<"gpu", h>>) = "compute"
        /\ <<"cpu", h>> \in Blocks /\ Writer(<<"cpu", h>>) = "d2h"
        /\ <<"back", h>> \in Blocks /\ Writer(<<"back", h>>) = "h2d"
    BY BlockFacts
  <2>3. CASE h = l
    <3>1. tag_to_state'[h] = "saved"
      BY <1>1, <1>2, <2>3
    <3>2. <<"gpu", h>> \notin released'
      BY <1>1, <1>7
    <3>3. Leaves(work', memory, work'["compute"].issued, <<"gpu", h>>, pass)
      <4>1. Writes(Op(work', "compute", k), <<"gpu", h>>) /\ Op(work', "compute", k).value = pass
        BY <1>3, <1>6, <2>3 DEF Writes
      <4>2. \A j \in Pending(work', "compute") : ~(k < j)
        <5>1. \A j \in Pending(work', "compute") : j \in Nat /\ j <= k
          BY <1>3, Positions, StreamNames DEF Grown
        <5> QED  BY ONLY <1>4, <5>1
      <4>3. QueuesType(work')
        BY <1>3 DEF Grown
      <4> QED  BY <1>4, <2>2, <4>1, <4>2, <4>3, WrittenLast, StreamNames
    <3> QED  BY <1>1, <3>1, <3>2, <3>3 DEF Issued
  <2>4. CASE h # l
    <3>1. tag_to_state'[h] = tag_to_state[h]
      BY <1>1, <1>2, <2>4
    <3>2. \A b \in Blocks : \A p :
            ~Changes(op, b) /\ Leaves(work, memory, Issued(Writer(b)), b, p)
              => Leaves(work', memory, work'[Writer(b)].issued, b, p)
      BY <1>3, <1>12, Carried
    <3>3. /\ tag_to_state[h] = "saved" => ~Changes(op, <<"gpu", h>>)
          /\ ~Changes(op, <<"cpu", h>>) /\ ~Changes(op, <<"back", h>>)
      BY <1>7, <1>8, <2>1, <2>2, <2>4
    <3>4. /\ tag_to_state[h] = "saved" =>
               Leaves(work', memory, work'["compute"].issued, <<"gpu", h>>, pass)
          /\ tag_to_state[h] = "tuple" =>
               Leaves(work', memory, work'["d2h"].issued, <<"cpu", h>>, pass)
          /\ tag_to_state[h] = "loaded" =>
               Leaves(work', memory, work'["h2d"].issued, <<"back", h>>, pass)
      BY <2>1, <2>2, <3>2, <3>3
    <3> QED  BY <1>1, <2>1, <3>1, <3>4 DEF Issued
  <2> QED  BY <2>3, <2>4
<1>14. CopiesInv'
  <2>1. Forwards'
    BY <1>1 DEF Forwards
  <2>2. ASSUME NEW i \in Pending(work', "d2h"), Op(work', "d2h", i).kind = "offload"
        PROVE  LET b == Op(work', "d2h", i).block IN
               Awaited("d2h", i)' \/ (tag_to_state'[b[2]] = "tuple" /\ b \notin released')
    <3>1. i \in Pending(work, "d2h") /\ Op(work', "d2h", i) = Op(work, "d2h", i) /\ i \in Nat
      BY <1>2, <1>4, Positions, StreamNames
    <3>2. LET b == Op(work, "d2h", i).block IN
          Awaited("d2h", i) \/ (tag_to_state[b[2]] = "tuple" /\ b \notin released)
      BY <1>2, <2>2, <3>1 DEF CopiesInv
    <3>3. Awaited("d2h", i) => Awaited("d2h", i)'
      BY <1>9, <3>1, StreamNames DEF Awaited
    <3>4. Op(work, "d2h", i).block[2] \in Groups
      <4>1. Op(work, "d2h", i) \in Wait("d2h") \cup Transfer("d2h") /\ Op(work, "d2h", i).kind = "offload"
        BY <1>2, <2>2, <3>1, Positions, StreamNames
      <4>2. Op(work, "d2h", i).block \in Blocks
        BY <4>1 DEF Wait, Transfer
      <4> QED  BY <4>2 DEF Blocks
    <3>5. \A h \in Groups : tag_to_state[h] = "tuple" => tag_to_state'[h] = "tuple"
      BY <1>1, <1>2
    <3> QED  BY <1>1, <3>1, <3>2, <3>3, <3>4, <3>5
  <2> QED  BY <2>1, <2>2 DEF CopiesInv
<1>15. ReloadsInv'
  <2>1. Awaited("h2d", Issued("h2d"))'
    <3>1. Awaited("h2d", Issued("h2d")) /\ Issued("h2d") \in Nat
      BY <1>2, <1>9, StreamNames DEF ReloadsInv, Forwards, LayerForward
    <3>2. Waits(work', "compute", Issued("compute")', "h2d", Issued("h2d"))
      BY <1>9, <3>1, StreamNames
    <3>3. Issued("h2d")' = Issued("h2d")
      BY <1>9, StreamNames
    <3> QED  BY <3>2, <3>3 DEF Awaited
  <2>2. \A h \in Groups : tag_to_state'[h] # "loaded"
    <3>1. AheadInv'
      BY <1>1 DEF HostInv
    <3> QED  BY <3>1 DEF AheadInv
  <2> QED  BY <2>1, <2>2 DEF ReloadsInv
<1>16. OffloadTypeOK'
  <2>1. tag_to_state' \in [Groups -> {"none", "saved", "tuple", "loaded"}]
    BY <1>1, <1>2
  <2>2. released' \subseteq {"gpu", "back"} \X Groups
    BY <1>1, <1>2
  <2> QED  BY <1>1, <1>2, <2>1, <2>2, StaysTyped
<1> QED  BY <1>1, <1>10, <1>11, <1>13, <1>14, <1>15, <1>16 DEF OffloadInv
\* A layer runs backward: its activations are on the device, and nothing that is released
\* is read any more.
LEMMA BackwardKeeps ==
  ASSUME OffloadAssumption, OffloadInv, LayerBackward
  PROVE  OffloadInv'
<1> DEFINE l == current_group
           k == Issued("compute") + 1
           op == [kind |-> "backward", block |-> Block(l), value |-> pass, over |-> Pool("compute")]
<1>1. /\ HostInv' /\ host = "backward" /\ l \in Groups
      /\ tag_to_state[l] \in {"saved", "loaded"}
      /\ tag_to_state[l] = "loaded" => ~(IF l = 0 THEN l > 0 ELSE l > Window[l - 1])
      /\ l # 0 => ~Forwards'
      /\ l = 0 => \A h \in Groups : tag_to_state'[h] = "none"
      /\ l # 0 => pass' = pass
      /\ pass' \in 1..Passes
      /\ work' = Do(work, "compute", "backward", Block(l))
      /\ released' = (released \ Pool("compute")) \union {Block(l)}
      /\ \A h \in Groups : tag_to_state'[h] = IF h = l THEN "none" ELSE tag_to_state[h]
      /\ tag_to_state' \in [Groups -> {"none", "saved", "tuple", "loaded"}]
      /\ UNCHANGED <<current_group, offloaded_group_count, group_offload_mapping, memory>>
  BY BackwardHost
<1>2. /\ QueuesInv /\ QueuesType(work) /\ pass \in 1..Passes /\ ReadsInv(work, memory)
      /\ HeldInv /\ CopiesInv /\ ReloadsInv
      /\ released \subseteq {"gpu", "back"} \X Groups
      /\ \A s \in Streams : \A i \in Pending(work, s) : Fits(s, Op(work, s, i))
  BY DEF OffloadInv, OffloadTypeOK, QueuesInv
<1>3. Awaited("d2h", Issued("d2h"))
  BY <1>1, <1>2 DEF CopiesInv, Forwards
<1>4. /\ Block(l) = IF tag_to_state[l] = "loaded" THEN <<"back", l>> ELSE <<"gpu", l>>
      /\ Block(l) \in Blocks /\ Block(l) \in {"gpu", "back"} \X Groups
      /\ Block(l)[1] \in {"gpu", "back"} /\ Block(l)[2] = l
  BY <1>1 DEF Block, Blocks
<1> DEFINE x == Do(work, "compute", "backward", Block(l))
<1>5. /\ Grown(work, x) /\ x["compute"].issued = work["compute"].issued + 1
      /\ Op(x, "compute", work["compute"].issued + 1)
           = [kind |-> "backward", block |-> Block(l), value |-> pass,
              over |-> IF "compute" = "d2h" THEN {} ELSE Pool("compute")]
      /\ \A r \in Streams : r # "compute" => x[r] = work[r]
  <2>1. "backward" \in CASE "compute" = "compute" -> {"forward", "backward"}
                         [] "compute" = "d2h" -> {"offload"} [] OTHER -> {"reload"}
    OBVIOUS
  <2> HIDE DEF l
  <2> QED  BY <1>2, <1>4, <2>1, DoPuts, StreamNames
<1>6. /\ Grown(work, work') /\ work'["compute"].issued = k /\ Op(work', "compute", k) = op
      /\ \A r \in Streams : r # "compute" => work'[r] = work[r]
  BY <1>1, <1>5 DEF Issued
<1> HIDE DEF x, op, l
<1>7. /\ k \in Pending(work', "compute") /\ k \in Nat
      /\ \A t \in Streams : \A i \in Pending(work', t) :
           \/ i \in Pending(work, t) /\ i <= Issued(t) /\ Op(work', t, i) = Op(work, t, i)
           \/ t = "compute" /\ i = k /\ i > Issued(t)
  BY <1>6, OneMore, StreamNames DEF Issued
<1>8. \A t \in Streams : \A i \in Pending(work', t) : i > Issued(t) => t = "compute" /\ i = k
  <2>1. \A t \in Streams : Issued(t) \in Nat /\ Pending(work', t) \subseteq Nat
    BY <1>6, Carried, Positions DEF Grown
  <2>2. \A i, j \in Nat : i <= j => ~(i > j)
    OBVIOUS
  <2> QED  BY <1>7, <2>1, <2>2
<1> HIDE DEF k
<1>9. /\ op.kind = "backward" /\ op.block = Block(l) /\ op.value = pass /\ op.over = Pool("compute")
  BY DEF op
<1>10. /\ Pool("compute") \subseteq released /\ Pool("compute") \subseteq Blocks
       /\ \A b \in Pool("compute") : b[1] = "gpu" /\ Writer(b) = "compute"
  BY <1>2, PoolFacts, StreamNames
<1>11. \A b \in Blocks : /\ Changes(op, b) => b \in Pool("compute") /\ b \in released
                         /\ Reads(op, b) => b = Block(l)
  BY <1>9, <1>10 DEF Changes, Writes, Reads
<1>12. /\ \A t \in Streams : Issued(t) \in Nat /\ Issued(t)' \in Nat /\ Issued(t) <= Issued(t)'
       /\ \A t \in Streams : \A u \in Nat :
            Awaited(t, u) => Waits(work', "compute", Issued("compute")', t, u)
       /\ \A t \in Streams \ {"compute"} : Issued(t)' = Issued(t)
  BY <1>6, Carried DEF Issued
<1>13. k > Issued("compute") /\ k <= work'["compute"].issued
  BY ONLY <1>6, <1>7, <1>12, StreamNames DEF k
<1>14. QueuesInv'
  <2>1. Fits("compute", op)
    BY <1>4, <1>9, <1>10 DEF Fits
  <2>2. \A t \in Streams : \A i \in Pending(work', t) : Fits(t, Op(work', t, i))
    BY <1>2, <1>6, <1>7, <2>1
  <2>3. QueuesType(work')
    BY <1>6 DEF Grown
  <2>4. released' \subseteq {"gpu", "back"} \X Groups
    BY <1>1, <1>2, <1>4
  <2> QED  BY <2>2, <2>3, <2>4 DEF QueuesInv
<1>15. \A b \in Blocks : ~Changes(op, b) =>
         \A i \in Pending(work', Writer(b)) :
            i > Issued(Writer(b)) => ~Changes(Op(work', Writer(b), i), b)
  BY <1>6, <1>8, Writers
<1>16. \A b \in Blocks : \A p :
         b \notin released /\ Leaves(work, memory, Issued(Writer(b)), b, p)
           => /\ Leaves(work', memory, Issued(Writer(b)), b, p)
              /\ Leaves(work', memory, work'[Writer(b)].issued, b, p)
  <2>1. \A b \in Blocks : b \notin released => ~Changes(op, b)
    BY <1>11
  <2> QED  BY <1>6, <1>15, <2>1, Carried
<1>17. \A i \in Pending(work, "d2h") : Awaited("d2h", i)
  <2> TAKE i \in Pending(work, "d2h")
  <2>1. i \in Nat /\ i <= Issued("d2h")
    BY <1>2, Positions, StreamNames DEF Issued
  <2> DEFINE n == Issued("compute")
             v == Issued("d2h")
  <2>2. n \in Nat /\ v \in Nat /\ Waits(work, "compute", n, "d2h", v)
    BY <1>3, <1>12, StreamNames DEF Awaited
  <2> HIDE DEF n, v
  <2>3. n <= n
    BY ONLY <2>2
  <2>4. i <= v
    BY <2>1 DEF v
  <2>5. Waits(work, "compute", n, "d2h", i)
    BY <1>2, <2>1, <2>2, <2>3, <2>4, WaitsLater, StreamNames
  <2> QED  BY <2>5 DEF Awaited, n
<1>18. ReadsInv(work', memory')
  <2>1. ASSUME NEW r \in Streams, NEW place \in Pending(work, r), NEW b \in Blocks,
               Reads(Op(work, r, place), b), Changes(op, b)
        PROVE  After(work', "compute", k, r, place)
    <3>1. place \in Nat /\ place <= Issued(r) /\ Op(work, r, place) \in Wait(r) \cup Transfer(r)
          /\ Fits(r, Op(work, r, place))
      BY <1>2, Positions DEF Issued
    <3>2. b[1] = "gpu"
      BY <1>10, <1>11, <2>1
    <3>3. r = "compute" \/ r = "d2h"
      BY <2>1, <3>1, <3>2 DEF Reads, Copy, Transfer, Wait, Streams
    <3>4. CASE r = "compute"
      <4>1. place <= k
        BY ONLY <1>12, <1>7, <1>13, <3>1, <3>4, StreamNames
      <4> QED  BY <1>6, <1>7, <1>13, <3>1, <3>4, <4>1, AfterAwaited
    <3>5. CASE r = "d2h"
      <4>1. Awaited("d2h", place)
        BY <1>17, <3>5
      <4> QED  BY <1>6, <1>7, <1>13, <3>1, <3>5, <4>1, AfterAwaited
    <3> QED  BY <3>3, <3>4, <3>5
  <2>2. Finds(work', memory, "compute", k, Block(l), pass)
    <3>1. CASE tag_to_state[l] # "loaded"
      <4> DEFINE u == Issued("compute")
                 b == <<"gpu", l>>
      <4>1. /\ tag_to_state[l] = "saved" /\ Block(l) = b /\ b \in Blocks /\ Writer(b) = "compute"
        BY <1>1, <1>4, <3>1, BlockFacts
      <4>2. b \notin released /\ Leaves(work, memory, u, b, pass)
        BY <1>1, <1>2, <4>1 DEF HeldInv
      <4>3. Leaves(work', memory, u, b, pass)
        BY <1>16, <4>1, <4>2
      <4>4. u \in Nat /\ u <= k /\ u \in 0..work'["compute"].issued
        <5>1. u \in Nat
          BY <1>12, StreamNames
        <5>2. u <= k /\ u \in 0..work'["compute"].issued
          BY ONLY <1>6, <1>7, <1>13, <5>1
        <5> QED  BY <5>1, <5>2
      <4>5. After(work', "compute", k, "compute", u)
        BY <1>6, <1>7, <1>13, <4>4, AfterAwaited, StreamNames
      <4>6. \A i \in Pending(work', "compute") : i > u => ~Changes(Op(work', "compute", i), b)
        BY <1>11, <1>15, <4>1, <4>2
      <4>7. \A i \in Pending(work', "compute") : i \in Nat
        BY <1>6, Positions, StreamNames DEF Grown
      <4> HIDE DEF u
      <4>8. \A i \in Pending(work', "compute") : u < i => i > u
        BY ONLY <4>4, <4>7
      <4> QED  BY <4>1, <4>3, <4>4, <4>5, <4>6, <4>8 DEF Finds
    <3>2. CASE tag_to_state[l] = "loaded"
      <4> DEFINE b == <<"back", l>>
      <4>1. Block(l) = b /\ b \in Blocks /\ Writer(b) = "h2d"
        BY <1>1, <1>4, <3>2, BlockFacts
      <4>2. PICK u \in 0..Issued("h2d") :
              /\ Awaited("h2d", u) /\ Leaves(work, memory, u, b, pass)
              /\ \A i \in Pending(work, "h2d") : u < i => ~Changes(Op(work, "h2d", i), b)
        BY <1>1, <1>2, <3>2 DEF ReloadsInv, l
      <4>3. \A i \in Pending(work', "h2d") : ~(i > Issued("h2d"))
        BY <1>8, StreamNames
      <4>4. u \in 0..work'["h2d"].issued /\ Leaves(work', memory, u, b, pass)
            /\ \A i \in Pending(work', "h2d") : u < i => ~Changes(Op(work', "h2d", i), b)
        BY <1>6, <4>1, <4>2, <4>3, LeftCarried
      <4>5. u \in Nat
        BY <1>12, <4>2, StreamNames
      <4>6. After(work', "compute", k, "h2d", u)
        BY <1>6, <1>7, <1>13, <4>2, <4>5, AfterAwaited, StreamNames
      <4> QED  BY <4>1, <4>4, <4>6 DEF Finds
    <3> QED  BY <3>1, <3>2
  <2>3. \A s \in Streams : \A i \in Pending(work', s) : i > work[s].issued => s = "compute" /\ i = k
    BY <1>8 DEF Issued
  <2>4. ReadsInv(work', memory)
    BY <1>2, <1>6, <1>9, <1>11, <2>1, <2>2, <2>3, ReadsGrow
  <2> QED  BY <1>1, <2>4
<1>19. HeldInv'
  <2> SUFFICES ASSUME NEW h \in Groups
               PROVE  /\ tag_to_state'[h] = "saved" =>
                           /\ <<"gpu", h>> \notin released'
                           /\ Leaves(work', memory', Issued("compute")', <<"gpu", h>>, pass')
                      /\ tag_to_state'[h] = "tuple" =>
                           Leaves(work', memory', Issued("d2h")', <<"cpu", h>>, pass')
                      /\ tag_to_state'[h] = "loaded" =>
                           /\ <<"back", h>> \notin released'
                           /\ Leaves(work', memory', Issued("h2d")', <<"back", h>>, pass')
    BY DEF HeldInv
  <2>1. CASE h = l \/ l = 0
    BY <1>1, <2>1
  <2>2. CASE h # l /\ l # 0
    <3>1. /\ tag_to_state[h] = "saved" =>
               /\ <<"gpu", h>> \notin released
               /\ Leaves(work, memory, Issued("compute"), <<"gpu", h>>, pass)
          /\ tag_to_state[h] = "tuple" => Leaves(work, memory, Issued("d2h"), <<"cpu", h>>, pass)
          /\ tag_to_state[h] = "loaded" =>
               /\ <<"back", h>> \notin released
               /\ Leaves(work, memory, Issued("h2d"), <<"back", h>>, pass)
      BY <1>2 DEF HeldInv
    <3>2. /\ <<"gpu", h>> \in Blocks /\ Writer(<<"gpu", h>>) = "compute"
          /\ <<"cpu", h>> \in Blocks /\ Writer(<<"cpu", h>>) = "d2h"
          /\ <<"back", h>> \in Blocks /\ Writer(<<"back", h>>) = "h2d"
      BY BlockFacts
    <3>3. tag_to_state'[h] = tag_to_state[h] /\ pass' = pass
      BY <1>1, <2>2
    <3>4. <<"cpu", h>> \notin released
      BY <1>2
    <3>5. \A b \in Blocks : b \notin released /\ b[2] = h => b \notin released'
      BY <1>1, <1>4, <2>2
    <3>6. <<"gpu", h>>[2] = h /\ <<"back", h>>[2] = h
      OBVIOUS
    <3>7. /\ tag_to_state[h] = "saved" =>
               Leaves(work', memory, work'["compute"].issued, <<"gpu", h>>, pass)
          /\ tag_to_state[h] = "tuple" =>
               Leaves(work', memory, work'["d2h"].issued, <<"cpu", h>>, pass)
          /\ tag_to_state[h] = "loaded" =>
               Leaves(work', memory, work'["h2d"].issued, <<"back", h>>, pass)
      BY <1>16, <3>1, <3>2, <3>4
    <3>8. memory' = memory
      BY <1>1
    <3> QED  BY <3>1, <3>2, <3>3, <3>5, <3>6, <3>7, <3>8 DEF Issued
  <2> QED  BY <2>1, <2>2
<1>20. \A t \in Streams \ {"compute"} : \A u \in Nat : Awaited(t, u) => Awaited(t, u)'
  BY <1>12 DEF Awaited
<1>21. Issued("d2h")' = Issued("d2h") /\ Issued("h2d")' = Issued("h2d")
       /\ Issued("d2h") \in Nat /\ Issued("h2d") \in Nat
  BY <1>12, StreamNames
<1>22. CopiesInv'
  <2>1. Awaited("d2h", Issued("d2h"))'
    <3>1. Waits(work', "compute", Issued("compute")', "d2h", Issued("d2h"))
      BY <1>3, <1>12, <1>21, StreamNames
    <3> QED  BY <1>21, <3>1 DEF Awaited
  <2>2. ASSUME NEW i \in Pending(work', "d2h")
        PROVE  Awaited("d2h", i)'
    <3>1. i \in Pending(work, "d2h") /\ i \in Nat
      BY <1>2, <1>7, Positions, StreamNames
    <3> QED  BY <1>17, <1>20, <3>1, StreamNames
  <2> QED  BY <2>1, <2>2 DEF CopiesInv
<1>23. ReloadsInv'
  <2>1. Forwards' \/ current_group' = 0 => Awaited("h2d", Issued("h2d"))'
    <3> SUFFICES ASSUME Forwards' \/ current_group' = 0 PROVE Awaited("h2d", Issued("h2d"))'
      OBVIOUS
    <3>1. l = 0
      BY <1>1 DEF l
    <3>2. Awaited("h2d", Issued("h2d"))
      BY <1>2, <3>1 DEF ReloadsInv, l
    <3>3. Waits(work', "compute", Issued("compute")', "h2d", Issued("h2d"))
      BY <1>12, <1>21, <3>2, StreamNames
    <3> QED  BY <1>21, <3>3 DEF Awaited
  <2>2. ASSUME NEW h \in Groups, tag_to_state'[h] = "loaded",
               ~(IF h = 0 THEN current_group > 0 ELSE current_group > Window[h - 1])'
        PROVE  \E u \in 0..Issued("h2d")' :
                 /\ Awaited("h2d", u)' /\ Leaves(work', memory', u, <<"back", h>>, pass')
                 /\ \A i \in Pending(work', "h2d") :
                      u < i => ~Changes(Op(work', "h2d", i), <<"back", h>>)
    <3>1. tag_to_state[h] = "loaded" /\ pass' = pass
      BY <1>1, <2>2
    <3> DEFINE b == <<"back", h>>
    <3>2. PICK u \in 0..Issued("h2d") :
              /\ Awaited("h2d", u) /\ Leaves(work, memory, u, b, pass)
              /\ \A i \in Pending(work, "h2d") :
                   u < i => ~Changes(Op(work, "h2d", i), b)
      BY <1>1, <1>2, <2>2, <3>1 DEF ReloadsInv, Window
    <3>3. \A i \in Pending(work', "h2d") : ~(i > Issued("h2d"))
      BY <1>8, StreamNames
    <3>4. b \in Blocks /\ Writer(b) = "h2d"
      BY BlockFacts
    <3>5. u \in 0..work'["h2d"].issued /\ Leaves(work', memory, u, b, pass)
          /\ \A i \in Pending(work', "h2d") : u < i => ~Changes(Op(work', "h2d", i), b)
      BY <1>6, <3>2, <3>3, <3>4, LeftCarried
    <3>6. u \in Nat
      BY <1>12, <3>2, StreamNames
    <3>7. Awaited("h2d", u)'
      BY <1>20, <3>2, <3>6, StreamNames
    <3> QED  BY <1>1, <3>1, <3>5, <3>7 DEF Issued
  <2> QED  BY <2>1, <2>2 DEF ReloadsInv
<1>24. OffloadTypeOK'
  <2>1. released' \subseteq {"gpu", "back"} \X Groups
    BY <1>1, <1>2, <1>4
  <2> QED  BY <1>1, <2>1, StaysTyped
<1> QED  BY <1>1, <1>14, <1>18, <1>19, <1>22, <1>23, <1>24 DEF OffloadInv
\* More was enqueued, and all of it waits.
OnlyWaits(w, x) ==
    /\ Grown(w, x)
    /\ \A t \in Streams : \A i \in Pending(x, t) : i > w[t].issued => Op(x, t, i).kind = "wait"

\* Nothing enqueued is nothing but waits.
LEMMA OnlyWaitsNone ==
  ASSUME NEW w, QueuesType(w)
  PROVE  OnlyWaits(w, w)
<1>1. \A t \in Streams : w[t].issued \in Nat
  BY Positions
<1>2. \A t \in Streams : w[t].issued <= w[t].issued
  <2> TAKE t \in Streams
  <2> DEFINE k == w[t].issued
  <2>1. k \in Nat
    BY <1>1
  <2> HIDE DEF k
  <2>2. k <= k
    BY ONLY <2>1
  <2> QED  BY <2>2 DEF k
<1>3. \A t \in Streams : \A i \in Pending(w, t) : ~(i > w[t].issued)
  <2> TAKE t \in Streams
  <2> TAKE i \in Pending(w, t)
  <2>1. i \in Nat /\ i <= w[t].issued /\ w[t].issued \in Nat
    BY Positions
  <2> QED  BY ONLY <2>1
<1> QED  BY <1>2, <1>3 DEF OnlyWaits, Grown

\* Waits behind waits are nothing but waits.
LEMMA OnlyWaitsTwice ==
  ASSUME NEW w, NEW x, NEW y, OnlyWaits(w, x), OnlyWaits(x, y)
  PROVE  OnlyWaits(w, y)
<1>1. Grown(w, y) /\ Grown(w, x) /\ Grown(x, y)
  BY GrownTwice DEF OnlyWaits
<1>2. ASSUME NEW t \in Streams, NEW i \in Pending(y, t), i > w[t].issued
      PROVE  Op(y, t, i).kind = "wait"
  <2>1. CASE i <= x[t].issued
    <3>1. i \in Pending(x, t) /\ Op(y, t, i) = Op(x, t, i)
      BY <1>1, <2>1, GrownFacts
    <3> QED  BY <1>2, <3>1 DEF OnlyWaits
  <2>2. CASE i > x[t].issued
    BY <2>2 DEF OnlyWaits
  <2>3. i \in Nat /\ x[t].issued \in Nat
    BY <1>1, Positions DEF Grown
  <2>4. i <= x[t].issued \/ i > x[t].issued
    BY ONLY <2>3
  <2> QED  BY <2>1, <2>2, <2>4
<1> QED  BY <1>1, <1>2 DEF OnlyWaits

\* A stream waits for another.
LEMMA WaitFacts ==
  ASSUME NEW w, QueuesType(w), NEW s \in Streams, NEW t \in Streams \ {s}
  PROVE  LET x == WaitStream(w, s, t)
         IN /\ OnlyWaits(w, x) /\ QueuesType(x)
            /\ Waits(x, s, x[s].issued, t, w[t].issued)
            /\ \A r \in Streams : r # s => x[r] = w[r]
<1> DEFINE x == WaitStream(w, s, t)
           k == w[s].issued + 1
<1>1. /\ Grown(w, x) /\ x[s].issued = k
      /\ Op(x, s, k) = [kind |-> "wait", on |-> t, until |-> w[t].issued]
      /\ \A r \in Streams : r # s => x[r] = w[r]
  BY WaitPuts
<1> HIDE DEF x
<1>2. /\ k \in Pending(x, s) /\ k \in Nat
      /\ \A r \in Streams : \A i \in Pending(x, r) :
           \/ i \in Pending(w, r) /\ i <= w[r].issued /\ Op(x, r, i) = Op(w, r, i)
           \/ r = s /\ i = k /\ i > w[r].issued
  BY <1>1, OneMore
<1>3. \A r \in Streams : \A i \in Pending(x, r) : i > w[r].issued => Op(x, r, i).kind = "wait"
  <2> TAKE r \in Streams
  <2> TAKE i \in Pending(x, r)
  <2> HAVE i > w[r].issued
  <2>1. ~(i <= w[r].issued)
    <3>1. i \in Nat /\ w[r].issued \in Nat
      BY <1>1, Positions DEF Grown
    <3> QED  BY ONLY <3>1, i > w[r].issued
  <2> QED  BY <1>1, <1>2, <2>1
<1>4. Waits(x, s, k, t, w[t].issued)
  <2>1. k <= k /\ w[t].issued <= w[t].issued
    <3>1. w[t].issued \in Nat
      BY Positions
    <3> HIDE DEF k
    <3>2. k <= k
      BY ONLY <1>2
    <3>3. w[t].issued <= w[t].issued
      BY ONLY <3>1
    <3> QED  BY <3>2, <3>3
  <2> HIDE DEF k
  <2> QED  BY <1>1, <1>2, <2>1 DEF Waits
<1> HIDE DEF k
<1> QED  BY <1>1, <1>3, <1>4 DEF OnlyWaits, Grown, x

\* A stream and the compute stream wait for each other.
LEMMA BothFacts ==
  ASSUME NEW w, QueuesType(w), NEW s \in Streams \ {"compute"}
  PROVE  LET x == Both(w, s)
         IN /\ OnlyWaits(w, x) /\ QueuesType(x)
            /\ Waits(x, s, x[s].issued, "compute", w["compute"].issued)
            /\ Waits(x, "compute", x["compute"].issued, s, x[s].issued)
            /\ \A r \in Streams : r \notin {s, "compute"} => x[r] = w[r]
<1> DEFINE y == WaitStream(w, s, "compute")
           x == WaitStream(y, "compute", s)
<1>1. /\ OnlyWaits(w, y) /\ QueuesType(y)
      /\ Waits(y, s, y[s].issued, "compute", w["compute"].issued)
      /\ \A r \in Streams : r # s => y[r] = w[r]
  BY WaitFacts, StreamNames
<1> HIDE DEF y
<1>2. /\ OnlyWaits(y, x) /\ QueuesType(x)
      /\ Waits(x, "compute", x["compute"].issued, s, y[s].issued)
      /\ \A r \in Streams : r # "compute" => x[r] = y[r]
  BY <1>1, WaitFacts, StreamNames
<1>3. Both(w, s) = x
  BY DEF Both, y
<1> HIDE DEF x
<1>4. OnlyWaits(w, x)
  BY <1>1, <1>2, OnlyWaitsTwice
<1>5. x[s].issued = y[s].issued /\ y[s].issued \in Nat /\ w["compute"].issued \in Nat
  BY <1>1, <1>2, Positions, StreamNames
<1>6. Waits(x, s, x[s].issued, "compute", w["compute"].issued)
  BY <1>1, <1>2, <1>5, WaitsGrow, StreamNames DEF OnlyWaits
<1> QED  BY <1>1, <1>2, <1>3, <1>4, <1>5, <1>6

\* What the beginning of a window of the backward pass enqueues.
LEMMA BackwardQueues ==
  ASSUME QueuesInv, pass \in 1..Passes, NEW n \in Groups,
         NEW begins \in BOOLEAN, NEW moves \in BOOLEAN, moves => begins, NEW first \in BOOLEAN,
         NEW waited, waited = IF begins THEN Both(work, "h2d") ELSE work,
         NEW reloaded,
         reloaded = IF moves THEN Do(waited, "h2d", "reload", <<"back", n>>) ELSE waited,
         NEW x, x = IF first THEN WaitStream(reloaded, "compute", "h2d") ELSE reloaded
  PROVE  LET k == x["h2d"].issued
             op == [kind |-> "reload", block |-> <<"back", n>>, value |-> pass, over |-> Pool("h2d")]
         IN /\ Grown(work, x) /\ x["d2h"] = work["d2h"]
            /\ \A t \in Streams : \A i \in Pending(x, t) : i > work[t].issued =>
                 \/ Op(x, t, i).kind = "wait"
                 \/ moves /\ t = "h2d" /\ i = k /\ Op(x, t, i) = op
            /\ moves => /\ k \in Pending(x, "h2d") /\ k > work["h2d"].issued /\ Op(x, "h2d", k) = op
                        /\ Waits(x, "h2d", k, "compute", work["compute"].issued)
            /\ begins => Waits(x, "compute", x["compute"].issued, "h2d", work["h2d"].issued)
            /\ first => Waits(x, "compute", x["compute"].issued, "h2d", k)
<1> DEFINE op == [kind |-> "reload", block |-> <<"back", n>>, value |-> pass, over |-> Pool("h2d")]
           k == x["h2d"].issued
<1>1. QueuesType(work)
  BY DEF QueuesInv
<1>2. /\ OnlyWaits(work, waited) /\ QueuesType(waited) /\ waited["d2h"] = work["d2h"]
      /\ begins => /\ Waits(waited, "h2d", waited["h2d"].issued, "compute", work["compute"].issued)
                   /\ Waits(waited, "compute", waited["compute"].issued, "h2d", waited["h2d"].issued)
  <2>1. CASE begins
    <3>1. LET y == Both(work, "h2d")
          IN /\ OnlyWaits(work, y) /\ QueuesType(y)
             /\ Waits(y, "h2d", y["h2d"].issued, "compute", work["compute"].issued)
             /\ Waits(y, "compute", y["compute"].issued, "h2d", y["h2d"].issued)
             /\ \A r \in Streams : r \notin {"h2d", "compute"} => y[r] = work[r]
      BY <1>1, BothFacts, StreamNames
    <3> QED  BY <2>1, <3>1, StreamNames
  <2>2. CASE ~begins
    BY <1>1, <2>2, OnlyWaitsNone
  <2> QED  BY <2>1, <2>2
<1>3. /\ OnlyWaits(reloaded, x) /\ x["d2h"] = reloaded["d2h"] /\ x["h2d"] = reloaded["h2d"]
      /\ first => Waits(x, "compute", x["compute"].issued, "h2d", k)
      /\ Grown(waited, reloaded) /\ reloaded["d2h"] = waited["d2h"]
      /\ \A t \in Streams : \A i \in Pending(reloaded, t) : i > waited[t].issued =>
           moves /\ t = "h2d" /\ i = waited["h2d"].issued + 1 /\ Op(reloaded, t, i) = op
      /\ moves => /\ reloaded["h2d"].issued = waited["h2d"].issued + 1
                  /\ reloaded["h2d"].issued \in Pending(reloaded, "h2d")
                  /\ Op(reloaded, "h2d", reloaded["h2d"].issued) = op
  <2>1. /\ Grown(waited, reloaded) /\ QueuesType(reloaded) /\ reloaded["d2h"] = waited["d2h"]
        /\ \A t \in Streams : \A i \in Pending(reloaded, t) : i > waited[t].issued =>
             moves /\ t = "h2d" /\ i = waited["h2d"].issued + 1 /\ Op(reloaded, t, i) = op
        /\ moves => /\ reloaded["h2d"].issued = waited["h2d"].issued + 1
                    /\ reloaded["h2d"].issued \in Pending(reloaded, "h2d")
                    /\ Op(reloaded, "h2d", reloaded["h2d"].issued) = op
    <3>1. CASE moves
      <4> DEFINE y == Do(waited, "h2d", "reload", <<"back", n>>)
                 v == waited["h2d"].issued + 1
      <4>1. "reload" \in CASE "h2d" = "compute" -> {"forward", "backward"}
                           [] "h2d" = "d2h" -> {"offload"} [] OTHER -> {"reload"}
        OBVIOUS
      <4>2. <<"back", n>> \in Blocks
        BY BlockFacts
      <4>3. /\ Grown(waited, y) /\ y["h2d"].issued = v
            /\ Op(y, "h2d", v) = [kind |-> "reload", block |-> <<"back", n>>, value |-> pass,
                                  over |-> IF "h2d" = "d2h" THEN {} ELSE Pool("h2d")]
            /\ \A r \in Streams : r # "h2d" => y[r] = waited[r]
        BY <1>2, <4>1, <4>2, DoPuts, StreamNames
      <4>4. y = reloaded
        BY <3>1
      <4>5. Op(y, "h2d", v) = op
        BY <4>3
      <4> HIDE DEF y, op
      <4>6. /\ v \in Pending(y, "h2d") /\ v \in Nat
            /\ \A t \in Streams : \A i \in Pending(y, t) :
                 \/ i \in Pending(waited, t) /\ i <= waited[t].issued /\ Op(y, t, i) = Op(waited, t, i)
                 \/ t = "h2d" /\ i = v /\ i > waited[t].issued
        BY <4>3, OneMore, StreamNames
      <4> HIDE DEF v
      <4>7. \A t \in Streams : \A i \in Pending(y, t) : i > waited[t].issued =>
              t = "h2d" /\ i = v /\ Op(y, t, i) = op
        <5> TAKE t \in Streams
        <5> TAKE i \in Pending(y, t)
        <5> HAVE i > waited[t].issued
        <5>1. i \in Nat /\ waited[t].issued \in Nat
          BY <1>2, <4>3, Positions DEF Grown
        <5>2. ~(i <= waited[t].issued)
          BY ONLY <5>1, i > waited[t].issued
        <5> QED  BY <4>5, <4>6, <5>2
      <4> QED  BY <3>1, <4>3, <4>4, <4>5, <4>6, <4>7, StreamNames DEF Grown, v
    <3>2. CASE ~moves
      <4>1. reloaded = waited
        BY <3>2
      <4>2. OnlyWaits(waited, waited)
        BY <1>2, OnlyWaitsNone
      <4>3. \A t \in Streams : \A i \in Pending(waited, t) : ~(i > waited[t].issued)
        <5> TAKE t \in Streams
        <5> TAKE i \in Pending(waited, t)
        <5>1. i \in Nat /\ i <= waited[t].issued /\ waited[t].issued \in Nat
          BY <1>2, Positions
        <5> QED  BY ONLY <5>1
      <4> QED  BY <1>2, <3>2, <4>1, <4>2, <4>3 DEF OnlyWaits
    <3> QED  BY <3>1, <3>2
  <2>2. /\ OnlyWaits(reloaded, x) /\ x["d2h"] = reloaded["d2h"] /\ x["h2d"] = reloaded["h2d"]
        /\ first => Waits(x, "compute", x["compute"].issued, "h2d", k)
    <3>1. CASE first
      <4>1. LET y == WaitStream(reloaded, "compute", "h2d")
            IN /\ OnlyWaits(reloaded, y) /\ QueuesType(y)
               /\ Waits(y, "compute", y["compute"].issued, "h2d", reloaded["h2d"].issued)
               /\ \A r \in Streams : r # "compute" => y[r] = reloaded[r]
        <5>1. QueuesType(reloaded) /\ "compute" \in Streams /\ "h2d" \in Streams \ {"compute"}
          BY <2>1, StreamNames
        <5> QED  BY ONLY <5>1, WaitFacts
      <4>2. x = WaitStream(reloaded, "compute", "h2d")
        BY <3>1
      <4> QED  BY <4>1, <4>2, StreamNames
    <3>2. CASE ~first
      BY <2>1, <3>2, OnlyWaitsNone
    <3> QED  BY <3>1, <3>2
  <2> QED  BY <2>1, <2>2
<1> HIDE DEF op, k
<1>4. /\ Grown(work, waited) /\ Grown(waited, reloaded) /\ Grown(reloaded, x) /\ Grown(work, x)
      /\ Grown(waited, x)
  <2>1. Grown(work, waited) /\ Grown(waited, reloaded) /\ Grown(reloaded, x)
    BY <1>2, <1>3 DEF OnlyWaits
  <2>2. Grown(waited, x)
    BY <2>1, GrownTwice
  <2> QED  BY <2>1, <2>2, GrownTwice
<1>5. ASSUME NEW t \in Streams
      PROVE  /\ work[t].issued \in Nat /\ waited[t].issued \in Nat /\ reloaded[t].issued \in Nat
             /\ x[t].issued \in Nat /\ work[t].issued <= waited[t].issued
             /\ waited[t].issued <= reloaded[t].issued /\ reloaded[t].issued <= x[t].issued
             /\ Pending(x, t) \subseteq Nat
  BY <1>4, GrownFacts, Positions
<1>6. k = reloaded["h2d"].issued
  BY <1>3 DEF k
<1>7. ASSUME NEW t \in Streams, NEW i \in Pending(x, t), i > work[t].issued
      PROVE  \/ Op(x, t, i).kind = "wait"
             \/ moves /\ t = "h2d" /\ i = k /\ Op(x, t, i) = op
  <2>1. CASE i > reloaded[t].issued
    BY <1>3, <2>1 DEF OnlyWaits
  <2>2. CASE i <= reloaded[t].issued /\ i > waited[t].issued
    <3>1. i \in Pending(reloaded, t) /\ Op(x, t, i) = Op(reloaded, t, i)
      BY <1>4, <2>2, GrownFacts
    <3> QED  BY <1>3, <1>6, <2>2, <3>1
  <2>3. CASE i <= waited[t].issued
    <3>1. i \in Pending(waited, t) /\ Op(x, t, i) = Op(waited, t, i)
      BY <1>4, <2>3, GrownFacts
    <3> QED  BY <1>2, <1>7, <3>1 DEF OnlyWaits
  <2>4. i \in Nat /\ waited[t].issued \in Nat /\ reloaded[t].issued \in Nat
    BY <1>5
  <2>5. i > reloaded[t].issued \/ (i <= reloaded[t].issued /\ i > waited[t].issued) \/ i <= waited[t].issued
    BY ONLY <2>4
  <2> QED  BY <2>1, <2>2, <2>3, <2>5
<1>8. ASSUME moves
      PROVE  /\ k \in Pending(x, "h2d") /\ k > work["h2d"].issued /\ Op(x, "h2d", k) = op
             /\ Waits(x, "h2d", k, "compute", work["compute"].issued)
  <2>1. k \in Pending(x, "h2d") /\ Op(x, "h2d", k) = op
    BY <1>3, <1>4, <1>6, <1>8, GrownFacts, StreamNames
  <2>2. k = waited["h2d"].issued + 1 /\ waited["h2d"].issued \in Nat /\ work["h2d"].issued \in Nat
        /\ work["h2d"].issued <= waited["h2d"].issued
    BY <1>3, <1>5, <1>6, <1>8, StreamNames
  <2>3. k > work["h2d"].issued /\ waited["h2d"].issued <= k /\ k \in Nat
    BY ONLY <2>2
  <2> DEFINE u == work["compute"].issued
             v == waited["h2d"].issued
  <2>4. u \in Nat /\ v \in Nat /\ v <= k /\ Waits(waited, "h2d", v, "compute", u)
    BY <1>2, <1>5, <1>8, <2>3, StreamNames
  <2> HIDE DEF u, v
  <2>5. Waits(x, "h2d", v, "compute", u) /\ u <= u /\ QueuesType(x)
    BY <1>4, <2>4, WaitsGrow, StreamNames DEF Grown
  <2>6. Waits(x, "h2d", k, "compute", u)
    BY <2>3, <2>4, <2>5, WaitsLater, StreamNames
  <2> QED  BY <2>1, <2>3, <2>6 DEF u
<1>9. begins => Waits(x, "compute", x["compute"].issued, "h2d", work["h2d"].issued)
  <2> DEFINE u == waited["h2d"].issued
             v == waited["compute"].issued
             y == x["compute"].issued
             z == work["h2d"].issued
  <2> SUFFICES ASSUME begins PROVE Waits(x, "compute", y, "h2d", z)
    OBVIOUS
  <2>1. u \in Nat /\ v \in Nat /\ y \in Nat /\ z \in Nat /\ z <= u
        /\ v <= reloaded["compute"].issued /\ reloaded["compute"].issued <= y
        /\ reloaded["compute"].issued \in Nat
    BY <1>5, StreamNames
  <2>2. Waits(waited, "compute", v, "h2d", u)
    BY <1>2
  <2> HIDE DEF u, v, y, z
  <2>3. v <= y
    BY ONLY <2>1
  <2>4. Waits(x, "compute", v, "h2d", u) /\ QueuesType(x)
    BY <1>4, <2>1, <2>2, WaitsGrow, StreamNames DEF Grown
  <2> QED  BY <2>1, <2>3, <2>4, WaitsLater, StreamNames
<1>10. x["d2h"] = work["d2h"]
  BY <1>2, <1>3
<1> QED  BY <1>3, <1>4, <1>7, <1>8, <1>9, <1>10 DEF op, k
\* Before a layer of the backward pass: a reload reads a copy that is complete, into memory
\* that nothing is to read any more.
LEMMA CommitBackwardKeeps ==
  ASSUME OffloadAssumption, OffloadInv, CommitBackward
  PROVE  OffloadInv'
<1> DEFINE l == current_group - 1
           n == offloaded_group_count - 1
           begins == Window[n] = l
           moves == begins /\ tag_to_state[n] = "tuple"
           waited == IF begins THEN Both(work, "h2d") ELSE work
           reloaded == IF moves THEN Do(waited, "h2d", "reload", <<"back", n>>) ELSE waited
           first == l = 0
           k == work'["h2d"].issued
           cI == work["compute"].issued
           op == [kind |-> "reload", block |-> <<"back", n>>, value |-> pass, over |-> Pool("h2d")]
<1>1. /\ HostInv' /\ host = "commit backward" /\ host' = "backward"
      /\ work' = IF first THEN WaitStream(reloaded, "compute", "h2d") ELSE reloaded
      /\ released' = released \ IF moves THEN Pool("h2d") ELSE {}
      /\ \A h \in Groups : tag_to_state'[h] = IF moves /\ h = n THEN "loaded" ELSE tag_to_state[h]
      /\ tag_to_state' \in [Groups -> {"none", "saved", "tuple", "loaded"}]
      /\ current_group' = l /\ UNCHANGED <<pass, memory>>
  BY CommitBackwardHost
<1>2. /\ QueuesInv /\ QueuesType(work) /\ pass \in 1..Passes /\ ReadsInv(work, memory)
      /\ HeldInv /\ CopiesInv /\ ReloadsInv
      /\ released \subseteq {"gpu", "back"} \X Groups
      /\ \A s \in Streams : \A i \in Pending(work, s) : Fits(s, Op(work, s, i))
  BY DEF OffloadInv, OffloadTypeOK, QueuesInv
<1>3. /\ BackInv /\ n \in Groups /\ n \in Nat /\ l \in Nat /\ current_group = l + 1
      /\ \A i \in 0..NumOffload - 1 : Window[i] \in Nat /\ (Window[i] = l => i = n)
      /\ n < NumOffload /\ current_group \in Nat
  <2>1. /\ BackInv /\ n \in Groups /\ n \in Nat /\ l \in Nat /\ current_group \in Nat /\ n < NumOffload
        /\ \A i \in 0..NumOffload - 1 : Window[i] \in Nat /\ (Window[i] = l => i = n)
    BY <1>1, BackFacts
  <2>2. current_group = l + 1
    BY ONLY <2>1
  <2> QED  BY <2>1, <2>2
<1>4. Awaited("d2h", Issued("d2h")) /\ ~Forwards
  BY <1>1, <1>2 DEF CopiesInv, Forwards
<1>5. begins \in BOOLEAN /\ moves \in BOOLEAN /\ first \in BOOLEAN /\ (moves => begins)
  OBVIOUS
<1>6. /\ Grown(work, work') /\ work'["d2h"] = work["d2h"]
      /\ \A t \in Streams : \A i \in Pending(work', t) : i > work[t].issued =>
           \/ Op(work', t, i).kind = "wait"
           \/ moves /\ t = "h2d" /\ i = k /\ Op(work', t, i) = op
      /\ moves => /\ k \in Pending(work', "h2d") /\ k > work["h2d"].issued /\ Op(work', "h2d", k) = op
                  /\ Waits(work', "h2d", k, "compute", cI)
      /\ begins => Waits(work', "compute", work'["compute"].issued, "h2d", work["h2d"].issued)
      /\ first => Waits(work', "compute", work'["compute"].issued, "h2d", k)
  <2> HIDE DEF l, n, begins, moves, waited, reloaded, first
  <2>1. waited = IF begins THEN Both(work, "h2d") ELSE work
    BY DEF waited
  <2>2. reloaded = IF moves THEN Do(waited, "h2d", "reload", <<"back", n>>) ELSE waited
    BY DEF reloaded
  <2>3. work' = IF first THEN WaitStream(reloaded, "compute", "h2d") ELSE reloaded
    BY <1>1
  <2>4. QueuesInv /\ pass \in 1..Passes /\ n \in Groups
    BY <1>2, <1>3
  <2>5. LET z == work'["h2d"].issued
            rop == [kind |-> "reload", block |-> <<"back", n>>, value |-> pass, over |-> Pool("h2d")]
        IN /\ Grown(work, work') /\ work'["d2h"] = work["d2h"]
           /\ \A t \in Streams : \A i \in Pending(work', t) : i > work[t].issued =>
                \/ Op(work', t, i).kind = "wait"
                \/ moves /\ t = "h2d" /\ i = z /\ Op(work', t, i) = rop
           /\ moves => /\ z \in Pending(work', "h2d") /\ z > work["h2d"].issued /\ Op(work', "h2d", z) = rop
                       /\ Waits(work', "h2d", z, "compute", work["compute"].issued)
           /\ begins => Waits(work', "compute", work'["compute"].issued, "h2d", work["h2d"].issued)
           /\ first => Waits(work', "compute", work'["compute"].issued, "h2d", z)
    BY ONLY <1>5, <2>1, <2>2, <2>3, <2>4, BackwardQueues
  <2> QED  BY <2>5
<1>7. moves => tag_to_state[n] = "tuple" /\ begins
  OBVIOUS
<1>8. begins => Window[n] = l
  OBVIOUS
<1>9. first <=> l = 0
  OBVIOUS
<1> HIDE DEF l, n, begins, moves, waited, reloaded, first, op
<1>10. /\ op.kind = "reload" /\ op.block = <<"back", n>> /\ op.value = pass /\ op.over = Pool("h2d")
  BY DEF op
<1>11. /\ Pool("h2d") \subseteq released /\ Pool("h2d") \subseteq Blocks
       /\ \A b \in Pool("h2d") : b[1] = "back" /\ Writer(b) = "h2d"
       /\ \A h \in Groups : <<"back", h>> \notin released \ Pool("h2d")
  BY <1>2, PoolFacts, StreamNames
<1>12. \A b \in Blocks : /\ Changes(op, b) => (b \in Pool("h2d") \/ b = <<"back", n>>) /\ b[1] = "back"
                         /\ Reads(op, b) => b = <<"cpu", n>>
  <2>1. Copy(<<"back", n>>) = <<"cpu", n>> /\ <<"back", n>>[1] = "back"
    BY DEF Copy
  <2> QED  BY <1>10, <1>11, <2>1 DEF Changes, Writes, Reads
<1>13. /\ \A t \in Streams : Issued(t) \in Nat /\ Issued(t)' \in Nat /\ Issued(t) <= Issued(t)'
       /\ \A t \in Streams : \A u \in Nat : Awaited(t, u) => Awaited(t, u)'
       /\ Issued("d2h")' = Issued("d2h") /\ cI = Issued("compute")
  BY <1>6, Carried DEF Issued, Awaited
<1>14. \A t \in Streams : \A i \in Pending(work', t) :
         /\ i \in Nat
         /\ i > work[t].issued \/ (i \in Pending(work, t) /\ Op(work', t, i) = Op(work, t, i))
  <2> TAKE t \in Streams
  <2> TAKE i \in Pending(work', t)
  <2>1. i \in Nat /\ work[t].issued \in Nat
    BY <1>6, Positions DEF Grown
  <2>2. i > work[t].issued \/ i <= work[t].issued
    BY ONLY <2>1
  <2> QED  BY <1>6, <2>1, <2>2, GrownFacts
<1>15. QueuesInv'
  <2>1. moves => Fits("h2d", op)
    BY <1>10, <1>11 DEF Fits
  <2>2. \A t \in Streams : \A i \in Pending(work', t) : Fits(t, Op(work', t, i))
    <3> TAKE t \in Streams
    <3> TAKE i \in Pending(work', t)
    <3>1. CASE i > work[t].issued
      BY <1>6, <2>1, <3>1 DEF Fits
    <3>2. CASE i \in Pending(work, t) /\ Op(work', t, i) = Op(work, t, i)
      BY <1>2, <3>2
    <3> QED  BY <1>14, <3>1, <3>2
  <2>3. QueuesType(work')
    BY <1>6 DEF Grown
  <2>4. released' \subseteq {"gpu", "back"} \X Groups
    BY <1>1, <1>2
  <2> QED  BY <2>2, <2>3, <2>4 DEF QueuesInv
<1>16. \A b \in Blocks : b[1] # "back" \/ (b \notin released /\ (moves => b # <<"back", n>>)) =>
         \A i \in Pending(work', Writer(b)) :
            i > Issued(Writer(b)) => ~Changes(Op(work', Writer(b), i), b)
  <2> TAKE b \in Blocks
  <2> HAVE b[1] # "back" \/ (b \notin released /\ (moves => b # <<"back", n>>))
  <2> TAKE i \in Pending(work', Writer(b))
  <2> HAVE i > Issued(Writer(b))
  <2>1. Op(work', Writer(b), i).kind = "wait" \/ (moves /\ Op(work', Writer(b), i) = op)
    BY <1>6, Writers DEF Issued
  <2>2. moves => ~Changes(op, b)
    BY <1>11, <1>12
  <2> QED  BY <2>1, <2>2 DEF Changes
<1>17. \A b \in Blocks : \A p :
         /\ b[1] # "back" \/ (b \notin released /\ (moves => b # <<"back", n>>))
         /\ Leaves(work, memory, Issued(Writer(b)), b, p)
         => /\ Leaves(work', memory, Issued(Writer(b)), b, p)
            /\ Leaves(work', memory, work'[Writer(b)].issued, b, p)
  BY <1>6, <1>16, Carried
<1>18. ReadsInv(work', memory')
  <2> SUFFICES ReadsInv(work', memory)
    BY <1>1
  <2>0. cI \in Nat /\ cI \in 0..work'["compute"].issued
    <3>1. cI \in Nat /\ work'["compute"].issued \in Nat /\ cI <= work'["compute"].issued
      BY <1>13, StreamNames DEF Issued
    <3> HIDE DEF cI
    <3> QED  BY ONLY <3>1
  <2>1. ASSUME moves, NEW r \in Streams, NEW place \in Pending(work, r), NEW b \in Blocks,
               Reads(Op(work, r, place), b), Changes(op, b)
        PROVE  After(work', "h2d", k, r, place)
    <3>1. place \in Nat /\ place <= Issued(r) /\ Op(work, r, place) \in Wait(r) \cup Transfer(r)
          /\ Fits(r, Op(work, r, place))
      BY <1>2, Positions DEF Issued
    <3>2. b[1] = "back"
      BY <1>12, <2>1
    <3>3. r = "compute"
      BY <2>1, <3>1, <3>2 DEF Reads, Copy, Transfer, Wait, Streams, Fits
    <3>4. place <= cI
      BY <1>13, <3>1, <3>3
    <3> QED  BY <1>6, <2>0, <2>1, <3>3, <3>4 DEF After
  <2>2. moves => Finds(work', memory, "h2d", k, <<"cpu", n>>, pass)
    <3> SUFFICES ASSUME moves PROVE Finds(work', memory, "h2d", k, <<"cpu", n>>, pass)
      OBVIOUS
    <3> DEFINE u == Issued("d2h")
               b == <<"cpu", n>>
    <3>1. b \in Blocks /\ Writer(b) = "d2h" /\ b[1] # "back"
      BY <1>3, BlockFacts
    <3>2. Leaves(work, memory, u, b, pass)
      BY <1>2, <1>3, <1>7 DEF HeldInv
    <3>3. Leaves(work', memory, u, b, pass)
      BY <1>17, <3>1, <3>2
    <3>4. u \in Nat /\ u = work'["d2h"].issued
      BY <1>6, <1>13, StreamNames DEF Issued
    <3>5. u \in 0..work'["d2h"].issued
      BY ONLY <3>4
    <3>6. Waits(work', "compute", cI, "d2h", u)
      <4>1. Waits(work, "compute", cI, "d2h", u)
        BY <1>4 DEF Awaited, Issued
      <4> QED  BY <1>6, <2>0, <3>4, <4>1, WaitsGrow, StreamNames
    <3>7. After(work', "h2d", k, "d2h", u)
      BY <1>6, <2>0, <3>6 DEF After
    <3>8. \A i \in Pending(work', "d2h") : ~(u < i)
      <4>1. \A i \in Pending(work', "d2h") : i \in Nat /\ i <= work'["d2h"].issued
        BY <1>6, Positions, StreamNames DEF Grown
      <4> QED  BY ONLY <3>4, <4>1
    <3> HIDE DEF u
    <3> QED  BY <3>1, <3>3, <3>5, <3>7, <3>8 DEF Finds
  <2>3. ASSUME NEW s \in Streams, NEW i \in Pending(work', s), i > work[s].issued, NEW b \in Blocks
        PROVE  /\ Reads(Op(work', s, i), b) => Finds(work', memory, s, i, b, Op(work', s, i).value)
               /\ Changes(Op(work', s, i), b) =>
                    \A r \in Streams : \A place \in Pending(work, r) :
                       Reads(Op(work, r, place), b) => After(work', s, i, r, place)
    <3>1. CASE Op(work', s, i).kind = "wait"
      BY <3>1 DEF Reads, Changes
    <3>2. CASE moves /\ s = "h2d" /\ i = k /\ Op(work', s, i) = op
      <4>1. Reads(op, b) => Finds(work', memory, "h2d", k, b, op.value)
        BY <1>10, <1>12, <2>2, <3>2
      <4> QED  BY <2>1, <3>2, <4>1
    <3> QED  BY <1>6, <2>3, <3>1, <3>2
  <2> QED  BY <1>2, <1>6, <2>3, ReadsGrow
<1>19. HeldInv'
  <2> SUFFICES ASSUME NEW h \in Groups
               PROVE  /\ tag_to_state'[h] = "saved" =>
                           /\ <<"gpu", h>> \notin released'
                           /\ Leaves(work', memory', Issued("compute")', <<"gpu", h>>, pass')
                      /\ tag_to_state'[h] = "tuple" =>
                           Leaves(work', memory', Issued("d2h")', <<"cpu", h>>, pass')
                      /\ tag_to_state'[h] = "loaded" =>
                           /\ <<"back", h>> \notin released'
                           /\ Leaves(work', memory', Issued("h2d")', <<"back", h>>, pass')
    BY DEF HeldInv
  <2>1. /\ tag_to_state[h] = "saved" =>
             /\ <<"gpu", h>> \notin released
             /\ Leaves(work, memory, Issued("compute"), <<"gpu", h>>, pass)
        /\ tag_to_state[h] = "tuple" => Leaves(work, memory, Issued("d2h"), <<"cpu", h>>, pass)
        /\ tag_to_state[h] = "loaded" =>
             /\ <<"back", h>> \notin released
             /\ Leaves(work, memory, Issued("h2d"), <<"back", h>>, pass)
    BY <1>2 DEF HeldInv
  <2>2. /\ <<"gpu", h>> \in Blocks /\ Writer(<<"gpu", h>>) = "compute"
        /\ <<"cpu", h>> \in Blocks /\ Writer(<<"cpu", h>>) = "d2h"
        /\ <<"back", h>> \in Blocks /\ Writer(<<"back", h>>) = "h2d"
        /\ <<"gpu", h>>[1] # "back" /\ <<"cpu", h>>[1] # "back"
    BY BlockFacts
  <2>3. CASE moves /\ h = n
    <3>1. tag_to_state'[h] = "loaded"
      BY <1>1, <2>3
    <3>2. <<"back", h>> \notin released'
      BY <1>1, <1>11, <2>3
    <3>3. Leaves(work', memory, work'["h2d"].issued, <<"back", h>>, pass)
      <4>1. Writes(Op(work', "h2d", k), <<"back", h>>) /\ Op(work', "h2d", k).value = pass
        BY <1>6, <1>10, <2>3 DEF Writes
      <4>2. k \in Pending(work', "h2d") /\ \A j \in Pending(work', "h2d") : ~(k < j)
        <5>1. \A j \in Pending(work', "h2d") : j \in Nat /\ j <= k
          BY <1>6, Positions, StreamNames DEF Grown
        <5>2. k \in Nat /\ k \in Pending(work', "h2d")
          BY <1>6, <2>3, <5>1
        <5> HIDE DEF k
        <5> QED  BY ONLY <5>1, <5>2
      <4>3. QueuesType(work')
        BY <1>6 DEF Grown
      <4> HIDE DEF k
      <4> QED  BY <2>2, <4>1, <4>2, <4>3, WrittenLast, StreamNames
    <3> QED  BY <1>1, <3>1, <3>2, <3>3 DEF Issued
  <2>4. CASE ~(moves /\ h = n)
    <3>1. tag_to_state'[h] = tag_to_state[h]
      BY <1>1, <2>4
    <3>2. <<"gpu", h>> \in released' => <<"gpu", h>> \in released
      BY <1>1
    <3>3. <<"back", h>> \in released' => <<"back", h>> \in released
      BY <1>1
    <3>4. moves => <<"back", h>> # <<"back", n>>
      BY <2>4
    <3>5. /\ tag_to_state[h] = "saved" =>
               Leaves(work', memory, work'["compute"].issued, <<"gpu", h>>, pass)
          /\ tag_to_state[h] = "tuple" =>
               Leaves(work', memory, work'["d2h"].issued, <<"cpu", h>>, pass)
          /\ tag_to_state[h] = "loaded" =>
               Leaves(work', memory, work'["h2d"].issued, <<"back", h>>, pass)
      BY <1>17, <2>1, <2>2, <3>4
    <3> QED  BY <1>1, <2>1, <3>1, <3>2, <3>3, <3>5 DEF Issued
  <2> QED  BY <2>3, <2>4
<1>20. CopiesInv'
  <2>1. Awaited("d2h", Issued("d2h"))'
    <3>1. Waits(work', "compute", Issued("compute")', "d2h", Issued("d2h"))
      BY <1>4, <1>13, StreamNames DEF Awaited
    <3> QED  BY <1>13, <3>1 DEF Awaited
  <2>2. ASSUME NEW i \in Pending(work', "d2h")
        PROVE  Awaited("d2h", i)'
    <3> DEFINE y == work'["compute"].issued
               v == work'["d2h"].issued
    <3>1. i \in Nat /\ i <= v /\ QueuesType(work') /\ y \in Nat /\ v \in Nat
      BY <1>6, Positions, StreamNames DEF Grown
    <3>2. Waits(work', "compute", y, "d2h", v)
      BY <2>1 DEF Awaited, Issued
    <3> HIDE DEF y, v
    <3>3. y <= y
      BY ONLY <3>1
    <3>4. Waits(work', "compute", y, "d2h", i)
      BY <3>1, <3>2, <3>3, WaitsLater, StreamNames
    <3> QED  BY <3>4 DEF Awaited, Issued, y
  <2> QED  BY <2>1, <2>2 DEF CopiesInv
<1>21. ReloadsInv'
  <2>1. first => Awaited("h2d", Issued("h2d"))'
    BY <1>6 DEF Awaited, Issued
  <2>2. ~Forwards' /\ (current_group' = 0 => first)
    BY <1>1, <1>9 DEF Forwards
  <2>3. ASSUME NEW h \in Groups, tag_to_state'[h] = "loaded",
               ~(IF h = 0 THEN l > 0 ELSE l > Window[h - 1])
        PROVE  \E u \in 0..Issued("h2d")' :
                 /\ Awaited("h2d", u)' /\ Leaves(work', memory', u, <<"back", h>>, pass')
                 /\ \A i \in Pending(work', "h2d") :
                      u < i => ~Changes(Op(work', "h2d", i), <<"back", h>>)
    <3> DEFINE b == <<"back", h>>
    <3>1. b \in Blocks /\ Writer(b) = "h2d"
      BY BlockFacts
    <3>2. CASE first
      <4> DEFINE u == Issued("h2d")'
      <4>1. u \in Nat /\ u = work'["h2d"].issued
        BY <1>13, StreamNames DEF Issued
      <4>2. \A i \in Pending(work', "h2d") : ~(u < i)
        <5>1. \A i \in Pending(work', "h2d") : i \in Nat /\ i <= work'["h2d"].issued
          BY <1>6, Positions, StreamNames DEF Grown
        <5> HIDE DEF u
        <5> QED  BY ONLY <4>1, <5>1
      <4>3. Leaves(work', memory', u, b, pass')
        BY <1>19, <2>3 DEF HeldInv
      <4>4. Waits(work', "compute", Issued("compute")', "h2d", u)
        BY <2>1, <3>2 DEF Awaited
      <4>5. u \in 0..u
        <5> HIDE DEF u
        <5> QED  BY ONLY <4>1
      <4>6. Awaited("h2d", Issued("h2d"))'
        BY <2>1, <3>2
      <4> QED  BY <4>2, <4>3, <4>4, <4>5 DEF Awaited
    <3>3. CASE ~first
      <4>1. l > 0 /\ l # 0
        <5>1. l # 0
          BY <1>9, <3>3
        <5> QED  BY ONLY <1>3, <5>1
      <4>2. h # 0 /\ ~(l > Window[h - 1])
        BY <2>3, <4>1
      <4>3. h \in 0..NumOffload - 1 /\ h - 1 \in 0..NumOffload - 1 /\ h \in Nat /\ h - 1 < h
        <5>2. BackInv'
          BY <1>1 DEF HostInv
        <5>3. Moved(h)'
          BY <2>3, <5>2 DEF BackInv
        <5>4. h < NumOffload
          BY <5>3 DEF Moved
        <5>5. NumLayers \in Nat /\ NumOffload \in Nat /\ Groups = 0..NumLayers - 1
          BY Sizes
        <5>6. h \in 0..NumLayers - 1
          BY <5>5
        <5> QED  BY ONLY <4>2, <5>4, <5>5, <5>6
      <4>4. Window[h - 1] \in Nat /\ Window[h] \in Nat /\ Window[h - 1] < Window[h]
        BY <4>3, WindowFacts
      <4>5. ~(moves /\ h = n)
        <5>1. ASSUME moves, h = n PROVE FALSE
          <6>1. Window[h] = l
            BY <1>7, <1>8, <5>1
          <6> QED  BY ONLY <1>3, <4>2, <4>4, <6>1
        <5> QED  BY <5>1
      <4>6. tag_to_state[h] = "loaded"
        BY <1>1, <2>3, <4>5
      <4>7. b \notin released /\ Leaves(work, memory, Issued("h2d"), b, pass)
        BY <1>2, <4>6 DEF HeldInv
      <4>8. moves => b # <<"back", n>>
        BY <4>5
      <4>9. \A i \in Pending(work', "h2d") : i > Issued("h2d") => ~Changes(Op(work', "h2d", i), b)
        BY <1>16, <3>1, <4>7, <4>8
      <4>10. CASE current_group > Window[h - 1]
        <5>1. Window[h - 1] = l
          BY ONLY <1>3, <4>2, <4>4, <4>10
        <5>2. h - 1 = n
          BY <1>3, <4>3, <5>1
        <5>3. begins
          BY <5>1, <5>2 DEF begins
        <5> DEFINE u == Issued("h2d")
        <5>5. Leaves(work', memory, u, b, pass)
          BY <1>17, <3>1, <4>7, <4>8
        <5>6. u \in Nat /\ u \in 0..Issued("h2d")'
          <6>1. u \in Nat /\ Issued("h2d")' \in Nat /\ u <= Issued("h2d")'
            BY <1>13, StreamNames
          <6> HIDE DEF u
          <6> QED  BY ONLY <6>1
        <5>7. \A i \in Pending(work', "h2d") : u < i => i > u
          <6>1. \A i \in Pending(work', "h2d") : i \in Nat
            BY <1>14, StreamNames
          <6> HIDE DEF u
          <6> QED  BY ONLY <5>6, <6>1
        <5>8. \A i \in Pending(work', "h2d") : u < i => ~Changes(Op(work', "h2d", i), b)
          BY <4>9, <5>7
        <5>9. Waits(work', "compute", Issued("compute")', "h2d", u)
          BY <1>6, <5>3 DEF Issued
        <5> QED  BY <1>1, <5>5, <5>6, <5>8, <5>9 DEF Awaited
      <4>11. CASE ~(current_group > Window[h - 1])
        <5>1. PICK u \in 0..Issued("h2d") :
                /\ Awaited("h2d", u) /\ Leaves(work, memory, u, b, pass)
                /\ \A i \in Pending(work, "h2d") : u < i => ~Changes(Op(work, "h2d", i), b)
          BY <1>2, <4>2, <4>6, <4>11 DEF ReloadsInv
        <5>2. u \in 0..work'["h2d"].issued /\ Leaves(work', memory, u, b, pass)
              /\ \A i \in Pending(work', "h2d") : u < i => ~Changes(Op(work', "h2d", i), b)
          BY <1>6, <3>1, <4>9, <5>1, LeftCarried
        <5>3. u \in Nat
          BY <1>13, <5>1, StreamNames
        <5>4. Waits(work', "compute", Issued("compute")', "h2d", u)
          BY <1>13, <5>1, <5>3, StreamNames DEF Awaited
        <5> QED  BY <1>1, <5>2, <5>4 DEF Issued, Awaited
      <4> QED  BY <4>10, <4>11
    <3> QED  BY <3>2, <3>3
  <2>4. \A h \in Groups : tag_to_state'[h] = "loaded" =>
          \/ \E u \in 0..Issued("h2d")' :
               /\ Waits(work', "compute", Issued("compute")', "h2d", u)
               /\ Leaves(work', memory', u, <<"back", h>>, pass')
               /\ \A i \in Pending(work', "h2d") : u < i => ~Changes(Op(work', "h2d", i), <<"back", h>>)
          \/ IF h = 0 THEN current_group' > 0 ELSE current_group' > Window[h - 1]
    BY <1>1, <2>3 DEF Awaited
  <2> QED  BY <2>1, <2>2, <2>4 DEF ReloadsInv, Awaited, Window
<1>22. OffloadTypeOK'
  <2>1. released' \subseteq {"gpu", "back"} \X Groups
    BY <1>1, <1>2
  <2>2. pass' \in 1..Passes
    BY <1>1, <1>2
  <2> QED  BY <1>1, <2>1, <2>2, StaysTyped
<1> QED  BY <1>1, <1>15, <1>18, <1>19, <1>20, <1>21, <1>22 DEF OffloadInv
\* A copy to the host of what a group saved.
Offload(h) == [kind |-> "offload", block |-> <<"gpu", h>>, value |-> pass, over |-> {}]

\* Enqueueing a copy to the host adds that operation and no other.
LEMMA OffloadPuts ==
  ASSUME QueuesInv, pass \in 1..Passes, NEW w, QueuesType(w), NEW h \in Groups
  PROVE  LET x == Do(w, "d2h", "offload", <<"gpu", h>>)
             k == x["d2h"].issued
         IN /\ Grown(w, x) /\ QueuesType(x) /\ \A r \in Streams : r # "d2h" => x[r] = w[r]
            /\ k \in Pending(x, "d2h") /\ k = w["d2h"].issued + 1 /\ Op(x, "d2h", k) = Offload(h)
            /\ \A t \in Streams : \A i \in Pending(x, t) : i > w[t].issued => t = "d2h" /\ i = k
<1> DEFINE x == Do(w, "d2h", "offload", <<"gpu", h>>)
           k == w["d2h"].issued + 1
<1>1. "offload" \in CASE "d2h" = "compute" -> {"forward", "backward"}
                      [] "d2h" = "d2h" -> {"offload"} [] OTHER -> {"reload"}
  OBVIOUS
<1>2. /\ Grown(w, x) /\ x["d2h"].issued = k
      /\ Op(x, "d2h", k) = [kind |-> "offload", block |-> <<"gpu", h>>, value |-> pass,
                            over |-> IF "d2h" = "d2h" THEN {} ELSE Pool("d2h")]
      /\ \A r \in Streams : r # "d2h" => x[r] = w[r]
  <2>1. <<"gpu", h>> \in Blocks
    BY BlockFacts
  <2> QED  BY <1>1, <2>1, DoPuts, StreamNames
<1>3. Op(x, "d2h", k) = Offload(h)
  BY <1>2 DEF Offload
<1> HIDE DEF x
<1>4. /\ k \in Pending(x, "d2h") /\ k \in Nat
      /\ \A t \in Streams : \A i \in Pending(x, t) :
           \/ i \in Pending(w, t) /\ i <= w[t].issued /\ Op(x, t, i) = Op(w, t, i)
           \/ t = "d2h" /\ i = k /\ i > w[t].issued
  BY <1>2, OneMore, StreamNames
<1> HIDE DEF k
<1>5. \A t \in Streams : \A i \in Pending(x, t) : i > w[t].issued => t = "d2h" /\ i = k
  <2> TAKE t \in Streams
  <2> TAKE i \in Pending(x, t)
  <2> HAVE i > w[t].issued
  <2>1. i \in Nat /\ w[t].issued \in Nat
    BY <1>2, Positions DEF Grown
  <2>2. ~(i <= w[t].issued)
    BY ONLY <2>1, i > w[t].issued
  <2> QED  BY <1>4, <2>2
<1>6. QueuesType(x)
  BY <1>2 DEF Grown
<1> QED  BY <1>2, <1>3, <1>4, <1>5, <1>6 DEF x, k

\* What the end of a layer of the forward pass enqueues.
Begun(starts) ==
    IF starts THEN Do(WaitStream(work, "d2h", "compute"), "d2h", "offload", <<"gpu", 0>>) ELSE work
Waited(starts, ends) == IF ends THEN Both(Begun(starts), "d2h") ELSE Begun(starts)
Ahead(starts, ends, copies, later) ==
    IF copies THEN Do(Waited(starts, ends), "d2h", "offload", <<"gpu", later>>) ELSE Waited(starts, ends)
Copied(starts, copies, later) == (IF starts THEN {0} ELSE {}) \cup (IF copies THEN {later} ELSE {})

\* Every copy runs after what the compute stream was given, and it waits for those of the
\* groups before the last.
CopiesAhead(x, moved, ends, copies, later) ==
    /\ Grown(work, x) /\ x["h2d"] = work["h2d"]
    /\ \A t \in Streams : \A i \in Pending(x, t) : i > work[t].issued =>
         \/ Op(x, t, i).kind = "wait"
         \/ /\ t = "d2h" /\ \E h \in moved : Op(x, t, i) = Offload(h)
            /\ Waits(x, "d2h", i, "compute", work["compute"].issued)
    /\ \A h \in moved : \E i \in Pending(x, "d2h") :
         /\ Op(x, "d2h", i) = Offload(h)
         /\ \A j \in Pending(x, "d2h") : i < j =>
              \/ Op(x, "d2h", j).kind = "wait"
              \/ \E e \in moved \ {h} : Op(x, "d2h", j) = Offload(e)
    /\ ends => \A i \in Pending(x, "d2h") :
                 \/ Waits(x, "compute", x["compute"].issued, "d2h", i)
                 \/ copies /\ Op(x, "d2h", i) = Offload(later)
    /\ ends /\ ~copies => Waits(x, "compute", x["compute"].issued, "d2h", x["d2h"].issued)

\* The copies that the end of a layer enqueues are ordered so.
LEMMA ForwardQueues ==
  ASSUME QueuesInv, pass \in 1..Passes, 0 \in Groups, NEW later, later # 0,
         NEW starts \in BOOLEAN, NEW ends \in BOOLEAN, NEW copies \in BOOLEAN,
         copies => ends /\ later \in Groups
  PROVE  CopiesAhead(Ahead(starts, ends, copies, later), Copied(starts, copies, later), ends,
                     copies, later)
<1> DEFINE begun == Begun(starts)
           waited == Waited(starts, ends)
           x == Ahead(starts, ends, copies, later)
<1>0. /\ begun = IF starts
                 THEN Do(WaitStream(work, "d2h", "compute"), "d2h", "offload", <<"gpu", 0>>)
                 ELSE work
      /\ waited = IF ends THEN Both(begun, "d2h") ELSE begun
      /\ x = IF copies THEN Do(waited, "d2h", "offload", <<"gpu", later>>) ELSE waited
  BY DEF Begun, Waited, Ahead
<1> HIDE DEF begun, waited, x
<1> USE <1>0
<1> DEFINE moved == (IF starts THEN {0} ELSE {}) \cup (IF copies THEN {later} ELSE {})
           cI == work["compute"].issued
<1>1. QueuesType(work) /\ cI \in Nat
  BY Positions, StreamNames DEF QueuesInv
<1>2. /\ Grown(work, begun) /\ QueuesType(begun)
      /\ begun["h2d"] = work["h2d"] /\ begun["compute"] = work["compute"]
      /\ starts => LET k == begun["d2h"].issued
                   IN k \in Pending(begun, "d2h") /\ Op(begun, "d2h", k) = Offload(0)
      /\ \A t \in Streams : \A i \in Pending(begun, t) : i > work[t].issued =>
           \/ Op(begun, t, i).kind = "wait"
           \/ /\ starts /\ t = "d2h" /\ Op(begun, t, i) = Offload(0)
              /\ Waits(begun, "d2h", i, "compute", cI)
  <2>1. CASE starts
    <3> DEFINE y == WaitStream(work, "d2h", "compute")
               k == begun["d2h"].issued
               v == y["d2h"].issued
    <3>1. /\ OnlyWaits(work, y) /\ QueuesType(y)
          /\ Waits(y, "d2h", v, "compute", cI)
          /\ \A r \in Streams : r # "d2h" => y[r] = work[r]
      <4>1. "d2h" \in Streams /\ "compute" \in Streams \ {"d2h"}
        BY StreamNames
      <4> QED  BY ONLY <1>1, <4>1, WaitFacts
    <3>2. begun = Do(y, "d2h", "offload", <<"gpu", 0>>)
      BY <2>1
    <3> HIDE DEF y
    <3>3. /\ Grown(y, begun) /\ QueuesType(begun) /\ \A r \in Streams : r # "d2h" => begun[r] = y[r]
          /\ k \in Pending(begun, "d2h") /\ k = v + 1 /\ Op(begun, "d2h", k) = Offload(0)
          /\ \A t \in Streams : \A i \in Pending(begun, t) : i > y[t].issued => t = "d2h" /\ i = k
      BY <3>1, <3>2, OffloadPuts
    <3>4. v \in Nat
      BY <3>1, Positions, StreamNames
    <3> HIDE DEF v, cI, k
    <3>5. v <= k /\ k \in Nat /\ cI <= cI
      BY ONLY <1>1, <3>3, <3>4
    <3>6. Waits(begun, "d2h", v, "compute", cI)
      BY <1>1, <3>1, <3>3, <3>4, WaitsGrow, StreamNames
    <3>7. Waits(begun, "d2h", k, "compute", cI)
      BY <1>1, <3>3, <3>4, <3>5, <3>6, WaitsLater, StreamNames
    <3>8. Grown(work, begun)
      BY <3>1, <3>3, GrownTwice DEF OnlyWaits
    <3>9. ASSUME NEW t \in Streams, NEW i \in Pending(begun, t), i > work[t].issued
          PROVE  \/ Op(begun, t, i).kind = "wait"
                 \/ /\ t = "d2h" /\ Op(begun, t, i) = Offload(0)
                    /\ Waits(begun, "d2h", i, "compute", cI)
      <4>1. CASE i > y[t].issued
        BY <3>3, <3>7, <4>1
      <4>2. CASE i <= y[t].issued
        <5>1. i \in Pending(y, t) /\ Op(begun, t, i) = Op(y, t, i)
          <6>1. Grown(y, begun)
            BY <3>3
          <6> QED  BY <4>2, <6>1, GrownFacts
        <5> QED  BY <3>1, <3>9, <5>1 DEF OnlyWaits
      <4>3. i \in Nat /\ y[t].issued \in Nat
        BY <3>1, <3>3, Positions
      <4>4. i > y[t].issued \/ i <= y[t].issued
        BY ONLY <4>3
      <4> QED  BY <4>1, <4>2, <4>4
    <3> QED  BY <2>1, <3>1, <3>3, <3>8, <3>9, StreamNames DEF k
  <2>2. CASE ~starts
    <3>1. begun = work
      BY <2>2
    <3>2. OnlyWaits(work, work)
      BY <1>1, OnlyWaitsNone
    <3> QED  BY <1>1, <2>2, <3>1, <3>2 DEF OnlyWaits
  <2> QED  BY <2>1, <2>2
<1>3. /\ OnlyWaits(begun, waited) /\ QueuesType(waited) /\ waited["h2d"] = begun["h2d"]
      /\ ends => /\ Waits(waited, "d2h", waited["d2h"].issued, "compute", cI)
                 /\ Waits(waited, "compute", waited["compute"].issued, "d2h", waited["d2h"].issued)
  <2>1. CASE ends
    <3> DEFINE y == Both(begun, "d2h")
    <3>1. "d2h" \in Streams \ {"compute"}
      BY StreamNames
    <3>2. /\ OnlyWaits(begun, y) /\ QueuesType(y)
          /\ Waits(y, "d2h", y["d2h"].issued, "compute", begun["compute"].issued)
          /\ Waits(y, "compute", y["compute"].issued, "d2h", y["d2h"].issued)
          /\ \A r \in Streams : r \notin {"d2h", "compute"} => y[r] = begun[r]
      BY ONLY <1>2, <3>1, BothFacts
    <3>3. waited = y
      BY <2>1
    <3> HIDE DEF y
    <3> QED  BY <1>2, <3>2, <3>3, StreamNames
  <2>2. CASE ~ends
    BY <1>2, <2>2, OnlyWaitsNone
  <2> QED  BY <2>1, <2>2
<1> DEFINE k == x["d2h"].issued
<1>4. /\ Grown(waited, x) /\ QueuesType(x) /\ x["h2d"] = waited["h2d"] /\ x["compute"] = waited["compute"]
      /\ copies => /\ k \in Pending(x, "d2h") /\ Op(x, "d2h", k) = Offload(later)
                   /\ k = waited["d2h"].issued + 1
      /\ \A t \in Streams : \A i \in Pending(x, t) : i > waited[t].issued =>
           copies /\ t = "d2h" /\ i = k /\ Op(x, t, i) = Offload(later)
  <2>1. CASE copies
    <3>1. x = Do(waited, "d2h", "offload", <<"gpu", later>>) /\ later \in Groups
      BY <2>1
    <3>2. /\ Grown(waited, x) /\ QueuesType(x) /\ \A r \in Streams : r # "d2h" => x[r] = waited[r]
          /\ k \in Pending(x, "d2h") /\ k = waited["d2h"].issued + 1 /\ Op(x, "d2h", k) = Offload(later)
          /\ \A t \in Streams : \A i \in Pending(x, t) : i > waited[t].issued => t = "d2h" /\ i = k
      <4> DEFINE y == Do(waited, "d2h", "offload", <<"gpu", later>>)
                 v == y["d2h"].issued
      <4>1. QueuesInv /\ pass \in 1..Passes /\ QueuesType(waited) /\ later \in Groups
        BY <1>3, <3>1
      <4>2. /\ Grown(waited, y) /\ QueuesType(y) /\ \A r \in Streams : r # "d2h" => y[r] = waited[r]
            /\ v \in Pending(y, "d2h") /\ v = waited["d2h"].issued + 1 /\ Op(y, "d2h", v) = Offload(later)
            /\ \A t \in Streams : \A i \in Pending(y, t) : i > waited[t].issued => t = "d2h" /\ i = v
        BY ONLY <4>1, OffloadPuts
      <4>3. x = y
        BY <3>1
      <4> HIDE DEF y
      <4> QED  BY <4>2, <4>3
    <3> HIDE DEF k
    <3> QED  BY <2>1, <3>2, StreamNames
  <2>2. CASE ~copies
    <3>1. x = waited
      BY <2>2
    <3>2. OnlyWaits(waited, waited)
      BY <1>3, OnlyWaitsNone
    <3>3. \A t \in Streams : \A i \in Pending(waited, t) : ~(i > waited[t].issued)
      <4> TAKE t \in Streams
      <4> TAKE i \in Pending(waited, t)
      <4>1. i \in Nat /\ i <= waited[t].issued /\ waited[t].issued \in Nat
        BY <1>3, Positions
      <4> QED  BY ONLY <4>1
    <3> QED  BY <1>3, <2>2, <3>1, <3>2, <3>3 DEF OnlyWaits
  <2> QED  BY <2>1, <2>2
<1> HIDE DEF k, cI
<1>5. /\ Grown(work, begun) /\ Grown(begun, waited) /\ Grown(waited, x) /\ Grown(work, x)
      /\ Grown(begun, x)
  <2>1. Grown(work, begun) /\ Grown(begun, waited) /\ Grown(waited, x)
    BY <1>2, <1>3, <1>4 DEF OnlyWaits
  <2>2. Grown(begun, x)
    BY <2>1, GrownTwice
  <2> QED  BY <2>1, <2>2, GrownTwice
<1>6. ASSUME NEW t \in Streams
      PROVE  /\ work[t].issued \in Nat /\ begun[t].issued \in Nat /\ waited[t].issued \in Nat
             /\ x[t].issued \in Nat /\ begun[t].issued <= waited[t].issued
             /\ waited[t].issued <= x[t].issued /\ Pending(x, t) \subseteq Nat
             /\ \A i \in Pending(x, t) : i <= x[t].issued
  BY <1>5, GrownFacts, Positions
<1>7. ASSUME NEW i \in Pending(x, "d2h"), i > waited["d2h"].issued
      PROVE  copies /\ i = k /\ Op(x, "d2h", i) = Offload(later) /\ Waits(x, "d2h", i, "compute", cI)
  <2>1. copies /\ i = k /\ Op(x, "d2h", i) = Offload(later)
    BY <1>4, <1>7, StreamNames
  <2> DEFINE v == waited["d2h"].issued
  <2>2. v \in Nat /\ i \in Nat /\ i > v /\ Waits(waited, "d2h", v, "compute", cI)
    BY <1>3, <1>6, <1>7, <2>1, StreamNames
  <2> HIDE DEF v
  <2>3. Waits(x, "d2h", v, "compute", cI)
    BY <1>1, <1>4, <2>2, WaitsGrow, StreamNames
  <2>4. v <= i /\ cI <= cI
    BY ONLY <1>1, <2>2
  <2>5. Waits(x, "d2h", i, "compute", cI)
    BY <1>1, <1>4, <2>2, <2>3, <2>4, WaitsLater, StreamNames
  <2> QED  BY <2>1, <2>5
<1>8. ASSUME NEW t \in Streams, NEW i \in Pending(x, t), i > work[t].issued
      PROVE  \/ Op(x, t, i).kind = "wait"
             \/ /\ t = "d2h" /\ \E h \in moved : Op(x, t, i) = Offload(h)
                /\ Waits(x, "d2h", i, "compute", cI)
  <2>1. CASE i > waited[t].issued
    <3>1. t = "d2h"
      BY <1>4, <2>1
    <3>2. copies /\ Op(x, "d2h", i) = Offload(later) /\ Waits(x, "d2h", i, "compute", cI)
      BY <1>7, <2>1, <3>1
    <3> QED  BY <3>1, <3>2
  <2>2. CASE i <= waited[t].issued /\ i > begun[t].issued
    <3>1. i \in Pending(waited, t) /\ Op(x, t, i) = Op(waited, t, i)
      BY <1>5, <2>2, GrownFacts
    <3> QED  BY <1>3, <2>2, <3>1 DEF OnlyWaits
  <2>3. CASE i <= begun[t].issued
    <3>1. i \in Pending(begun, t) /\ Op(x, t, i) = Op(begun, t, i) /\ i \in Nat
      BY <1>5, <1>6, <2>3, GrownFacts
    <3>2. Waits(begun, "d2h", i, "compute", cI) => Waits(x, "d2h", i, "compute", cI)
      BY <1>1, <1>5, <3>1, WaitsGrow, StreamNames
    <3>3. starts => 0 \in moved
      OBVIOUS
    <3> HIDE DEF moved
    <3> QED  BY <1>2, <1>8, <3>1, <3>2, <3>3
  <2>4. i \in Nat /\ waited[t].issued \in Nat /\ begun[t].issued \in Nat
    BY <1>6
  <2>5. i > waited[t].issued \/ (i <= waited[t].issued /\ i > begun[t].issued) \/ i <= begun[t].issued
    BY ONLY <2>4
  <2> QED  BY <2>1, <2>2, <2>3, <2>5
<1>9. ASSUME NEW h \in moved
      PROVE  \E i \in Pending(x, "d2h") :
               /\ Op(x, "d2h", i) = Offload(h)
               /\ \A j \in Pending(x, "d2h") : i < j =>
                    \/ Op(x, "d2h", j).kind = "wait"
                    \/ \E e \in moved \ {h} : Op(x, "d2h", j) = Offload(e)
  <2>1. CASE copies /\ h = later
    <3>1. \A j \in Pending(x, "d2h") : ~(k < j)
      <4>1. k \in Nat /\ \A j \in Pending(x, "d2h") : j \in Nat /\ j <= k
        BY <1>6, StreamNames DEF k
      <4> QED  BY ONLY <4>1
    <3> QED  BY <1>4, <2>1, <3>1
  <2>2. CASE starts /\ h = 0
    <3> DEFINE v == begun["d2h"].issued
    <3>1. v \in Pending(begun, "d2h") /\ Op(begun, "d2h", v) = Offload(0) /\ v \in Nat
      BY <1>2, <1>6, <2>2, StreamNames
    <3>2. v \in Pending(x, "d2h") /\ Op(x, "d2h", v) = Offload(h)
      BY <1>5, <2>2, <3>1, GrownFacts, StreamNames
    <3>3. ASSUME NEW j \in Pending(x, "d2h"), v < j
          PROVE  \/ Op(x, "d2h", j).kind = "wait"
                 \/ \E e \in moved \ {h} : Op(x, "d2h", j) = Offload(e)
      <4>1. CASE j > waited["d2h"].issued
        <5>1. copies /\ Op(x, "d2h", j) = Offload(later)
          BY <1>7, <4>1
        <5>2. later \in moved \ {h}
          BY <2>2, <5>1
        <5> QED  BY <5>1, <5>2
      <4>2. CASE j <= waited["d2h"].issued
        <5>1. j \in Pending(waited, "d2h") /\ Op(x, "d2h", j) = Op(waited, "d2h", j)
          BY <1>5, <4>2, GrownFacts, StreamNames
        <5>2. j \in Nat
          BY <1>6, StreamNames
        <5>3. j > v
          <6> HIDE DEF v
          <6> QED  BY ONLY <3>1, <3>3, <5>2
        <5> QED  BY <1>3, <5>1, <5>3, StreamNames DEF OnlyWaits
      <4>3. j \in Nat /\ waited["d2h"].issued \in Nat
        BY <1>6, StreamNames
      <4>4. j > waited["d2h"].issued \/ j <= waited["d2h"].issued
        BY ONLY <4>3
      <4> QED  BY <4>1, <4>2, <4>4
    <3> HIDE DEF v
    <3> QED  BY <3>2, <3>3
  <2> QED  BY <2>1, <2>2
<1>10. ASSUME ends
       PROVE  /\ \A i \in Pending(x, "d2h") :
                   \/ Waits(x, "compute", x["compute"].issued, "d2h", i)
                   \/ copies /\ Op(x, "d2h", i) = Offload(later)
              /\ ~copies => Waits(x, "compute", x["compute"].issued, "d2h", x["d2h"].issued)
  <2> DEFINE v == waited["compute"].issued
             u == waited["d2h"].issued
  <2>1. v = x["compute"].issued /\ v \in Nat /\ u \in Nat
    BY <1>4, <1>6, StreamNames
  <2>2. Waits(waited, "compute", v, "d2h", u)
    BY <1>3, <1>10
  <2> HIDE DEF v, u
  <2>3. Waits(x, "compute", v, "d2h", u)
    BY <1>4, <2>1, <2>2, WaitsGrow, StreamNames
  <2>4. ASSUME NEW i \in Pending(x, "d2h")
        PROVE  \/ Waits(x, "compute", v, "d2h", i)
               \/ copies /\ Op(x, "d2h", i) = Offload(later)
    <3>1. i \in Nat
      BY <1>6, StreamNames
    <3>2. CASE i <= u
      <4>1. v <= v
        BY ONLY <2>1
      <4> QED  BY <1>4, <2>1, <2>3, <3>1, <3>2, <4>1, WaitsLater, StreamNames
    <3>3. CASE i > u
      BY <1>7, <3>3 DEF u
    <3>4. i <= u \/ i > u
      BY ONLY <2>1, <3>1
    <3> QED  BY <3>2, <3>3, <3>4
  <2>5. ~copies => x["d2h"].issued = u
    BY DEF u
  <2> QED  BY <2>1, <2>3, <2>4, <2>5
<1>11. x["h2d"] = work["h2d"]
  BY <1>2, <1>3, <1>4
<1>12. moved = Copied(starts, copies, later)
  BY DEF Copied
<1> HIDE DEF moved
<1>13. CopiesAhead(x, moved, ends, copies, later)
  BY <1>5, <1>8, <1>9, <1>10, <1>11 DEF cI, CopiesAhead
<1> QED  BY ONLY <1>12, <1>13 DEF x
\* After a layer of the forward pass: a copy reads what was saved, nothing is to be reloaded
\* from where it goes, and a group is released only once its copy is awaited.
LEMMA CommitForwardKeeps ==
  ASSUME OffloadAssumption, OffloadInv, CommitForward
  PROVE  OffloadInv'
<1> DEFINE l == current_group
           n == offloaded_group_count
           later == n + 1
           starts == l = 0
           ends == Window[n] = l
           more == ends /\ n < NumOffload - 1
           copies == more /\ tag_to_state[later] = "saved"
           begun == IF starts THEN BulkOffload(WaitStream(work, "d2h", "compute"), tag_to_state, 0)
                    ELSE work
           waited == IF ends THEN Both(begun, "d2h") ELSE begun
           moved == (IF starts THEN {0} ELSE {}) \cup (IF copies THEN {later} ELSE {})
           cI == work["compute"].issued
<1>1. /\ HostInv'
      /\ moved \subseteq Groups /\ \A h \in moved : tag_to_state[h] = "saved"
      /\ \A h \in Groups : tag_to_state'[h] = IF h \in moved THEN "tuple" ELSE tag_to_state[h]
      /\ ends => tag_to_state'[n] = "tuple" \/ <<"gpu", n>> \notin released' \ released
      /\ released' = released \cup {<<"gpu", n>>} \/ released' = released
      /\ released' # released => ends
      /\ ~Forwards' => ends /\ ~more
      /\ tag_to_state' = [h \in Groups |-> tag_to_state'[h]]
      /\ current_group' = l + 1 /\ UNCHANGED <<pass, memory>>
      /\ work' = IF more /\ tag_to_state[later] = "saved"
                 THEN Do(waited, "d2h", "offload", <<"gpu", later>>) ELSE waited
  BY CommitForwardHost
<1>2. /\ QueuesInv /\ QueuesType(work) /\ pass \in 1..Passes /\ ReadsInv(work, memory)
      /\ HeldInv /\ CopiesInv /\ ReloadsInv
      /\ tag_to_state \in [Groups -> {"none", "saved", "tuple", "loaded"}]
      /\ released \subseteq {"gpu", "back"} \X Groups
      /\ \A s \in Streams : \A i \in Pending(work, s) : Fits(s, Op(work, s, i))
  BY DEF OffloadInv, OffloadTypeOK, QueuesInv
<1>3. Forwards
  BY DEF CommitForward, Forwards
<1>4. AheadInv /\ n \in Groups /\ n \in Nat /\ l \in Nat
  BY <1>3, AheadFacts
<1>5. 0 \in Groups /\ later # 0 /\ later # n
  <2>1. 0 \in Groups
    BY Sizes
  <2> HIDE DEF n
  <2> QED  BY ONLY <1>4, <2>1
<1>6. copies => later \in moved
  OBVIOUS
<1>7. begun = IF starts THEN Do(WaitStream(work, "d2h", "compute"), "d2h", "offload", <<"gpu", 0>>)
              ELSE work
  <2>1. starts => tag_to_state[0] = "saved"
    BY <1>1
  <2> QED  BY <2>1 DEF BulkOffload
<1> HIDE DEF starts, ends, begun, waited
<1>8. /\ Grown(work, work') /\ work'["h2d"] = work["h2d"]
      /\ \A t \in Streams : \A i \in Pending(work', t) : i > work[t].issued =>
           \/ Op(work', t, i).kind = "wait"
           \/ /\ t = "d2h" /\ \E h \in moved : Op(work', t, i) = Offload(h)
              /\ Waits(work', "d2h", i, "compute", cI)
      /\ \A h \in moved : \E i \in Pending(work', "d2h") :
           /\ Op(work', "d2h", i) = Offload(h)
           /\ \A j \in Pending(work', "d2h") : i < j =>
                \/ Op(work', "d2h", j).kind = "wait"
                \/ \E e \in moved \ {h} : Op(work', "d2h", j) = Offload(e)
      /\ ends => \A i \in Pending(work', "d2h") :
                   \/ Waits(work', "compute", work'["compute"].issued, "d2h", i)
                   \/ copies /\ Op(work', "d2h", i) = Offload(later)
      /\ ends /\ ~copies => Waits(work', "compute", work'["compute"].issued, "d2h", work'["d2h"].issued)
  <2>1. starts \in BOOLEAN /\ ends \in BOOLEAN /\ copies \in BOOLEAN
    BY DEF starts, ends
  <2>2. copies => ends /\ later \in Groups
    BY <1>1, <1>6
  <2>3. waited = IF ends THEN Both(begun, "d2h") ELSE begun
    BY DEF waited
  <2>4. work' = IF copies THEN Do(waited, "d2h", "offload", <<"gpu", later>>) ELSE waited
    BY <1>1
  <2>5. QueuesInv /\ pass \in 1..Passes
    BY <1>2
  <2>6. moved = Copied(starts, copies, later)
    BY DEF Copied
  <2>7. work' = Ahead(starts, ends, copies, later)
    BY <1>7, <2>3, <2>4 DEF Ahead, Waited, Begun
  <2> HIDE DEF copies, later, moved
  <2>8. CopiesAhead(Ahead(starts, ends, copies, later), Copied(starts, copies, later), ends,
                    copies, later)
    BY ONLY <1>5, <2>1, <2>2, <2>5, ForwardQueues
  <2>9. CopiesAhead(work', moved, ends, copies, later)
    BY ONLY <2>6, <2>7, <2>8
  <2> QED  BY ONLY <2>9 DEF CopiesAhead, cI
<1>9. copies => ends
  OBVIOUS
<1>10. ~Forwards' => ends /\ ~copies
  BY <1>1
<1> HIDE DEF l, n, more, copies, later, moved
<1>11. \A h \in moved : /\ Offload(h).kind = "offload" /\ Offload(h).block = <<"gpu", h>>
                        /\ Offload(h).value = pass /\ Offload(h).over = {}
  BY DEF Offload
<1>12. \A h \in moved : \A b \in Blocks :
         /\ Changes(Offload(h), b) <=> b = <<"cpu", h>>
         /\ Writes(Offload(h), b) <=> b = <<"cpu", h>>
         /\ Reads(Offload(h), b) <=> b = <<"gpu", h>>
  <2> TAKE h \in moved
  <2>1. Copy(<<"gpu", h>>) = <<"cpu", h>>
    BY DEF Copy
  <2> QED  BY <1>11, <2>1 DEF Changes, Writes, Reads
<1>13. /\ \A t \in Streams : Issued(t) \in Nat /\ Issued(t)' \in Nat /\ Issued(t) <= Issued(t)'
       /\ \A t \in Streams : \A u \in Nat : Awaited(t, u) => Awaited(t, u)'
       /\ Issued("h2d")' = Issued("h2d") /\ cI = Issued("compute")
  BY <1>8, Carried DEF Issued, Awaited
<1> HIDE DEF cI
<1>14. \A t \in Streams : \A i \in Pending(work', t) :
         /\ i \in Nat
         /\ i > work[t].issued \/ (i \in Pending(work, t) /\ Op(work', t, i) = Op(work, t, i))
  <2> TAKE t \in Streams
  <2> TAKE i \in Pending(work', t)
  <2>1. i \in Nat /\ work[t].issued \in Nat
    BY <1>8, Positions DEF Grown
  <2>2. i > work[t].issued \/ i <= work[t].issued
    BY ONLY <2>1
  <2> QED  BY <1>8, <2>1, <2>2, GrownFacts
<1>15. QueuesInv'
  <2>1. \A h \in moved : Fits("d2h", Offload(h))
    BY <1>11 DEF Fits
  <2>2. \A t \in Streams : \A i \in Pending(work', t) : Fits(t, Op(work', t, i))
    <3> TAKE t \in Streams
    <3> TAKE i \in Pending(work', t)
    <3>1. CASE i > work[t].issued
      BY <1>8, <2>1, <3>1 DEF Fits
    <3>2. CASE i \in Pending(work, t) /\ Op(work', t, i) = Op(work, t, i)
      BY <1>2, <3>2
    <3> QED  BY <1>14, <3>1, <3>2
  <2>3. QueuesType(work')
    BY <1>8 DEF Grown
  <2>4. released' \subseteq {"gpu", "back"} \X Groups
    BY <1>1, <1>2, <1>4
  <2> QED  BY <2>2, <2>3, <2>4 DEF QueuesInv
<1>16. \A b \in Blocks : (\A h \in moved : b # <<"cpu", h>>) =>
         \A i \in Pending(work', Writer(b)) :
            i > Issued(Writer(b)) => ~Changes(Op(work', Writer(b), i), b)
  <2> TAKE b \in Blocks
  <2> HAVE \A h \in moved : b # <<"cpu", h>>
  <2> TAKE i \in Pending(work', Writer(b))
  <2> HAVE i > Issued(Writer(b))
  <2>1. Op(work', Writer(b), i).kind = "wait" \/ (\E h \in moved : Op(work', Writer(b), i) = Offload(h))
    BY <1>8, Writers DEF Issued
  <2> QED  BY <1>12, <2>1 DEF Changes
<1>17. \A b \in Blocks : \A p :
         /\ \A h \in moved : b # <<"cpu", h>>
         /\ Leaves(work, memory, Issued(Writer(b)), b, p)
         => /\ Leaves(work', memory, Issued(Writer(b)), b, p)
            /\ Leaves(work', memory, work'[Writer(b)].issued, b, p)
  BY <1>8, <1>16, Carried
<1>18. \A h \in moved : h \in Groups /\ tag_to_state[h] = "saved" /\ tag_to_state'[h] = "tuple"
  BY <1>1
<1>19. cI \in Nat /\ cI \in 0..work'["compute"].issued
  <2>1. cI \in Nat /\ work'["compute"].issued \in Nat /\ cI <= work'["compute"].issued
    BY <1>13, StreamNames DEF Issued
  <2> QED  BY ONLY <2>1
<1>20. ReadsInv(work', memory')
  <2> SUFFICES ReadsInv(work', memory)
    BY <1>1
  <2>1. ASSUME NEW i \in Pending(work', "d2h"), Waits(work', "d2h", i, "compute", cI), NEW b \in Blocks,
               NEW h \in moved, Changes(Offload(h), b),
               NEW r \in Streams, NEW place \in Pending(work, r), Reads(Op(work, r, place), b)
        PROVE  After(work', "d2h", i, r, place)
    <3>1. place \in Nat /\ place <= Issued(r) /\ Op(work, r, place) \in Wait(r) \cup Transfer(r)
          /\ Fits(r, Op(work, r, place))
      BY <1>2, Positions DEF Issued
    <3>2. b[1] = "cpu"
      BY <1>12, <2>1
    <3>3. r = "h2d"
      BY <2>1, <3>1, <3>2 DEF Reads, Copy, Transfer, Wait, Streams, Fits
    <3> DEFINE v == Issued("h2d")
    <3>4. v \in Nat /\ place <= v /\ Waits(work, "compute", cI, "h2d", v)
      BY <1>2, <1>3, <1>13, <3>1, <3>3, StreamNames DEF ReloadsInv, Awaited
    <3> HIDE DEF v
    <3>5. cI <= cI
      BY ONLY <1>19
    <3>6. Waits(work, "compute", cI, "h2d", place)
      BY <1>2, <1>19, <3>1, <3>4, <3>5, WaitsLater, StreamNames
    <3>7. Waits(work', "compute", cI, "h2d", place)
      BY <1>8, <1>19, <3>1, <3>6, WaitsGrow, StreamNames
    <3> QED  BY <1>19, <2>1, <3>3, <3>7 DEF After
  <2>2. ASSUME NEW i \in Pending(work', "d2h"), Waits(work', "d2h", i, "compute", cI), NEW h \in moved
        PROVE  Finds(work', memory, "d2h", i, <<"gpu", h>>, pass)
    <3> DEFINE b == <<"gpu", h>>
    <3>1. b \in Blocks /\ Writer(b) = "compute" /\ \A e \in moved : b # <<"cpu", e>>
      BY <1>18, BlockFacts
    <3>2. Leaves(work, memory, cI, b, pass)
      BY <1>2, <1>13, <1>18 DEF HeldInv
    <3>3. Leaves(work', memory, cI, b, pass)
      BY <1>13, <1>17, <3>1, <3>2
    <3>4. cI <= cI
      BY ONLY <1>19
    <3>5. After(work', "d2h", i, "compute", cI)
      BY <1>19, <2>2, <3>4 DEF After
    <3>6. \A j \in Pending(work', "compute") : cI < j => ~Changes(Op(work', "compute", j), b)
      <4>1. \A j \in Pending(work', "compute") : cI < j => j > cI
        <5>1. \A j \in Pending(work', "compute") : j \in Nat
          BY <1>14, StreamNames
        <5> QED  BY ONLY <1>19, <5>1
      <4> QED  BY <1>13, <1>16, <3>1, <4>1
    <3> QED  BY <1>19, <3>1, <3>3, <3>5, <3>6 DEF Finds
  <2>3. ASSUME NEW s \in Streams, NEW i \in Pending(work', s), i > work[s].issued, NEW b \in Blocks
        PROVE  /\ Reads(Op(work', s, i), b) => Finds(work', memory, s, i, b, Op(work', s, i).value)
               /\ Changes(Op(work', s, i), b) =>
                    \A r \in Streams : \A place \in Pending(work, r) :
                       Reads(Op(work, r, place), b) => After(work', s, i, r, place)
    <3>1. CASE Op(work', s, i).kind = "wait"
      BY <3>1 DEF Reads, Changes
    <3>2. CASE /\ s = "d2h" /\ \E h \in moved : Op(work', s, i) = Offload(h)
               /\ Waits(work', "d2h", i, "compute", cI)
      <4>1. PICK h \in moved : Op(work', s, i) = Offload(h)
        BY <3>2
      <4>2. Reads(Offload(h), b) => Finds(work', memory, "d2h", i, b, pass)
        BY <1>12, <2>2, <3>2
      <4>3. Offload(h).value = pass
        BY <1>11
      <4>4. Changes(Offload(h), b) =>
                    \A r \in Streams : \A place \in Pending(work, r) :
                       Reads(Op(work, r, place), b) => After(work', "d2h", i, r, place)
        BY <2>1, <3>2
      <4> QED  BY <3>2, <4>1, <4>2, <4>3, <4>4
    <3> QED  BY <1>8, <2>3, <3>1, <3>2
  <2> QED  BY <1>2, <1>8, <2>3, ReadsGrow
<1>21. \A h \in Groups : tag_to_state[h] # "loaded" /\ tag_to_state'[h] # "loaded"
  <2>1. \A h \in Groups : tag_to_state[h] # "loaded"
    BY <1>4 DEF AheadInv
  <2> QED  BY <1>1, <2>1
<1>22. \A h \in Groups : <<"gpu", h>> \in released' => <<"gpu", h>> \in released \/ (h = n /\ ends)
  BY <1>1
<1>23. <<"gpu", n>> \in released' /\ <<"gpu", n>> \notin released => tag_to_state'[n] = "tuple"
  BY <1>1, <1>22, <1>4
<1>24. HeldInv'
  <2> SUFFICES ASSUME NEW h \in Groups
               PROVE  /\ tag_to_state'[h] = "saved" =>
                           /\ <<"gpu", h>> \notin released'
                           /\ Leaves(work', memory', Issued("compute")', <<"gpu", h>>, pass')
                      /\ tag_to_state'[h] = "tuple" =>
                           Leaves(work', memory', Issued("d2h")', <<"cpu", h>>, pass')
    BY <1>21 DEF HeldInv
  <2>1. /\ tag_to_state[h] = "saved" =>
             /\ <<"gpu", h>> \notin released
             /\ Leaves(work, memory, Issued("compute"), <<"gpu", h>>, pass)
        /\ tag_to_state[h] = "tuple" => Leaves(work, memory, Issued("d2h"), <<"cpu", h>>, pass)
    BY <1>2 DEF HeldInv
  <2>2. /\ <<"gpu", h>> \in Blocks /\ Writer(<<"gpu", h>>) = "compute"
        /\ <<"cpu", h>> \in Blocks /\ Writer(<<"cpu", h>>) = "d2h"
        /\ \A e \in moved : <<"gpu", h>> # <<"cpu", e>>
    BY BlockFacts
  <2>3. CASE h \in moved
    <3>1. tag_to_state'[h] = "tuple"
      BY <1>18, <2>3
    <3>2. PICK i \in Pending(work', "d2h") :
             /\ Op(work', "d2h", i) = Offload(h)
             /\ \A j \in Pending(work', "d2h") : i < j =>
                  \/ Op(work', "d2h", j).kind = "wait"
                  \/ \E e \in moved \ {h} : Op(work', "d2h", j) = Offload(e)
      BY <1>8, <2>3
    <3>3. Writes(Op(work', "d2h", i), <<"cpu", h>>) /\ Op(work', "d2h", i).value = pass
      BY <1>11, <1>12, <2>2, <2>3, <3>2
    <3>4. \A j \in Pending(work', "d2h") : i < j => ~Changes(Op(work', "d2h", j), <<"cpu", h>>)
      <4>1. \A e \in moved \ {h} : ~Changes(Offload(e), <<"cpu", h>>)
        BY <1>12, <2>2
      <4> QED  BY <3>2, <4>1 DEF Changes
    <3>5. QueuesType(work')
      BY <1>8 DEF Grown
    <3>6. Leaves(work', memory, work'["d2h"].issued, <<"cpu", h>>, pass)
      BY <2>2, <3>3, <3>4, <3>5, WrittenLast, StreamNames
    <3> QED  BY <1>1, <3>1, <3>6 DEF Issued
  <2>4. CASE h \notin moved
    <3>1. tag_to_state'[h] = tag_to_state[h]
      BY <1>1, <2>4
    <3>2. \A e \in moved : <<"cpu", h>> # <<"cpu", e>>
      BY <2>4
    <3>3. tag_to_state[h] = "saved" => <<"gpu", h>> \notin released'
      BY <1>22, <1>23, <2>1, <3>1
    <3>4. /\ tag_to_state[h] = "saved" =>
               Leaves(work', memory, work'["compute"].issued, <<"gpu", h>>, pass)
          /\ tag_to_state[h] = "tuple" =>
               Leaves(work', memory, work'["d2h"].issued, <<"cpu", h>>, pass)
      BY <1>17, <2>1, <2>2, <3>2
    <3> QED  BY <1>1, <3>1, <3>3, <3>4 DEF Issued
  <2> QED  BY <2>3, <2>4
<1>25. CopiesInv'
  <2>1. ~Forwards' => Awaited("d2h", Issued("d2h"))'
    BY <1>8, <1>10 DEF Awaited, Issued
  <2>2. ASSUME NEW i \in Pending(work', "d2h"), Op(work', "d2h", i).kind = "offload"
        PROVE  LET b == Op(work', "d2h", i).block IN
               Awaited("d2h", i)' \/ (tag_to_state'[b[2]] = "tuple" /\ b \notin released')
    <3> DEFINE b == Op(work', "d2h", i).block
    <3>1. CASE i > work["d2h"].issued
      <4>1. PICK h \in moved : Op(work', "d2h", i) = Offload(h)
        BY <1>8, <2>2, <3>1, StreamNames
      <4>2. b = <<"gpu", h>> /\ b[2] = h
        BY <1>11, <4>1
      <4>3. tag_to_state'[h] = "tuple" /\ <<"gpu", h>> \notin released /\ h \in Groups
        BY <1>2, <1>18 DEF HeldInv
      <4>4. CASE <<"gpu", h>> \notin released'
        BY <4>2, <4>3, <4>4
      <4>5. CASE <<"gpu", h>> \in released'
        <5>1. h = n /\ ends
          BY <1>22, <4>3, <4>5
        <5>2. Op(work', "d2h", i) # Offload(later)
          <6>1. Offload(later).block = <<"gpu", later>>
            BY DEF Offload
          <6> QED  BY <1>5, <4>2, <5>1, <6>1
        <5>3. Waits(work', "compute", work'["compute"].issued, "d2h", i)
          BY <1>8, <5>1, <5>2
        <5> QED  BY <5>3 DEF Awaited, Issued
      <4> QED  BY <4>4, <4>5
    <3>2. CASE i \in Pending(work, "d2h") /\ Op(work', "d2h", i) = Op(work, "d2h", i)
      <4>1. Awaited("d2h", i) \/ (tag_to_state[b[2]] = "tuple" /\ b \notin released)
        BY <1>2, <2>2, <3>2 DEF CopiesInv
      <4>2. i \in Nat
        BY <1>14, StreamNames
      <4>3. CASE Awaited("d2h", i)
        <5>1. Awaited("d2h", i)'
          BY <1>13, <4>2, <4>3, StreamNames
        <5> QED  BY <5>1
      <4>4. CASE tag_to_state[b[2]] = "tuple" /\ b \notin released
        <5>1. Op(work, "d2h", i) \in Wait("d2h") \cup Transfer("d2h") /\ Op(work, "d2h", i).kind = "offload"
          BY <1>2, <2>2, <3>2, Positions, StreamNames
        <5>2. b \in Blocks /\ b[1] = "gpu"
          <6>1. Fits("d2h", Op(work, "d2h", i))
            BY <1>2, <3>2, StreamNames
          <6> QED  BY <3>2, <5>1, <6>1 DEF Wait, Transfer, Fits
        <5> DEFINE h == b[2]
        <5>3. b = <<"gpu", h>> /\ h \in Groups
          BY <5>2 DEF Blocks
        <5>4. tag_to_state'[h] = "tuple"
          BY <1>1, <1>18, <4>4, <5>3
        <5>5. CASE b \notin released'
          BY <4>4, <5>4, <5>5
        <5>6. CASE b \in released'
          <6>1. h = n /\ ends
            BY <1>22, <4>4, <5>3, <5>6
          <6>2. Op(work', "d2h", i) # Offload(later)
            <7>1. Offload(later).block = <<"gpu", later>>
              BY DEF Offload
            <7> QED  BY <1>5, <5>3, <6>1, <7>1
          <6>3. Waits(work', "compute", work'["compute"].issued, "d2h", i)
            BY <1>8, <6>1, <6>2
          <6> QED  BY <6>3 DEF Awaited, Issued
        <5> QED  BY <5>5, <5>6
      <4> QED  BY <4>1, <4>3, <4>4
    <3> QED  BY <1>14, <3>1, <3>2, StreamNames
  <2> QED  BY <2>1, <2>2 DEF CopiesInv
<1>26. ReloadsInv'
  <2>1. Awaited("h2d", Issued("h2d"))'
    <3>1. Awaited("h2d", Issued("h2d")) /\ Issued("h2d") \in Nat
      BY <1>2, <1>3, <1>13, StreamNames DEF ReloadsInv
    <3>2. Waits(work', "compute", Issued("compute")', "h2d", Issued("h2d"))
      BY <1>13, <3>1, StreamNames DEF Awaited
    <3> QED  BY <1>13, <3>2 DEF Awaited
  <2> QED  BY <1>21, <2>1 DEF ReloadsInv
<1>27. OffloadTypeOK'
  <2>1. released' \subseteq {"gpu", "back"} \X Groups
    BY <1>1, <1>2, <1>4
  <2>2. pass' \in 1..Passes
    BY <1>1, <1>2
  <2>3. tag_to_state' \in [Groups -> {"none", "saved", "tuple", "loaded"}]
    <3>1. \A h \in Groups : tag_to_state'[h] \in {"none", "saved", "tuple", "loaded"}
      BY <1>1, <1>2
    <3>2. tag_to_state' = [h \in Groups |-> tag_to_state'[h]]
      BY <1>1
    <3> QED  BY ONLY <3>1, <3>2
  <2> QED  BY <1>1, <2>1, <2>2, <2>3, StaysTyped
<1> QED  BY <1>1, <1>15, <1>20, <1>24, <1>25, <1>26, <1>27 DEF OffloadInv
-----------------------------------------------------------------------------
(* What is promised of it.                                                 *)

\* Whatever the host enqueues next and the streams execute, the invariant stays.
LEMMA OffloadKeeps ==
  ASSUME OffloadAssumption, OffloadInv, [OffloadNext]_offloadVars
  PROVE  OffloadInv'
<1>1. CASE LayerForward
  BY <1>1, ForwardKeeps
<1>2. CASE CommitForward
  BY <1>2, CommitForwardKeeps
<1>3. CASE CommitBackward
  BY <1>3, CommitBackwardKeeps
<1>4. CASE LayerBackward
  BY <1>4, BackwardKeeps
<1>5. ASSUME NEW s \in Streams, Execute(s)
      PROVE  OffloadInv'
  BY <1>5, ExecuteKeeps
<1>6. CASE UNCHANGED offloadVars
  <2>1. /\ UNCHANGED <<host, pass, current_group, offloaded_group_count, tag_to_state>>
        /\ UNCHANGED <<tag_to_buf, group_offload_mapping, released, work, memory>>
    BY <1>6 DEF offloadVars
  <2>2. OffloadTypeOK' /\ QueuesInv'
    BY <2>1 DEF OffloadInv, OffloadTypeOK, QueuesInv
  <2>3. HostInv'
    BY <2>1 DEF OffloadInv, HostInv, AheadInv, BackInv
  <2>4. ReadsInv(work, memory)' /\ HeldInv'
    BY <2>1 DEF OffloadInv, HeldInv, Issued
  <2>5. CopiesInv' /\ ReloadsInv'
    BY <2>1 DEF OffloadInv, CopiesInv, ReloadsInv, Awaited, Issued, Forwards
  <2> QED  BY <2>2, <2>3, <2>4, <2>5 DEF OffloadInv
<1> QED  BY <1>1, <1>2, <1>3, <1>4, <1>5, <1>6 DEF OffloadNext, Host

\* A backward kernel that is next finds what it reads, as every pending read does.
LEMMA BackwardFinds ==
  ASSUME OffloadInv
  PROVE  ReadsWhatWasSaved
<1> SUFFICES ASSUME work["compute"].pending # <<>>, Head(work["compute"].pending).kind = "backward"
             PROVE  memory[Head(work["compute"].pending).block] = Head(work["compute"].pending).value
  BY DEF ReadsWhatWasSaved
<1> DEFINE op == Next1(work, "compute")
<1>1. QueuesType(work) /\ ReadsInv(work, memory) /\ "compute" \in Streams
  BY StreamNames DEF OffloadInv, QueuesInv
<1>2. Past(work, "compute") + 1 \in Pending(work, "compute") /\ op = Head(work["compute"].pending)
  BY <1>1, HeadIsNext
<1>3. op \in Wait("compute") \cup Transfer("compute") /\ op.kind = "backward"
  BY <1>1, <1>2, Positions DEF Next1
<1>4. op.block \in Blocks
  BY <1>3 DEF Wait, Transfer
<1>5. Reads(op, op.block)
  BY <1>3 DEF Reads
<1>6. memory[op.block] = op.value
  BY <1>1, <1>2, <1>4, <1>5, FoundAtHead
<1> QED  BY <1>2, <1>6

\* Before the first layer of the forward pass nothing is held of the pass before.
LEMMA HandlerReset ==
  ASSUME OffloadAssumption, OffloadInv
  PROVE  HandlerIsReset
<1>1. host # "raised"
  BY DEF OffloadInv, HostInv
<1>2. ASSUME host = "forward", current_group = 0
      PROVE  /\ offloaded_group_count = 0 /\ tag_to_buf = {} /\ group_offload_mapping = {}
             /\ \A l \in Groups : tag_to_state[l] = "none"
  <2>1. AheadInv /\ offloaded_group_count \in Nat /\ offloaded_group_count <= current_group
    BY <1>2, AheadFacts DEF Forwards
  <2>2. offloaded_group_count = 0
    BY <1>2, <2>1
  <2>3. 0..current_group - 1 = {}
    BY <1>2
  <2> QED  BY <1>2, <2>1, <2>2, <2>3 DEF AheadInv
<1>3. host = "done" =>
        /\ offloaded_group_count = 0 /\ tag_to_buf = {} /\ group_offload_mapping = {}
        /\ \A l \in Groups : tag_to_state[l] = "none"
  BY DEF OffloadInv, HostInv
<1> QED  BY <1>1, <1>2, <1>3 DEF HandlerIsReset

\* Where all groups but the last are offloaded, what is on the device is of the layer
\* that runs or of the one before.
LEMMA TwoOnDevice ==
  ASSUME OffloadAssumption, OffloadInv
  PROVE  TwoGroupsOnDevice
<1> SUFFICES ASSUME NumOffload = NumLayers - 1
             PROVE  Cardinality(OnDevice) <= 2
  BY DEF TwoGroupsOnDevice
<1> DEFINE c == current_group
           n == offloaded_group_count
<1>1. /\ NumLayers \in Nat \ {0} /\ NumOffload \in Nat \ {0} /\ Groups = 0..NumLayers - 1
      /\ \A i \in 0..NumOffload - 1 : Window[i] = i + 1
  BY Sizes, WindowFacts
<1>2. c \in Nat /\ c <= NumLayers
  <2>1. c \in 0..NumLayers
    BY DEF OffloadInv, OffloadTypeOK
  <2> HIDE DEF c
  <2> QED  BY ONLY <1>1, <2>1
<1>3. ASSUME NEW h \in OnDevice
      PROVE  h \in c - 1..c
  <2>1. h \in tag_to_buf \/ (h \in Groups /\ tag_to_state[h] \in {"saved", "loaded"})
    BY DEF OnDevice
  <2>2. CASE Forwards
    <3> DEFINE held == IF host = "commit forward" THEN 0..c ELSE 0..c - 1
    <3>1. /\ AheadInv /\ c \in Nat /\ n \in Nat /\ n < NumOffload /\ c < NumLayers
          /\ n \in 0..NumOffload - 1
      BY <2>2, AheadFacts DEF AheadInv
    <3>2. Window[n] = n + 1 /\ Window[n] >= c
      BY <1>1, <3>1 DEF AheadInv, Ended
    <3>3. /\ h \in tag_to_buf => h \in held /\ n <= h
          /\ h \in Groups => tag_to_state[h] = IF h \notin held THEN "none"
                                               ELSE IF h < c /\ h <= n /\ Moved(h) THEN "tuple" ELSE "saved"
      BY <3>1 DEF AheadInv
    <3>4. h \in held => h \in 0..c \/ h \in 0..c - 1
      OBVIOUS
    <3> HIDE DEF c, n, held
    <3>5. CASE h \in tag_to_buf
      <4>1. h \in held /\ n <= h
        BY <3>3, <3>5
      <4> QED  BY ONLY <1>1, <3>1, <3>2, <3>4, <4>1, NumOffload = NumLayers - 1
    <3>6. CASE h \in Groups /\ tag_to_state[h] \in {"saved", "loaded"}
      <4>1. h \in held
        BY <3>3, <3>6
      <4>2. ~(h < c /\ h <= n /\ h < NumOffload)
        BY <3>3, <3>6, <4>1, NumOffload = NumLayers - 1, <1>1 DEF Moved
      <4> QED  BY ONLY <1>1, <3>1, <3>2, <3>4, <4>1, <4>2, NumOffload = NumLayers - 1
    <3> QED  BY ONLY <2>1, <3>5, <3>6
  <2>3. CASE host \in {"commit backward", "backward"}
    <3> DEFINE held == IF host = "backward" THEN 0..c ELSE 0..c - 1
    <3>1. BackInv
      BY <2>3 DEF OffloadInv, HostInv
    <3>2. /\ h \notin tag_to_buf
          /\ h \in Groups => tag_to_state[h] = IF h \notin held THEN "none"
                                               ELSE IF ~Moved(h) THEN "saved"
                                               ELSE IF Window[h] < c THEN "tuple" ELSE "loaded"
      BY <3>1 DEF BackInv
    <3>3. h \in Groups /\ h \in held /\ (~(h < NumOffload) \/ ~(Window[h] < c))
      BY <2>1, <3>2, NumOffload = NumLayers - 1, <1>1 DEF Moved
    <3>4. h \in held => h \in 0..c \/ h \in 0..c - 1
      OBVIOUS
    <3>5. h < NumOffload => Window[h] = h + 1
      BY <1>1, <3>3
    <3>6. h <= NumLayers - 1
      BY <1>1, <3>3
    <3> HIDE DEF c, held
    <3> QED  BY ONLY <1>1, <1>2, <3>3, <3>4, <3>5, <3>6, NumOffload = NumLayers - 1
  <2>4. host # "done"
    BY <2>1 DEF OffloadInv, HostInv
  <2> QED  BY <2>2, <2>3, <2>4 DEF OffloadInv, HostInv, Forwards
<1> HIDE DEF c, n
<1>4. IsFiniteSet(c - 1..c) /\ Cardinality(c - 1..c) = 2
  <2>1. c - 1 \in Int /\ ~(c - 1 > c) /\ c - (c - 1) + 1 = 2
    BY ONLY <1>2
  <2> DEFINE b == c - 1
  <2> HIDE DEF b
  <2>2. IsFiniteSet(b..c) /\ Cardinality(b..c) = IF b > c THEN 0 ELSE c - b + 1
    BY ONLY <1>2, <2>1, FS_Interval DEF b
  <2> QED  BY ONLY <2>1, <2>2 DEF b
<1>5. OnDevice \in SUBSET (c - 1..c)
  BY ONLY <1>3
<1> QED  BY ONLY <1>4, <1>5, FS_Subset

\* However far the streams lag behind the host and each other, for any number of layers,
\* offloaded groups and passes: backward kernels read what the forward kernels of their
\* layer wrote in the same pass, no assertion of the handler fails, it is as at first
\* between two passes, and where all groups but the last are offloaded two are on the
\* device at most.
THEOREM BackwardReadsSaved ==
  ASSUME OffloadAssumption
  PROVE  OffloadSpec => [](OffloadTypeOK /\ ReadsWhatWasSaved /\ HandlerIsReset /\ TwoGroupsOnDevice)
<1>1. OffloadInit => OffloadInv
  BY OffloadBegins
<1>2. OffloadInv /\ [OffloadNext]_offloadVars => OffloadInv'
  BY OffloadKeeps
<1>3. OffloadInv => OffloadTypeOK /\ ReadsWhatWasSaved /\ HandlerIsReset /\ TwoGroupsOnDevice
  BY BackwardFinds, HandlerReset, TwoOnDevice DEF OffloadInv
<1> QED  BY <1>1, <1>2, <1>3, PTL DEF OffloadSpec

=============================================================================
