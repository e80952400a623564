----------------------------- MODULE MicroBatches -----------------------------
(***************************************************************************)
(* verl/utils/seqlen_balancing.py: the rows of a batch are spread over K   *)
(* partitions by the largest differencing method of Karmarkar and Karp.    *)
(*                                                                         *)
(* rearrange_micro_batches runs on every data parallel rank: the ranks     *)
(* agree on the number of micro-batches by an all_reduce, split their own  *)
(* rows, run the micro-batches together (a forward pass of a sharded model *)
(* is a collective) and put the outputs back in the order of the rows.     *)
(* _balance_batch of the PPO trainer runs alone on the driver and asks for *)
(* partitions of equal size, one for each rank.                            *)
(***************************************************************************)
EXTENDS Integers, FiniteSets, SequencesExt

CONSTANTS
    Ranks,
    Size,           \* rows of a rank
    Lengths,        \* what the mask of a row may add up to
    EqualSize,      \* _balance_batch, rather than rearrange_micro_batches
    Partitions,     \* then: the world size
    MaxTokenLen,
    MinNum,         \* min_num_micro_batch; 1 if it is None
    DividedBy,      \* num_batches_divided_by; 1 if it is None
    SameNumInDp     \* same_micro_num_in_dp

ASSUME MicroBatchesAssumption ==
    /\ IsFiniteSet(Ranks) /\ Ranks # {}
    /\ {Size, Partitions, MaxTokenLen, MinNum, DividedBy} \subseteq Nat \ {0}
    /\ Lengths \subseteq 1..MaxTokenLen
    /\ EqualSize \in BOOLEAN /\ SameNumInDp \in BOOLEAN
    /\ EqualSize => Size % Partitions = 0

Rows == 1..Size

VARIABLES
    seq_len,        \* of every row
    stage,          \* of a rank: "count", "reduce", "split", "run", "done", "refused"
    num,            \* num_micro_batches
    states,         \* Karmarkar-Karp: what is left to be merged
    micro_batches,  \* in the order they are run: sequences of rows
    passed,         \* micro-batches that have run
    restored        \* the row whose output each place of the result holds

vars == <<seq_len, stage, num, states, micro_batches, passed, restored>>

-----------------------------------------------------------------------------
(* Karmarkar-Karp. A set has items and their sum; a state has its sets in  *)
(* decreasing order.                                                       *)

\* calculate_workload
Workload(length) == 24576 * length + length * length

None == [items |-> {}, sum |-> 0]
Item(r, i) == [items |-> {i}, sum |-> Workload(seq_len[r][i])]
Joined(a, b) == [items |-> a.items \cup b.items, sum |-> a.sum + b.sum]

Decreasing(sets) == \A i, j \in DOMAIN sets : i < j => sets[i].sum >= sets[j].sum

Orders(k) == {order \in [1..k -> 1..k] : \A i, j \in 1..k : order[i] = order[j] => i = j}

\* The orders a sort may leave; the code settles ties by the items.
Sorted(k, sets) ==
    {sorted \in {[i \in 1..k |-> sets[order[i]]] : order \in Orders(k)} : Decreasing(sorted)}

\* Mutant: largest with largest.
MergedAlike(k, a, b) == Sorted(k, [i \in 1..k |-> Joined(a[i], b[i])])

Merged(k, a, b) == Sorted(k, [i \in 1..k |-> Joined(a[i], b[k + 1 - i])])

Spread(k, state) == state[1].sum - state[k].sum

Single(r, k, i) == [j \in 1..k |-> IF j = 1 THEN Item(r, i) ELSE None]

\* equal_size: the k shortest rows, then the k next, and so on.
Before(r, i) ==
    {j \in Rows : seq_len[r][j] < seq_len[r][i] \/ (seq_len[r][j] = seq_len[r][i] /\ j < i)}
Place(r, i) == Cardinality(Before(r, i))
Group(r, k, g) ==
    [j \in 1..k |-> Item(r, CHOOSE i \in Rows : Place(r, i) = g * k + k - j)]

InitialStates(r, k) ==
    IF EqualSize THEN {Group(r, k, g) : g \in 0..Size \div k - 1}
    ELSE {Single(r, k, i) : i \in Rows}

-----------------------------------------------------------------------------
Total(r) == FoldFunction(+, 0, seq_len[r])
AtMost(a, b) == IF a < b THEN a ELSE b
AtLeast(a, b) == IF a > b THEN a ELSE b
CeilDiv(a, b) == (a + b - 1) \div b
RoundUp(a, b) == CeilDiv(a, b) * b

Init ==
    /\ seq_len \in [Ranks -> [Rows -> Lengths]]
    /\ stage = [r \in Ranks |-> "count"]
    /\ num = [r \in Ranks |-> 0]
    /\ states = [r \in Ranks |-> {}]
    /\ micro_batches = [r \in Ranks |-> <<>>]
    /\ passed = [r \in Ranks |-> 0]
    /\ restored = [r \in Ranks |-> <<>>]

\* "num_microbatches <= batch_size, so take the min of this two"
Count(r) ==
    /\ stage[r] = "count"
    /\ \E n \in 1..Size :
         /\ n = AtMost(Size, CeilDiv(Total(r), MaxTokenLen))
         /\ num' = [num EXCEPT ![r] = IF EqualSize THEN Partitions ELSE AtLeast(MinNum, n)]
    /\ stage' = [stage EXCEPT ![r] = IF SameNumInDp /\ ~EqualSize THEN "reduce" ELSE "split"]
    /\ UNCHANGED <<seq_len, states, micro_batches, passed, restored>>

\* Mutant: the ranks meet, and keep their own number.
ReduceKeepsOwn ==
    /\ \A r \in Ranks : stage[r] = "reduce"
    /\ stage' = [r \in Ranks |-> "split"]
    /\ UNCHANGED <<seq_len, num, states, micro_batches, passed, restored>>

\* all_reduce(MAX): a collective of all ranks.
Reduce ==
    /\ \A r \in Ranks : stage[r] = "reduce"
    /\ \E r \in Ranks :
         /\ \A q \in Ranks : num[q] <= num[r]
         /\ num' = [q \in Ranks |-> num[r]]
    /\ stage' = [r \in Ranks |-> "split"]
    /\ UNCHANGED <<seq_len, states, micro_batches, passed, restored>>

\* "assert num_micro_batches <= len(seq_len_effective)"
Split(r) ==
    /\ stage[r] = "split" /\ states[r] = {}
    /\ LET k == IF EqualSize THEN num[r] ELSE RoundUp(num[r], DividedBy)
       IN  /\ num' = [num EXCEPT ![r] = k]
           /\ \/ /\ k <= Size
                 /\ states' = [states EXCEPT ![r] = InitialStates(r, k)]
                 /\ UNCHANGED stage
              \/ /\ k > Size
                 /\ stage' = [stage EXCEPT ![r] = "refused"]
                 /\ UNCHANGED states
    /\ UNCHANGED <<seq_len, micro_batches, passed, restored>>

\* Of largest spread; the code settles ties by the largest sets.
Widest(k, from) == {a \in from : \A b \in from : Spread(k, b) <= Spread(k, a)}

Merge(r) ==
    /\ stage[r] = "split" /\ Cardinality(states[r]) > 1
    /\ \E a \in Widest(num[r], states[r]) : \E b \in Widest(num[r], states[r] \ {a}) :
         \E c \in Merged(num[r], a, b) :
           states' = [states EXCEPT ![r] = (@ \ {a, b}) \cup {c}]
    /\ UNCHANGED <<seq_len, stage, num, micro_batches, passed, restored>>

-----------------------------------------------------------------------------
Evens(s) == [p \in 1..(Len(s) + 1) \div 2 |-> s[2 * p - 1]]     \* s[::2]
Odds(s) == [p \in 1..Len(s) \div 2 |-> s[2 * p]]                \* s[1::2]

\* "Place smaller micro-batches at both ends": sorted by workload, largest first.
Rearranged(sets) ==
    LET partitions == [j \in DOMAIN sets |-> SetToSortSeq(sets[j].items, <)]
    IN  Reverse(Evens(partitions)) \o Odds(partitions)

\* Of the rows of a partition, shortest first.
OrderedPartition(r, rows) ==
    LET partition == SetToSortSeq(rows, LAMBDA i, j : Place(r, i) < Place(r, j))
    IN  Evens(partition) \o Reverse(Odds(partition))

Order(r) ==
    /\ stage[r] = "split" /\ Cardinality(states[r]) = 1
    /\ \E final \in states[r] :
         IF EqualSize
         THEN /\ micro_batches' = [micro_batches EXCEPT ![r] =
                   [j \in 1..num[r] |-> OrderedPartition(r, final[j].items)]]
              /\ stage' = [stage EXCEPT ![r] = "done"]
         ELSE /\ \E sets \in Sorted(num[r], final) :
                   micro_batches' = [micro_batches EXCEPT ![r] = Rearranged(sets)]
              /\ stage' = [stage EXCEPT ![r] = "run"]
    /\ UNCHANGED <<seq_len, num, states, passed, restored>>

\* A forward pass takes all ranks.
Forward ==
    /\ \A r \in Ranks : stage[r] = "run" /\ passed[r] < Len(micro_batches[r])
    /\ passed' = [r \in Ranks |-> passed[r] + 1]
    /\ UNCHANGED <<seq_len, stage, num, states, micro_batches, restored>>

\* Mutant: the map itself.
ReverseIdxForgotten(map) == map

\* get_reverse_idx
ReverseIdx(map) == [idx \in DOMAIN map |-> CHOOSE i \in DOMAIN map : map[i] = idx]

\* restore_dynamic_batch
Restore(r) ==
    /\ stage[r] = "run" /\ passed[r] = Len(micro_batches[r])
    /\ LET indices == FlattenSeq(micro_batches[r])
       IN  restored' = [restored EXCEPT ![r] =
                          [i \in DOMAIN indices |-> indices[ReverseIdx(indices)[i]]]]
    /\ stage' = [stage EXCEPT ![r] = "done"]
    /\ UNCHANGED <<seq_len, num, states, micro_batches, passed>>

Rank(r) == Count(r) \/ Split(r) \/ Merge(r) \/ Order(r) \/ Restore(r)

Together == Reduce \/ Forward

Next == Together \/ \E r \in Ranks : Rank(r)

Spec == Init /\ [][Next]_vars /\ WF_vars(Together) /\ \A r \in Ranks : WF_vars(Rank(r))

-----------------------------------------------------------------------------
(* Properties.                                                             *)

TypeOK ==
    /\ seq_len \in [Ranks -> [Rows -> Lengths]]
    /\ stage \in [Ranks -> {"count", "reduce", "split", "run", "done", "refused"}]
    /\ num \in [Ranks -> Nat]
    /\ \A r \in Ranks :
         /\ states[r] \subseteq [1..num[r] -> [items : SUBSET Rows, sum : Nat]]
         /\ \A s \in states[r] : Decreasing(s)
    /\ passed \in [Ranks -> Nat]

\* However the rows fall, no partition gets more than another by more than what
\* one state started with: the workload of the longest row or, of equal size,
\* the widest difference within k rows that follow each other by length.
Balanced ==
    \A r \in Ranks : \A s \in states[r] :
        \E t \in InitialStates(r, num[r]) : Spread(num[r], s) <= Spread(num[r], t)

\* Every row is in one place, as long as there are states to merge.
ItemsPartition ==
    \A r \in Ranks : states[r] # {} =>
        \A i \in Rows : Cardinality({p \in states[r] \X (1..num[r]) : i \in p[1][p[2]].items}) = 1

\* _check_and_sort_partitions: "the {i}-th partition is empty" is never raised,
\* nor "{len(partition)} * {k_partitions} != {len(seqlen_list)}".
NoneEmpty ==
    \A r \in Ranks : \A j \in DOMAIN micro_batches[r] :
        /\ micro_batches[r][j] # <<>>
        /\ EqualSize => Len(micro_batches[r][j]) * num[r] = Size

Load(r, rows) == FoldLeft(LAMBDA load, i : load + Workload(seq_len[r][i]), 0, rows)

\* Loads rise to a peak and fall again, and only the ends are the smallest.
SmallEnds(loads) ==
    /\ \A i \in DOMAIN loads \ {1, Len(loads)} : loads[i] >= loads[1] /\ loads[i] >= loads[Len(loads)]
    /\ \E peak \in DOMAIN loads : \A i, j \in DOMAIN loads :
        /\ (i < j /\ j <= peak) => loads[i] <= loads[j]
        /\ (peak <= i /\ i < j) => loads[i] >= loads[j]

\* "smaller micro-batches at both ends to reduce the bubbles exposed during the
\* warm-up and cool-down": of the micro-batches, or of a partition's rows.
SmallAtEnds ==
    \A r \in Ranks : micro_batches[r] # <<>> =>
        IF EqualSize
        THEN \A j \in DOMAIN micro_batches[r] :
               SmallEnds([i \in DOMAIN micro_batches[r][j] |-> Workload(seq_len[r][micro_batches[r][j][i]])])
        ELSE SmallEnds([j \in DOMAIN micro_batches[r] |-> Load(r, micro_batches[r][j])])

\* What is computed of a row comes back at its place in the batch.
OutputsInPlace ==
    \A r \in Ranks : restored[r] # <<>> => restored[r] = [i \in Rows |-> i]

\* All ranks run as many micro-batches, so that none waits for another forever.
EveryRankReturns == <>(\A r \in Ranks : stage[r] \in {"done", "refused"})
=============================================================================
