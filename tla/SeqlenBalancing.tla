--------------------------- MODULE SeqlenBalancing ---------------------------
(***************************************************************************)
(* The algorithms of utils/seqlen_balancing.py: the largest differencing   *)
(* method of Karmarkar and Karp, which divides rows into k parts of        *)
(* similar workload, and what the trainer and the actor make of its        *)
(* partitions.  Rows are numbered from 1; work[i] is the workload of row   *)
(* i, a positive number.                                                   *)
(***************************************************************************)
EXTENDS Integers, Sequences, FiniteSets, FiniteSetsExt, SequencesExt

\* calculate_workload: the cost of a row of n tokens, for a 7B model.
Workload(n) == 24576 * n + n * n

CeilDiv(a, b) == (a + b - 1) \div b

\* DataProto.split; the last part may be shorter.
Split(n, size) ==
    [m \in 1 .. CeilDiv(n, size) |->
        [i \in 1 .. Min({size, n - (m - 1) * size}) |-> (m - 1) * size + i]]

-----------------------------------------------------------------------------
(***************************************************************************)
(* sorted(): element i goes behind those that come before it.  The order   *)
(* is a set of pairs of positions, the first before the second; elements   *)
(* it leaves equal stay as they were.                                      *)
(***************************************************************************)
Pairs(n) == (1 .. n) \X (1 .. n)

Sort(s, before) ==
    LET ahead(i) ==
            {j \in 1 .. Len(s) : <<j, i>> \in before \/ (<<i, j>> \notin before /\ j < i)}
    IN <<>> \o         \* a tuple, which TLC evaluates once
        [k \in 1 .. Len(s) |->
            s[CHOOSE i \in 1 .. Len(s) : Cardinality(ahead(i)) = k - 1]]

SmallerFirst(s) == {p \in Pairs(Len(s)) : s[p[1]] < s[p[2]]}

\* sum()
TotalOf(s) ==
    LET sum[n \in 0 .. Len(s)] == IF n = 0 THEN 0 ELSE sum[n - 1] + s[n]
    IN sum[Len(s)]

-----------------------------------------------------------------------------
(***************************************************************************)
(* class Set: some rows and their total.  Of two sets the smaller total    *)
(* comes first, then the smaller number of rows, then the rows in order.   *)
(***************************************************************************)
EmptySet == [sum |-> 0, items |-> <<>>]

MergeSets(a, b) == [sum |-> a.sum + b.sum, items |-> a.items \o b.items]

ItemsBefore(s, t) ==
    \E i \in 1 .. Len(s) : /\ s[i] < t[i]
                           /\ \A j \in 1 .. i - 1 : s[j] = t[j]

SetBefore(a, b) ==
    \/ a.sum < b.sum
    \/ a.sum = b.sum /\ Len(a.items) < Len(b.items)
    \/ a.sum = b.sum /\ Len(a.items) = Len(b.items) /\ ItemsBefore(a.items, b.items)

(***************************************************************************)
(* class State: k sets in decreasing order.  The heap yields the state     *)
(* with the largest spread first, then the one with the largest set.       *)
(***************************************************************************)
Decreasing(sets) ==
    Sort(sets, {p \in Pairs(Len(sets)) : SetBefore(sets[p[2]], sets[p[1]])})

Spread(state) == state[1].sum - state[Len(state)].sum

StateBefore(s, t) ==
    \/ Spread(s) > Spread(t)
    \/ Spread(s) = Spread(t) /\ SetBefore(t[1], s[1])

FirstState(heap) ==
    CHOOSE s \in heap : \A t \in heap \ {s} : StateBefore(s, t)

\* The large sets of one state take the small sets of the other.
MergeAligned(s, t) ==                                            \* mutant
    Decreasing([i \in 1 .. Len(s) |-> MergeSets(s[i], t[i])])
MergeStates(s, t) ==
    Decreasing([i \in 1 .. Len(s) |-> MergeSets(s[i], t[Len(s) + 1 - i])])

\* One turn of the loop: the two first states of the heap become one.
MergeFirstTwo(heap) ==
    LET s == FirstState(heap)
        t == FirstState(heap \ {s})
    IN (heap \ {s, t}) \cup {MergeStates(s, t)}

\* sorted_seqlen_list
Ascending(work) == Sort([i \in 1 .. Len(work) |-> i], SmallerFirst(work))

\* With equal sizes every state starts with k neighbours of the sorted list,
\* one in each set, otherwise with one row.
InitialHeap(work, k, equalSize) ==
    LET sorted == Ascending(work)
        single(i) == [sum |-> work[i], items |-> <<i>>]
    IN IF equalSize
       THEN {Decreasing([i \in 1 .. k |-> single(sorted[n * k + i])]) :
                n \in 0 .. Len(work) \div k - 1}
       ELSE {[i \in 1 .. k |-> IF i = 1 THEN single(r) ELSE EmptySet] :
                r \in 1 .. Len(work)}

\* karmarkar_karp: the sets of the state that is left.
KarmarkarKarp(work, k, equalSize) ==
    LET heap[n \in 0 .. Len(work)] ==
            IF n = 0 THEN InitialHeap(work, k, equalSize)
            ELSE LET before == heap[n - 1]
                 IN IF Cardinality(before) > 1 THEN MergeFirstTwo(before) ELSE before
        left == CHOOSE s \in heap[Len(work)] : TRUE
    IN [i \in 1 .. k |-> left[i].items]

\* get_seqlen_balanced_partitions, and what it asserts of its result.
BalancedPartitions(work, k, equalSize) ==
    LET parts == KarmarkarKarp(work, k, equalSize)
    IN [i \in 1 .. k |-> Sort(parts[i], SmallerFirst(parts[i]))]

IsPartition(parts, n) ==
    /\ \A i \in DOMAIN parts : parts[i] # <<>>
    /\ UNION {ToSet(parts[i]) : i \in DOMAIN parts} = 1 .. n

\* What karmarkar_karp asserts of parts of equal size.
EquallySized(parts, n) == \A i \in DOMAIN parts : Len(parts[i]) * Len(parts) = n

-----------------------------------------------------------------------------
\* The workload of some of the rows.
SumOver(work, part) ==
    TotalOf([i \in 1 .. Len(work) |-> IF i \in ToSet(part) THEN work[i] ELSE 0])

\* s[::2] and s[1::2]
EverySecond(s) == [i \in 1 .. CeilDiv(Len(s), 2) |-> s[2 * i - 1]]
EveryOther(s) == [i \in 1 .. Len(s) \div 2 |-> s[2 * i]]

\* rearrange_micro_batches: the number of micro-batches a rank needs for rows
\* with these lengths ...
MicroBatchesFor(lengths, maxTokens) ==
    Min({Len(lengths), CeilDiv(TotalOf(lengths), maxTokens)})

\* ... and the micro-batches, the small ones at both ends.
RearrangedMicroBatches(work, k) ==
    LET parts == BalancedPartitions(work, k, FALSE)
        larger(p, q) == \/ SumOver(work, p) > SumOver(work, q)
                        \/ SumOver(work, p) = SumOver(work, q) /\ p[1] > q[1]
        sorted == Sort(parts, {p \in Pairs(k) : larger(parts[p[1]], parts[p[2]])})
    IN Reverse(EverySecond(sorted)) \o EveryOther(sorted)

\* get_reverse_idx and restore_dynamic_batch.
ReverseIdx(idx) == [j \in 1 .. Len(idx) |-> CHOOSE i \in 1 .. Len(idx) : idx[i] = j]

RestoredForward(values, idx) ==                                  \* mutant
    [j \in 1 .. Len(values) |-> values[idx[j]]]
Restored(values, idx) ==
    [j \in 1 .. Len(values) |-> values[ReverseIdx(idx)[j]]]

-----------------------------------------------------------------------------
\* get_group_balanced_partitions, for groups of n consecutive rows: whole groups
\* are divided, as many to each part.
GroupBalancedPartitions(work, n, k) ==
    LET rowsOf(g) == [i \in 1 .. n |-> (g - 1) * n + i]
        groupWork == [g \in 1 .. Len(work) \div n |-> SumOver(work, rowsOf(g))]
        parts == BalancedPartitions(groupWork, k, TRUE)
    IN [i \in 1 .. k |-> FlattenSeq([j \in 1 .. Len(parts[i]) |-> rowsOf(parts[i][j])])]

\* _balance_batch: the rows of a part, the small ones at both ends.
SmallAtBothEnds(work, part) ==
    LET lighter(i, j) == work[i] < work[j] \/ (work[i] = work[j] /\ i < j)
        sorted == Sort(part, {p \in Pairs(Len(part)) : lighter(part[p[1]], part[p[2]])})
    IN EverySecond(sorted) \o Reverse(EveryOther(sorted))
=============================================================================
