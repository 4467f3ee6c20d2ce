----------------------------- MODULE BatchProofs -----------------------------
(***************************************************************************)
(* What becomes of the rows of a batch, for batches of every size, any     *)
(* number of ranks and micro-batches of any length.  The first part is     *)
(* about a call of a worker group (WorkerCall): every row comes back, in   *)
(* its place, the ranks get fair shares of the work, and no rank waits for *)
(* another forever.  The second is about the update of the actor           *)
(* (ActorUpdate): the moving teacher follows the student once a step, and  *)
(* a step is made from the rows of its mini-batch, which weigh alike.      *)
(* Both rest on the division of rows that SequenceProofs is about.  *)
(***************************************************************************)
EXTENDS WorkerCall, ActorUpdate, SequenceProofs

-----------------------------------------------------------------------------
-----------------------------------------------------------------------------
(***************************************************************************)
(* One call of a worker group.                                             *)
(***************************************************************************)
CallTypeOK ==
    /\ config \in Configs
    /\ lengths \in [Rows -> 1 .. Width]
    /\ pc \in {"balance", "dispatch", "collect", "done", "failed"}
    /\ IsPermutation(order, Size)
    /\ at \in [Workers -> {"idle", "prepare", "reduce", "run", "returned"}]
    /\ chunk \in [Workers -> Seq(Rows)]
    /\ count \in [Workers -> Nat]
    /\ micros \in [Workers -> Seq(Seq(Nat))]
    /\ ran \in [Workers -> Nat]
    /\ results \in [Workers -> Seq(Rows)]

\* Before the dispatch the workers are idle; afterwards each has the rows of its rank,
\* and the call ends when all have returned.
DriverInv ==
    /\ pc # "failed"
    /\ pc \in {"balance", "dispatch"} =>
          at = ForAll("idle") /\ ran = ForAll(0) /\ results = ForAll(<<>>)
    /\ pc \in {"collect", "done"} =>
          \A w \in Workers : at[w] # "idle" /\ chunk[w] = ChunkOf(DpRank(w))
    /\ pc = "done" => output = order /\ \A w \in Workers : at[w] = "returned"
    /\ (config.balance /\ ~ config.prefixGrouper /\ pc = "dispatch") => RanksBalanced
    /\ (config.balance /\ config.prefixGrouper /\ pc = "dispatch") => GroupsStayTogether

\* The rows at some positions of a chunk.
Gathered(mine, idx) == [i \in 1 .. Len(idx) |-> mine[idx[i]]]

\* Those of the first n micro-batches.
FirstResults(mine, parts, n) == Gathered(mine, FlattenSeq(SubSeq(parts, 1, n)))

\* A worker that has divided its rows has each in one micro-batch, and its results are
\* those of the micro-batches it has run.
WorkerInv(w) ==
    /\ at[w] \in {"prepare", "reduce"} => ran[w] = 0 /\ results[w] = <<>>
    /\ at[w] = "reduce" => config.dynamic /\ count[w] \in 1 .. PerRank
    /\ at[w] \in {"run", "returned"} =>
          /\ Covers(micros[w], Len(micros[w]), PerRank)
          /\ ~ config.dynamic => micros[w] = Split(PerRank, config.microSize)
    /\ at[w] = "run" =>
          /\ ran[w] <= Len(micros[w])
          /\ results[w] = FirstResults(chunk[w], micros[w], ran[w])
          /\ config.dynamic => MicrosBalanced(w)
    /\ at[w] = "returned" => ran[w] = Len(micros[w]) /\ results[w] = chunk[w]

\* The forward passes are collectives, of which all workers run as many.
Lockstep ==
    \A v, w \in Workers :
        /\ ran[v] = ran[w]
        /\ at[v] \in {"run", "returned"} /\ at[w] \in {"run", "returned"} =>
              Len(micros[v]) = Len(micros[w])

CallInv ==
    /\ CallTypeOK
    /\ DriverInv
    /\ \A w \in Workers : WorkerInv(w)
    /\ Lockstep
\* What is assumed of a call.
LEMMA ConfigIs ==
    ASSUME config \in Configs
    PROVE  /\ config.dp \in Nat \ {0} /\ config.sp \in Nat \ {0}
           /\ config.groups \in Nat \ {0} /\ config.n \in Nat \ {0}
           /\ Size \in Nat \ {0} /\ PerRank \in Nat \ {0}
           /\ Size = PerRank * config.dp
           /\ config.dp \in 1 .. Size /\ Size % config.dp = 0
           /\ config.prefixGrouper => config.groups % config.dp = 0
           /\ MaxTokens \in Nat \ {0} /\ config.microSize \in Nat \ {0}
  <1>1. /\ config.dp \in Nat \ {0} /\ config.sp \in Nat \ {0}
        /\ config.groups \in Nat \ {0} /\ config.n \in Nat \ {0}
        /\ (config.groups * config.n) % config.dp = 0
        /\ config.prefixGrouper => config.groups % config.dp = 0
        /\ config.microSize \in Nat \ {0}
        /\ config.maxTokens \in Nat /\ config.maxTokens * config.sp >= Width
        /\ Width \in Nat \ {0}
    BY CallAssumption
  <1>. DEFINE n == config.groups * config.n
              k == config.dp
              l == n \div k
              d == n % k
              m == config.maxTokens * config.sp
  <1>2. n \in Nat \ {0}
    BY <1>1
  <1>3. m \in Nat \ {0}
    <2>1. m \in Nat /\ m >= Width
      BY <1>1
    <2>. HIDE DEF m
    <2>. QED BY <1>1, <2>1
  <1>. HIDE DEF n, k
  <1>4. k \in Nat \ {0} /\ d = 0
    BY <1>1 DEF k, n
  <1>5. l \in Nat /\ n = l * k + d
    BY <1>2, <1>4, SMTT(30)
  <1>. HIDE DEF l, d
  <1>6. n = l * k /\ l # 0
    BY <1>2, <1>4, <1>5
  <1>7. k \in 1 .. n
    <2>1. 1 * k <= l * k
      BY <1>4, <1>5, <1>6, Times
    <2>. QED BY <1>4, <1>6, <2>1
  <1>8. Size = n /\ PerRank = l /\ MaxTokens = m /\ config.dp = k
    BY DEF Size, PerRank, MaxTokens, n, l, k
  <1>9. Size % config.dp = 0
    BY <1>4, <1>8 DEF d
  <1>. QED BY <1>1, <1>2, <1>3, <1>5, <1>6, <1>7, <1>8, <1>9

\* A worker is one of sp that share a rank, of which the first answers for all.
LEMMA WorkerIs ==
    ASSUME config \in Configs, NEW w \in Workers
    PROVE  \E x \in 0 .. config.dp - 1, i \in 1 .. config.sp :
              w = x * config.sp + i /\ DpRank(w) = x /\ (IsCollect(w) <=> i = 1)
  <1>1. config.dp \in Nat /\ config.sp \in Nat \ {0}
    BY ConfigIs
  <1>. DEFINE k == config.sp
  <1>2. PICK x \in 0 .. config.dp - 1, i \in 1 .. k : w = x * k + i
    <2>1. w \in 1 .. config.dp * k
      BY DEF Workers
    <2>. DEFINE c == config.dp
    <2>2. c \in Nat /\ k \in Nat \ {0} /\ w \in 1 .. c * k
      BY <1>1, <2>1
    <2>. HIDE DEF c, k
    <2>3. \A r \in 1 .. c * k : \E x \in 0 .. c - 1, i \in 1 .. k : r = x * k + i
      BY <2>2, Blocks
    <2>4. \E x \in 0 .. c - 1, i \in 1 .. k : w = x * k + i
      BY <2>2, <2>3, Zenon
    <2>. QED BY <2>4 DEF c
  <1>. HIDE DEF k
  <1>3. k \in Nat \ {0} /\ x \in Nat /\ i \in Nat /\ i - 1 \in 0 .. k - 1
    BY <1>1 DEF k
  <1>4. w - 1 = x * k + (i - 1) /\ w - 1 \in Nat
    BY <1>2, <1>3
  <1>5. (w - 1) \div k = x /\ (w - 1) % k = i - 1
    <2>. DEFINE j == i - 1
    <2>1. j \in Nat /\ j < k
      BY <1>3
    <2>. HIDE DEF j
    <2>2. (x * k + j) \div k = x /\ (x * k + j) % k = j
      BY <1>3, <2>1, SMTT(60)
    <2>. QED BY <1>4, <2>2 DEF j
  <1>6. DpRank(w) = x /\ (IsCollect(w) <=> i - 1 = 0)
    BY <1>5 DEF DpRank, IsCollect, k
  <1>7. IsCollect(w) <=> i = 1
    BY <1>3, <1>6
  <1>. QED BY <1>2, <1>6, <1>7 DEF k

\* The rows of a rank follow each other in the order of the batch.
LEMMA ChunkIs ==
    ASSUME config \in Configs, IsPermutation(order, Size), NEW x \in 0 .. config.dp - 1
    PROVE  /\ ChunkOf(x) \in [1 .. PerRank -> Rows]
           /\ ChunkOf(x) \in Seq(Rows) /\ Len(ChunkOf(x)) = PerRank
           /\ \A i \in 1 .. PerRank : x * PerRank + i \in Rows
                                      /\ ChunkOf(x)[i] = order[x * PerRank + i]
  <1>. DEFINE l == PerRank
              a == x * l + 1
              b == (x + 1) * l
              u == SubSeq(order, a, b)
  <1>1. l \in Nat \ {0} /\ config.dp \in Nat /\ Size \in Nat /\ Rows = 1 .. config.dp * l
        /\ Rows = 1 .. Size
    <2>1. Size = l * config.dp /\ l \in Nat /\ config.dp \in Nat
      BY ConfigIs
    <2>. HIDE DEF l
    <2>2. Size = config.dp * l
      BY <2>1
    <2>. QED BY <2>2, ConfigIs DEF Rows, l
  <1>. HIDE DEF l
  <1>2. \A i \in 1 .. l : x * l + i \in Rows
    BY <1>1, Blocks
  <1>3. a \in Int /\ b \in Int /\ b - a + 1 = l /\ a <= b /\ x * l \in Nat
    <2>1. x \in Nat /\ x * l \in Nat /\ b = x * l + l
      BY <1>1
    <2>. HIDE DEF b
    <2>. QED BY <1>1, <2>1
  <1>4. order \in [Rows -> Rows]
    BY <1>1 DEF IsPermutation
  <1>5. \A i \in a .. b : order[i] \in Rows
    <2>. SUFFICES ASSUME NEW i \in a .. b PROVE order[i] \in Rows
      OBVIOUS
    <2>. DEFINE y == x * l
                j == i - y
    <2>1. y \in Nat /\ a = y + 1 /\ b - y = l
      BY <1>1, <1>3
    <2>. HIDE DEF y, a, b
    <2>2. j \in 1 .. l /\ i = y + j
      BY <1>1, <1>3, <2>1
    <2>. HIDE DEF j
    <2>3. i \in Rows
      BY <1>2, <2>2 DEF y
    <2>. QED BY <1>4, <2>3
  <1>6. /\ u \in Seq(Rows)
        /\ Len(u) = IF a <= b THEN b - a + 1 ELSE 0
        /\ \A i \in 1 .. b - a + 1 : u[i] = order[a + i - 1]
    <2>. HIDE DEF a, b
    <2>. QED BY <1>3, <1>5, SubSeqProperties
  <1>7. Len(u) = l
    <2>. HIDE DEF a, b, u
    <2>. QED BY <1>3, <1>6
  <1>8. ASSUME NEW i \in 1 .. l PROVE u[i] = order[x * l + i]
    <2>1. i \in 1 .. b - a + 1
      BY <1>3
    <2>2. u[i] = order[a + i - 1]
      BY <1>6, <2>1
    <2>. DEFINE y == x * l
    <2>3. a + i - 1 = y + i
      <3>1. y \in Nat /\ a = y + 1
        BY <1>3
      <3>. HIDE DEF y, a
      <3>. QED BY <3>1
    <2>. QED BY <2>2, <2>3
  <1>9. u \in [1 .. l -> Rows]
    <2>. HIDE DEF u
    <2>. QED BY <1>6, <1>7, LenProperties
  <1>10. ChunkOf(x) = u
    BY DEF ChunkOf, l
  <1>. HIDE DEF u
  <1>. QED BY <1>2, <1>6, <1>7, <1>8, <1>9, <1>10 DEF l
\* A row with tokens costs something.
LEMMA WorkloadIs == \A n \in Nat \ {0} : Workload(n) \in Nat \ {0}
  <1>. SUFFICES ASSUME NEW n \in Nat \ {0} PROVE Workload(n) \in Nat \ {0}
    OBVIOUS
  <1>1. n * n \in Nat /\ 24576 * n \in Nat \ {0}
    OBVIOUS
  <1>. QED BY <1>1 DEF Workload

\* The workloads of the rows.
LEMMA WorkIs ==
    ASSUME config \in Configs, lengths \in [Rows -> 1 .. Width]
    PROVE  Work \in [1 .. Size -> Nat \ {0}]
  <1>1. \A n \in Nat \ {0} : Workload(n) \in Nat \ {0}
    BY WorkloadIs
  <1>2. \A i \in Rows : lengths[i] \in Nat \ {0}
    BY CallAssumption
  <1>. QED BY <1>1, <1>2 DEF Work, Rows

\* The parts that the ranks get, as _balance_batch checks and promises.
LEMMA PartitionsDivide ==
    ASSUME config \in Configs, lengths \in [Rows -> 1 .. Width]
    PROVE  /\ Divides(Partitions, config.dp, Size)
           /\ EquallySized(Partitions, Size)
           /\ ~ config.prefixGrouper => Balanced(Partitions, Work, config.dp, NeighbourSpread)
           /\ config.prefixGrouper =>
                 \A g \in 1 .. config.groups : \E i \in 1 .. config.dp :
                     RowsOfGroup(g) \subseteq ToSet(Partitions[i])
  <1>. DEFINE k == config.dp
              n == Size
              c == Size \div config.dp
  <1>1. Work \in [1 .. n -> Nat \ {0}]
    BY WorkIs
  <1>2. k \in 1 .. n /\ n \in Nat \ {0} /\ n = c * k /\ c \in Nat \ {0} /\ n % k = 0
    BY ConfigIs DEF PerRank
  <1>3. CASE config.prefixGrouper
    <2>. DEFINE g == config.groups
                m == config.n
    <2>1. g \in Nat \ {0} /\ m \in Nat \ {0} /\ k \in Nat \ {0} /\ g % k = 0
      BY <1>3, ConfigIs
    <2>2. n = g * m
      BY DEF Size
    <2>3. Partitions = GroupBalancedPartitions(Work, m, k)
      BY <1>3 DEF Partitions
    <2>. HIDE DEF g, m, k, n
    <2>4. k \in 1 .. g
      <3>. DEFINE q == g \div k
                  d == g % k
      <3>1. q \in Nat /\ g = q * k + d /\ d = 0
        BY <2>1, SMTT(30)
      <3>. HIDE DEF q, d
      <3>2. q # 0 /\ g = q * k
        BY <2>1, <3>1
      <3>3. 1 * k <= q * k
        BY <2>1, <3>1, <3>2, Times
      <3>. QED BY <2>1, <3>2, <3>3
    <2>5. /\ Divides(GroupBalancedPartitions(Work, m, k), k, g * m)
          /\ EquallySized(GroupBalancedPartitions(Work, m, k), g * m)
          /\ GroupsWhole(GroupBalancedPartitions(Work, m, k), k, g, m)
      <3>1. Work \in [1 .. g * m -> Nat \ {0}]
        BY <1>1, <2>2
      <3>. HIDE DEF g
      <3>. QED BY <2>1, <2>4, <3>1, GroupPartitionsDivide
    <2>6. \A h \in 1 .. g : RowsOfGroup(h) = ToSet(GroupRows(h, m))
      <3>1. ASSUME NEW h \in 1 .. g
            PROVE  ToSet(GroupRows(h, m)) = {(h - 1) * m + i : i \in 1 .. m}
        <4>1. /\ DOMAIN GroupRows(h, m) = 1 .. m
              /\ \A i \in 1 .. m : GroupRows(h, m)[i] = (h - 1) * m + i
          BY DEF GroupRows
        <4>. QED BY <4>1 DEF ToSet
      <3>2. \A h : RowsOfGroup(h) = {(h - 1) * m + i : i \in 1 .. m}
        BY DEF RowsOfGroup, m
      <3>. QED BY <3>1, <3>2
    <2>7. \A h \in 1 .. g : \E i \in 1 .. k : RowsOfGroup(h) \subseteq ToSet(Partitions[i])
      BY <2>3, <2>5, <2>6 DEF GroupsWhole
    <2>. QED BY <1>3, <2>2, <2>3, <2>5, <2>7 DEF g, k, n
  <1>4. CASE ~ config.prefixGrouper
    <2>. DEFINE D == BlockSpread(Work, k, c)
    <2>1. NeighbourSpread = D
      BY DEF NeighbourSpread, BlockSpread
    <2>2. Partitions = BalancedPartitions(Work, k, TRUE)
      BY <1>4 DEF Partitions
    <2>. HIDE DEF D, k, n, c
    <2>3. D \in Nat /\ NeighboursWithin(Work, n, k, D)
      <3>1. n \in Nat /\ k \in Nat \ {0} /\ c \in Nat \ {0} /\ n = c * k
        BY <1>2
      <3>. QED BY <1>1, <3>1, LargestSpread DEF D
    <2>4. Accepted(n, k, TRUE) /\ Apart(Work, n, k, TRUE, D)
      BY <1>2, <2>3 DEF Accepted, Apart
    <2>5. FairParts(BalancedPartitions(Work, k, TRUE), Work, n, k, TRUE, D)
      <3>1. n \in Nat /\ k \in 1 .. n /\ D \in Nat
        BY <1>2, <2>3
      <3>. QED BY <1>1, <2>4, <3>1, BalancedPartitionsDivide, Zenon
    <2>6. /\ Divides(Partitions, k, n) /\ EquallySized(Partitions, n)
          /\ Balanced(Partitions, Work, k, D)
      BY <2>2, <2>5 DEF FairParts
    <2>. QED BY <1>4, <2>1, <2>6 DEF k, n
  <1>. QED BY <1>3, <1>4

\* The rows of the ranks, each in its own order.
ArrangedParts == [i \in 1 .. config.dp |-> Arranged(Partitions[i])]

LEMMA ArrangedPartsDivide ==
    ASSUME config \in Configs, lengths \in [Rows -> 1 .. Width]
    PROVE  /\ Divides(ArrangedParts, config.dp, Size)
           /\ \A i \in 1 .. config.dp : /\ Len(ArrangedParts[i]) = PerRank
                                        /\ ToSet(ArrangedParts[i]) = ToSet(Partitions[i])
  <1>. DEFINE k == config.dp
              P == Partitions
              A == ArrangedParts
  <1>1. Divides(P, k, Size) /\ EquallySized(P, Size)
    BY PartitionsDivide
  <1>2. k \in Nat \ {0} /\ k \in Nat /\ Size \in Nat /\ PerRank \in Nat /\ Size = PerRank * k
    BY ConfigIs
  <1>3. Work \in [1 .. Size -> Nat]
    <2>1. Work \in [1 .. Size -> Nat \ {0}]
      BY WorkIs
    <2>. QED BY <2>1
  <1>4. \A i \in 1 .. k : A[i] = Arranged(P[i])
    BY DEF ArrangedParts
  <1>0. DOMAIN A = 1 .. k /\ A = [i \in 1 .. k |-> A[i]]
    BY DEF ArrangedParts
  <1>. HIDE DEF k, P, A
  <1>5. /\ P \in [1 .. k -> Seq(Nat)]
        /\ \A i \in 1 .. k : Lists(P[i], ToSet(P[i])) /\ ToSet(P[i]) # {}
        /\ \A i, j \in 1 .. k : i # j => ToSet(P[i]) \cap ToSet(P[j]) = {}
        /\ UNION {ToSet(P[i]) : i \in 1 .. k} = 1 .. Size
    BY <1>1 DEF Divides
  <1>6. ASSUME NEW i \in 1 .. k
        PROVE  /\ A[i] \in Seq(Nat) /\ Lists(A[i], ToSet(A[i]))
               /\ ToSet(A[i]) = ToSet(P[i]) /\ Len(A[i]) = PerRank
    <2>. DEFINE p == P[i]
                T == ToSet(p)
    <2>1. p \in Seq(Nat) /\ Lists(p, T) /\ T \subseteq 1 .. Size
      BY <1>5
    <2>2. Len(p) = PerRank
      <3>1. DOMAIN P = 1 .. k /\ Len(P) = k
        BY <1>2, <1>5, LengthOfFunction
      <3>2. Len(p) * k = Size
        BY <1>1, <3>1 DEF EquallySized
      <3>3. Len(p) \in Nat
        BY <2>1, LenProperties
      <3>. HIDE DEF p
      <3>4. Len(p) * k = PerRank * k
        BY <1>2, <3>2
      <3>. QED BY <1>2, <3>3, <3>4, SMTT(30)
    <2>3. A[i] = Arranged(p)
      BY <1>4
    <2>. HIDE DEF p
    <2>4. Lists(Arranged(p), T) /\ Len(Arranged(p)) = Len(p)
      <3>1. CASE config.prefixGrouper
        BY <2>1, <3>1 DEF Arranged
      <3>2. CASE ~ config.prefixGrouper
        <4>1. Lists(SmallAtBothEnds(Work, p), T) /\ Len(SmallAtBothEnds(Work, p)) = Len(p)
          BY <1>2, <1>3, <2>1, SmallAtBothEndsOf
        <4>. QED BY <3>2, <4>1 DEF Arranged
      <3>. QED BY <3>1, <3>2
    <2>5. ToSet(A[i]) = T
      BY <2>3, <2>4, ElementsOf
    <2>6. A[i] \in Seq(Nat)
      <3>1. A[i] \in Seq(T)
        BY <2>3, <2>4 DEF Lists
      <3>2. T \subseteq Nat
        BY <1>2, <2>1
      <3>. QED BY <3>1, <3>2, SeqMonotonic
    <2>. QED BY <2>2, <2>3, <2>4, <2>5, <2>6 DEF p
  <1>7. A \in [1 .. k -> Seq(Nat)]
    <2>1. \A i \in 1 .. k : A[i] \in Seq(Nat)
      BY <1>6
    <2>. QED BY <1>0, <2>1
  <1>8. Divides(A, k, Size)
    <2>1. {ToSet(A[i]) : i \in 1 .. k} = {ToSet(P[i]) : i \in 1 .. k}
      BY <1>6
    <2>2. \A i \in 1 .. k : Lists(A[i], ToSet(A[i])) /\ ToSet(A[i]) # {}
      BY <1>5, <1>6
    <2>3. \A i, j \in 1 .. k : i # j => ToSet(A[i]) \cap ToSet(A[j]) = {}
      BY <1>5, <1>6
    <2>4. UNION {ToSet(A[i]) : i \in 1 .. k} = 1 .. Size
      BY <1>5, <2>1
    <2>. QED BY <1>7, <2>2, <2>3, <2>4 DEF Divides
  <1>. QED BY <1>6, <1>8 DEF k, P, A
LEMMA CallInvInit == Init => CallInv
  <1>. SUFFICES ASSUME Init PROVE CallInv
    OBVIOUS
  <1>0. /\ config \in Configs /\ lengths \in [Rows -> config.tokens]
        /\ pc = "balance" /\ order = [i \in Rows |-> i]
        /\ at = ForAll("idle") /\ chunk = ForAll(<<>>) /\ count = ForAll(0)
        /\ micros = ForAll(<<>>) /\ ran = ForAll(0) /\ results = ForAll(<<>>)
    BY DEF Init
  <1>1. \A w \in Workers : /\ at[w] = "idle" /\ chunk[w] = <<>> /\ count[w] = 0
                           /\ micros[w] = <<>> /\ ran[w] = 0 /\ results[w] = <<>>
    BY <1>0 DEF ForAll
  <1>2. IsPermutation(order, Size)
    <2>1. order = [i \in 1 .. Size |-> i]
      BY <1>0 DEF Rows
    <2>. QED BY <2>1 DEF IsPermutation
  <1>3. lengths \in [Rows -> 1 .. Width]
    BY <1>0, CallAssumption
  <1>4. /\ at \in [Workers -> {"idle", "prepare", "reduce", "run", "returned"}]
        /\ chunk \in [Workers -> Seq(Rows)] /\ count \in [Workers -> Nat]
        /\ micros \in [Workers -> Seq(Seq(Nat))] /\ ran \in [Workers -> Nat]
        /\ results \in [Workers -> Seq(Rows)]
    BY <1>0 DEF ForAll
  <1>5. CallTypeOK
    BY <1>0, <1>2, <1>3, <1>4 DEF CallTypeOK
  <1>6. DriverInv
    BY <1>0 DEF DriverInv
  <1>7. \A w \in Workers : WorkerInv(w)
    BY <1>1 DEF WorkerInv
  <1>8. Lockstep
    BY <1>1 DEF Lockstep
  <1>. QED BY <1>5, <1>6, <1>7, <1>8 DEF CallInv

\* _balance_batch: its check of the parts succeeds, the batch is permuted, and the
\* ranks get the parts.
LEMMA CallInvBalance == CallInv /\ Balance => CallInv'
  <1>. SUFFICES ASSUME CallInv, Balance PROVE CallInv'
    OBVIOUS
  <1>0. CallTypeOK /\ DriverInv /\ (\A w \in Workers : WorkerInv(w)) /\ Lockstep
    BY DEF CallInv
  <1>1. /\ config' = config /\ lengths' = lengths /\ output' = output
        /\ at' = at /\ chunk' = chunk /\ count' = count /\ micros' = micros
        /\ ran' = ran /\ results' = results /\ pc = "balance"
    BY DEF Balance, workerVars
  <1>2. Size' = Size /\ Rows' = Rows /\ Workers' = Workers /\ PerRank' = PerRank
    BY <1>1 DEF Size, Rows, Workers, PerRank
  <1>3. /\ config \in Configs /\ lengths \in [Rows -> 1 .. Width]
        /\ IsPermutation(order, Size)
    BY <1>0 DEF CallTypeOK
  <1>4. at = ForAll("idle") /\ ran = ForAll(0) /\ results = ForAll(<<>>)
    BY <1>0, <1>1 DEF DriverInv
  <1>. DEFINE k == config.dp
  <1>5. /\ pc' = "dispatch" /\ IsPermutation(order', Size)
        /\ config.balance =>
              \A x \in 0 .. k - 1 :
                 ToSet(SubSeq(order', x * PerRank + 1, (x + 1) * PerRank)) = ToSet(Partitions[x + 1])
    <2>1. CASE ~ config.balance
      BY <1>3, <2>1 DEF Balance
    <2>2. CASE config.balance
      <3>1. /\ Divides(Partitions, k, Size) /\ EquallySized(Partitions, Size)
        BY <1>3, PartitionsDivide
      <3>2. k \in Nat /\ Size \in Nat /\ PerRank \in Nat \ {0}
        BY <1>3, ConfigIs
      <3>3. IsPartition(Partitions, Size)
        BY <3>1, <3>2, DivisionIsPartition
      <3>4. pc' = "dispatch" /\ order' = FlattenSeq(ArrangedParts)
        BY <2>2, <3>1, <3>3 DEF Balance, ArrangedParts
      <3>5. Divides(ArrangedParts, k, Size)
        BY <1>3, ArrangedPartsDivide
      <3>6. \A i \in 1 .. k : /\ Len(ArrangedParts[i]) = PerRank
                              /\ ToSet(ArrangedParts[i]) = ToSet(Partitions[i])
        BY <1>3, ArrangedPartsDivide
      <3>7. IsPermutation(order', Size)
        BY <3>2, <3>4, <3>5, DivisionIsOrder, ListsInterval
      <3>. DEFINE l == PerRank
      <3>8. \A r \in 1 .. k : SubSeq(order', (r - 1) * l + 1, r * l) = ArrangedParts[r]
        <4>1. ArrangedParts \in [1 .. k -> Seq(Nat)]
          BY <3>5 DEF Divides
        <4>. HIDE DEF l, k
        <4>2. l \in Nat \ {0} /\ k \in Nat /\ \A i \in 1 .. k : Len(ArrangedParts[i]) = l
          BY <3>2, <3>6 DEF l
        <4>3. \A r \in 1 .. k :
                 SubSeq(FlattenSeq(ArrangedParts), (r - 1) * l + 1, r * l) = ArrangedParts[r]
          BY <4>1, <4>2, EqualParts
        <4>. QED BY <3>4, <4>3
      <3>9. ASSUME NEW x \in 0 .. k - 1
            PROVE  ToSet(SubSeq(order', x * l + 1, (x + 1) * l)) = ToSet(Partitions[x + 1])
        <4>. DEFINE r == x + 1
        <4>1. r \in 1 .. k /\ r - 1 = x
          BY <3>2
        <4>. HIDE DEF r
        <4>2. SubSeq(order', (r - 1) * l + 1, r * l) = ArrangedParts[r]
          BY <3>8, <4>1
        <4>3. ToSet(ArrangedParts[r]) = ToSet(Partitions[r])
          BY <3>6, <4>1
        <4>4. ToSet(SubSeq(order', x * l + 1, r * l)) = ToSet(Partitions[r])
          BY <4>1, <4>2, <4>3
        <4>. QED BY <4>4 DEF r
      <3>. QED BY <3>4, <3>7, <3>9
    <2>. QED BY <2>1, <2>2
  <1>6. CallTypeOK'
    BY <1>0, <1>1, <1>2, <1>5 DEF CallTypeOK
  <1>7. ASSUME config.balance, ~ config.prefixGrouper PROVE RanksBalanced'
    <2>1. Balanced(Partitions, Work, k, NeighbourSpread)
      BY <1>3, <1>7, PartitionsDivide
    <2>2. ASSUME NEW x \in 0 .. k - 1
          PROVE  x + 1 \in 1 .. k /\ RankWork(x)' = SumOver(Work, Partitions[x + 1])
      <3>1. RankWork(x)' = SumOver(Work, SubSeq(order', x * PerRank + 1, (x + 1) * PerRank))
        BY <1>1 DEF RankWork, ChunkOf, Work, PerRank, Size, Rows
      <3>2. ToSet(SubSeq(order', x * PerRank + 1, (x + 1) * PerRank)) = ToSet(Partitions[x + 1])
        BY <1>5, <1>7
      <3>3. RankWork(x)' = SumOver(Work, Partitions[x + 1])
        BY <3>1, <3>2, SumIsWeight
      <3>4. k \in Nat
        BY <1>3, ConfigIs
      <3>5. x + 1 \in 1 .. k
        BY <3>4
      <3>. QED BY <3>3, <3>5
    <2>3. \A q, r \in 0 .. k - 1 : RankWork(q)' - RankWork(r)' <= NeighbourSpread
      <3>. SUFFICES ASSUME NEW q \in 0 .. k - 1, NEW r \in 0 .. k - 1
                    PROVE  RankWork(q)' - RankWork(r)' <= NeighbourSpread
        OBVIOUS
      <3>1. SumOver(Work, Partitions[q + 1]) - SumOver(Work, Partitions[r + 1]) <= NeighbourSpread
        BY <2>1, <2>2 DEF Balanced
      <3>. QED BY <2>2, <3>1
    <2>4. NeighbourSpread' = NeighbourSpread /\ (config.dp)' = k
      BY <1>1 DEF NeighbourSpread, Work, Size, Rows
    <2>. QED BY <2>3, <2>4 DEF RanksBalanced
  <1>11. ASSUME config.balance, config.prefixGrouper PROVE GroupsStayTogether'
    <2>1. ASSUME NEW g \in 1 .. config.groups
          PROVE  \E x \in 0 .. k - 1 : RowsOfGroup(g)' \subseteq ToSet(ChunkOf(x))'
      <3>1. PICK i \in 1 .. k : RowsOfGroup(g) \subseteq ToSet(Partitions[i])
        BY <1>3, <1>11, PartitionsDivide
      <3>. DEFINE x == i - 1
      <3>2. x \in 0 .. k - 1 /\ x + 1 = i
        BY <1>3, ConfigIs
      <3>. HIDE DEF x
      <3>3. ToSet(SubSeq(order', x * PerRank + 1, (x + 1) * PerRank)) = ToSet(Partitions[i])
        BY <1>5, <1>11, <3>2
      <3>4. ChunkOf(x)' = SubSeq(order', x * PerRank + 1, (x + 1) * PerRank)
        BY <1>2 DEF ChunkOf
      <3>5. RowsOfGroup(g)' = RowsOfGroup(g)
        BY <1>1 DEF RowsOfGroup
      <3>. QED BY <3>1, <3>2, <3>3, <3>4, <3>5
    <2>. QED BY <1>1, <2>1 DEF GroupsStayTogether
  <1>8. DriverInv'
    <2>1. at' = ForAll("idle")' /\ ran' = ForAll(0)' /\ results' = ForAll(<<>>)'
      BY <1>1, <1>2, <1>4 DEF ForAll
    <2>2. (config.balance /\ ~ config.prefixGrouper) => RanksBalanced'
      BY <1>7
    <2>3. (config.balance /\ config.prefixGrouper) => GroupsStayTogether'
      BY <1>11
    <2>. QED BY <1>1, <1>5, <2>1, <2>2, <2>3 DEF DriverInv
  <1>9. (\A w \in Workers : WorkerInv(w))'
    <2>1. \A w \in Workers : at'[w] = "idle"
      BY <1>1, <1>4 DEF ForAll
    <2>. QED BY <1>2, <2>1 DEF WorkerInv
  <1>10. Lockstep'
    BY <1>0, <1>1, <1>2 DEF Lockstep
  <1>. QED BY <1>6, <1>8, <1>9, <1>10 DEF CallInv
\* Dispatch sends every worker the rows of its rank.
LEMMA CallInvDispatch == CallInv /\ Dispatch => CallInv'
  <1>. SUFFICES ASSUME CallInv, Dispatch PROVE CallInv'
    OBVIOUS
  <1>0. CallTypeOK /\ DriverInv /\ (\A w \in Workers : WorkerInv(w)) /\ Lockstep
    BY DEF CallInv
  <1>1. /\ config' = config /\ lengths' = lengths /\ order' = order /\ output' = output
        /\ count' = count /\ micros' = micros /\ ran' = ran /\ results' = results
        /\ pc = "dispatch" /\ pc' = "collect" /\ at' = ForAll("prepare")
        /\ chunk' = [w \in Workers |-> ChunkOf(DpRank(w))]
    BY DEF Dispatch
  <1>2. Size' = Size /\ Rows' = Rows /\ Workers' = Workers /\ PerRank' = PerRank
    BY <1>1 DEF Size, Rows, Workers, PerRank
  <1>3. config \in Configs /\ IsPermutation(order, Size)
    BY <1>0 DEF CallTypeOK
  <1>4. ran = ForAll(0) /\ results = ForAll(<<>>)
    BY <1>0, <1>1 DEF DriverInv
  <1>5. \A w \in Workers : /\ at'[w] = "prepare" /\ ran'[w] = 0 /\ results'[w] = <<>>
                           /\ chunk'[w] = ChunkOf(DpRank(w))
    BY <1>1, <1>4 DEF ForAll
  <1>6. \A w \in Workers : ChunkOf(DpRank(w)) \in Seq(Rows)
    <2>. SUFFICES ASSUME NEW w \in Workers PROVE ChunkOf(DpRank(w)) \in Seq(Rows)
      OBVIOUS
    <2>1. DpRank(w) \in 0 .. config.dp - 1
      BY <1>3, WorkerIs
    <2>. QED BY <1>3, <2>1, ChunkIs
  <1>7. CallTypeOK'
    <2>1. chunk' \in [Workers -> Seq(Rows)]
      BY <1>1, <1>6
    <2>2. at' \in [Workers -> {"idle", "prepare", "reduce", "run", "returned"}]
      BY <1>1 DEF ForAll
    <2>. QED BY <1>0, <1>1, <1>2, <2>1, <2>2 DEF CallTypeOK
  <1>8. DriverInv'
    <2>1. \A w \in Workers : ChunkOf(DpRank(w))' = ChunkOf(DpRank(w))
      BY <1>1, <1>2 DEF ChunkOf, DpRank
    <2>. QED BY <1>1, <1>2, <1>5, <2>1 DEF DriverInv
  <1>9. (\A w \in Workers : WorkerInv(w))'
    BY <1>2, <1>5 DEF WorkerInv
  <1>10. Lockstep'
    BY <1>2, <1>5 DEF Lockstep
  <1>. QED BY <1>7, <1>8, <1>9, <1>10 DEF CallInv

\* The chunks of the workers that answer, one after the other, are the batch.
LEMMA CollectedIsOrder ==
    ASSUME config \in Configs, IsPermutation(order, Size)
    PROVE  FlattenSeq([w \in Workers |-> IF IsCollect(w) THEN ChunkOf(DpRank(w)) ELSE <<>>])
              = order
  <1>. DEFINE k == config.dp
              s == config.sp
              l == PerRank
              n == k * s
              parts == [w \in Workers |-> IF IsCollect(w) THEN ChunkOf(DpRank(w)) ELSE <<>>]
              ranks(w) == IF w = 0 THEN 0 ELSE DpRank(w) + 1
              first(m) == [i \in 1 .. m * l |-> order[i]]
              f == [w \in 0 .. n |-> first(ranks(w))]
  <1>1. /\ k \in Nat \ {0} /\ s \in Nat \ {0} /\ l \in Nat \ {0} /\ n \in Nat \ {0}
        /\ Workers = 1 .. n /\ Rows = 1 .. k * l
    <2>1. /\ k \in Nat \ {0} /\ s \in Nat \ {0} /\ l \in Nat \ {0}
          /\ Workers = 1 .. n
      BY ConfigIs DEF Workers
    <2>2. Size = l * k
      BY ConfigIs
    <2>3. Rows = 1 .. k * l
      <3>. HIDE DEF l, k
      <3>1. l * k = k * l
        BY <2>1
      <3>. QED BY <2>2, <3>1 DEF Rows
    <2>4. n \in Nat \ {0}
      <3>. HIDE DEF k, s
      <3>. QED BY <2>1
    <2>. QED BY <2>1, <2>3, <2>4
  <1>2. order \in [1 .. k * l -> Rows]
    BY <1>1 DEF IsPermutation, Rows
  <1>3. \A w \in Workers : \E x \in 0 .. k - 1, i \in 1 .. s :
              w = x * s + i /\ DpRank(w) = x /\ (IsCollect(w) <=> i = 1)
    BY WorkerIs
  <1>4. ASSUME NEW x \in 0 .. k - 1
        PROVE  /\ ChunkOf(x) \in Seq(Rows) /\ Len(ChunkOf(x)) = l
               /\ \A i \in 1 .. l : ChunkOf(x)[i] = order[x * l + i]
    BY ChunkIs
  <1>. HIDE DEF k, s, l, n, parts
  <1>5. ASSUME NEW m \in 0 .. k
        PROVE  first(m) \in Seq(Rows) /\ Len(first(m)) = m * l /\ m * l \in Nat
               /\ DOMAIN first(m) = 1 .. m * l
    <2>1. m \in Nat /\ m * l \in Nat /\ m * l <= k * l /\ k * l \in Nat
      BY <1>1, Times
    <2>2. \A i \in 1 .. m * l : i \in 1 .. k * l
      BY <2>1
    <2>3. first(m) \in [1 .. m * l -> Rows]
      BY <1>2, <2>2
    <2>. HIDE DEF first
    <2>. QED BY <2>1, <2>3, LengthOfFunction
  \* One more rank.
  <1>6. ASSUME NEW x \in 0 .. k - 1
        PROVE  first(x + 1) = first(x) \o ChunkOf(x)
    <2>. DEFINE y == x * l
                u == first(x)
                v == first(x + 1)
                c == ChunkOf(x)
                h == u \o c
    <2>1. x \in 0 .. k /\ x + 1 \in 0 .. k /\ x \in Nat
      BY <1>1
    <2>2. y \in Nat /\ (x + 1) * l = y + l
      BY <1>1, <2>1
    <2>3. /\ u \in Seq(Rows) /\ Len(u) = y /\ v \in Seq(Rows) /\ Len(v) = (x + 1) * l
          /\ c \in Seq(Rows) /\ Len(c) = l
          /\ \A i \in 1 .. l : c[i] = order[y + i]
      BY <1>4, <1>5, <2>1
    <2>4. \A i \in 1 .. y : u[i] = order[i]
      OBVIOUS
    <2>5. \A i \in 1 .. (x + 1) * l : v[i] = order[i]
      OBVIOUS
    <2>. HIDE DEF u, v, c, y, first
    <2>6. Len(v) = y + l /\ \A i \in 1 .. y + l : v[i] = order[i]
      BY <2>2, <2>3, <2>5
    <2>7. /\ h \in Seq(Rows) /\ Len(h) = Len(u) + Len(c)
          /\ \A i \in 1 .. Len(u) + Len(c) :
                h[i] = IF i <= Len(u) THEN u[i] ELSE c[i - Len(u)]
      BY <2>3, ConcatProperties
    <2>. HIDE DEF h
    <2>8. ASSUME NEW i \in 1 .. y + l PROVE h[i] = v[i]
      <3>1. h[i] = IF i <= y THEN u[i] ELSE c[i - y]
        BY <2>3, <2>7
      <3>2. CASE i <= y
        <4>1. i \in 1 .. y
          BY <2>2, <3>2
        <4>. QED BY <2>4, <2>6, <3>1, <3>2, <4>1
      <3>3. CASE ~ i <= y
        <4>1. i - y \in 1 .. l /\ y + (i - y) = i
          BY <1>1, <2>2, <3>3
        <4>2. c[i - y] = order[y + (i - y)]
          BY <2>3, <4>1
        <4>. QED BY <2>6, <3>1, <3>3, <4>1, <4>2
      <3>. QED BY <3>2, <3>3
    <2>9. Len(h) = y + l
      BY <2>3, <2>7
    <2>10. h = v
      <3>1. h \in Seq(Rows) /\ v \in Seq(Rows)
        BY <2>3, <2>7
      <3>2. Len(h) = Len(v)
        BY <2>6, <2>9
      <3>3. \A i \in 1 .. Len(h) : h[i] = v[i]
        BY <2>8, <2>9
      <3>. QED BY <3>1, <3>2, <3>3, SeqEqual
    <2>. QED BY <2>10 DEF h, u, v, c
  <1>7. ASSUME NEW w \in 1 .. n
        PROVE  /\ parts[w] \in Seq(Rows)
               /\ w \in 0 .. n /\ w - 1 \in 0 .. n
               /\ ranks(w) \in 0 .. k /\ ranks(w - 1) \in 0 .. k
               /\ first(ranks(w)) = first(ranks(w - 1)) \o parts[w]
    <2>0. w \in Workers /\ w # 0 /\ w \in 0 .. n /\ w - 1 \in 0 .. n
      BY <1>1
    <2>1. PICK x \in 0 .. k - 1, i \in 1 .. s :
              w = x * s + i /\ DpRank(w) = x /\ (IsCollect(w) <=> i = 1)
      BY <1>3, <2>0
    <2>2. ranks(w) = x + 1 /\ x + 1 \in 0 .. k /\ x \in 0 .. k
      BY <1>1, <2>0, <2>1
    <2>3. parts[w] = IF i = 1 THEN ChunkOf(x) ELSE <<>>
      BY <2>0, <2>1 DEF parts
    <2>. HIDE DEF first
    <2>4. CASE i = 1
      <3>1. ranks(w - 1) = x
        <4>1. CASE x = 0
          <5>1. w - 1 = 0
            BY <1>1, <2>1, <2>4, <4>1
          <5>. QED BY <4>1, <5>1
        <4>2. CASE x # 0
          <5>. DEFINE v == w - 1
          <5>1. v = x * s /\ x \in Nat \ {0} /\ x * s \in Nat \ {0}
            BY <1>1, <2>1, <2>4, <4>2
          <5>2. v \in 1 .. n
            BY <1>1, <2>0, <5>1
          <5>3. PICK z \in 0 .. k - 1, j \in 1 .. s : v = z * s + j /\ DpRank(v) = z
            BY <1>1, <1>3, <5>2
          <5>4. x - 1 \in 0 .. k - 1 /\ s \in 1 .. s /\ v = (x - 1) * s + s
            BY <1>1, <5>1
          <5>. HIDE DEF v
          <5>5. z = x - 1
            BY <1>1, <5>3, <5>4, Blocks
          <5>6. v # 0
            BY <5>1
          <5>7. ranks(v) = x
            BY <5>3, <5>5, <5>6, <2>2
          <5>. QED BY <5>7 DEF v
        <4>. QED BY <4>1, <4>2
      <3>2. first(x + 1) = first(x) \o ChunkOf(x) /\ ChunkOf(x) \in Seq(Rows)
        BY <1>4, <1>6
      <3>. QED BY <2>0, <2>2, <2>3, <2>4, <3>1, <3>2
    <2>5. CASE i # 1
      <3>. DEFINE v == w - 1
                  a == i - 1
      <3>1. v = x * s + a /\ a \in 1 .. s /\ x * s \in Nat
        BY <1>1, <2>1, <2>5
      <3>2. v \in 1 .. n
        BY <1>1, <2>0, <3>1
      <3>3. PICK z \in 0 .. k - 1, j \in 1 .. s : v = z * s + j /\ DpRank(v) = z
        BY <1>1, <1>3, <3>2
      <3>. HIDE DEF v, a
      <3>4. z = x
        BY <1>1, <3>1, <3>3, Blocks
      <3>5. ranks(v) = x + 1
        <4>1. v # 0
          BY <1>1, <3>2
        <4>. QED BY <3>3, <3>4, <4>1
      <3>6. parts[w] = <<>> /\ <<>> \in Seq(Rows)
        BY <2>3, <2>5
      <3>7. first(x + 1) \in Seq(Rows)
        BY <1>5, <2>2
      <3>8. first(x + 1) = first(x + 1) \o <<>>
        BY <3>7, ConcatEmptySeq
      <3>. HIDE DEF ranks
      <3>9. first(ranks(w)) = first(ranks(v)) \o parts[w]
        BY <2>2, <3>5, <3>6, <3>8
      <3>10. ranks(v) \in 0 .. k
        BY <2>2, <3>5
      <3>. QED BY <2>0, <2>2, <3>6, <3>9, <3>10 DEF v
    <2>. QED BY <2>4, <2>5
  <1>8. f \in [0 .. n -> Seq(Rows)]
    <2>1. ASSUME NEW w \in 0 .. n PROVE first(ranks(w)) \in Seq(Rows)
      <3>1. ranks(w) \in 0 .. k
        <4>1. CASE w = 0
          BY <1>1, <4>1
        <4>2. CASE w # 0
          <5>1. w \in 1 .. n
            BY <1>1, <4>2
          <5>. QED BY <1>7, <5>1
        <4>. QED BY <4>1, <4>2
      <3>. HIDE DEF ranks, first
      <3>. QED BY <1>5, <3>1
    <2>. HIDE DEF ranks, first
    <2>. QED BY <2>1
  <1>9. f[0] = <<>>
    <2>1. f[0] = first(0)
      BY <1>1
    <2>2. 0 * l = 0
      BY <1>1
    <2>. QED BY <2>1, <2>2
  <1>10. ASSUME NEW w \in 1 .. n PROVE f[w] = f[w - 1] \o parts[w]
    <2>1. f[w] = first(ranks(w)) /\ f[w - 1] = first(ranks(w - 1))
      <3>1. w \in 0 .. n /\ w - 1 \in 0 .. n
        BY <1>7
      <3>. HIDE DEF first, ranks
      <3>. QED BY <3>1
    <2>. HIDE DEF f, first, ranks
    <2>. QED BY <1>7, <2>1
  <1>11. parts \in [1 .. n -> Seq(Rows)]
    <2>1. parts = [w \in 1 .. n |-> parts[w]]
      BY <1>1 DEF parts
    <2>. QED BY <1>7, <2>1
  <1>12. FlattenSeq(parts) = f[n]
    <2>. HIDE DEF f
    <2>1. n \in Nat /\ \A w \in 1 .. n : f[w] = f[w - 1] \o parts[w]
      BY <1>1, <1>10
    <2>. QED BY <1>8, <1>9, <1>11, <2>1, FlattenIs
  <1>13. f[n] = order
    <2>1. n \in 0 .. n /\ n \in 1 .. n /\ n # 0
      BY <1>1
    <2>2. PICK x \in 0 .. k - 1, i \in 1 .. s : n = x * s + i /\ DpRank(n) = x
      BY <1>1, <1>3, <2>1
    <2>3. k - 1 \in 0 .. k - 1 /\ s \in 1 .. s /\ n = (k - 1) * s + s
      BY <1>1 DEF n
    <2>4. x = k - 1
      BY <1>1, <2>2, <2>3, Blocks
    <2>5. ranks(n) = k
      BY <1>1, <2>1, <2>2, <2>4
    <2>6. f[n] = first(ranks(n))
      <3>. HIDE DEF first, ranks
      <3>. QED BY <2>1
    <2>7. f[n] = first(k)
      BY <2>5, <2>6
    <2>. QED BY <1>2, <2>7
  <1>. QED BY <1>12, <1>13 DEF parts
\* Collect puts the results of the ranks in the order of the batch.
LEMMA CallInvCollect == CallInv /\ Collect => CallInv'
  <1>. SUFFICES ASSUME CallInv, Collect PROVE CallInv'
    OBVIOUS
  <1>0. CallTypeOK /\ DriverInv /\ (\A w \in Workers : WorkerInv(w)) /\ Lockstep
    BY DEF CallInv
  <1>1. /\ config' = config /\ lengths' = lengths /\ order' = order
        /\ at' = at /\ chunk' = chunk /\ count' = count /\ micros' = micros
        /\ ran' = ran /\ results' = results
        /\ pc = "collect" /\ pc' = "done" /\ \A w \in Workers : at[w] = "returned"
    BY DEF Collect, workerVars
  <1>2. Size' = Size /\ Rows' = Rows /\ Workers' = Workers /\ PerRank' = PerRank
    BY <1>1 DEF Size, Rows, Workers, PerRank
  <1>3. config \in Configs /\ IsPermutation(order, Size)
    BY <1>0 DEF CallTypeOK
  <1>4. \A w \in Workers : results[w] = chunk[w] /\ chunk[w] = ChunkOf(DpRank(w))
    BY <1>0, <1>1 DEF DriverInv, WorkerInv
  <1>5. output' = order
    <2>1. output' = FlattenSeq([w \in Workers |-> IF IsCollect(w) THEN results[w] ELSE <<>>])
      BY DEF Collect
    <2>2. [w \in Workers |-> IF IsCollect(w) THEN results[w] ELSE <<>>]
             = [w \in Workers |-> IF IsCollect(w) THEN ChunkOf(DpRank(w)) ELSE <<>>]
      BY <1>4
    <2>. QED BY <1>3, <2>1, <2>2, CollectedIsOrder
  <1>6. CallTypeOK'
    BY <1>0, <1>1, <1>2 DEF CallTypeOK
  <1>7. DriverInv'
    <2>1. \A w \in Workers : ChunkOf(DpRank(w))' = ChunkOf(DpRank(w))
      BY <1>1, <1>2 DEF ChunkOf, DpRank
    <2>. QED BY <1>1, <1>2, <1>4, <1>5, <2>1 DEF DriverInv
  <1>8. (\A w \in Workers : WorkerInv(w))'
    BY <1>0, <1>1, <1>2 DEF WorkerInv, MicrosBalanced, WorkOf
  <1>9. Lockstep'
    BY <1>0, <1>1, <1>2 DEF Lockstep
  <1>. QED BY <1>6, <1>7, <1>8, <1>9 DEF CallInv

\* The rows a worker has, once the batch is dispatched.
LEMMA RowsOfWorker ==
    ASSUME CallTypeOK, DriverInv, pc \in {"collect", "done"}, NEW w \in Workers
    PROVE  /\ chunk[w] \in [1 .. PerRank -> Rows]
           /\ chunk[w] \in Seq(Rows) /\ Len(chunk[w]) = PerRank
           /\ LengthsOf(w) \in [1 .. PerRank -> Nat \ {0}]
           /\ WorkOf(w) \in [1 .. PerRank -> Nat \ {0}]
  <1>1. config \in Configs /\ IsPermutation(order, Size) /\ lengths \in [Rows -> 1 .. Width]
    BY DEF CallTypeOK
  <1>2. chunk[w] = ChunkOf(DpRank(w))
    BY DEF DriverInv
  <1>3. DpRank(w) \in 0 .. config.dp - 1
    BY <1>1, WorkerIs
  <1>4. /\ chunk[w] \in [1 .. PerRank -> Rows]
        /\ chunk[w] \in Seq(Rows) /\ Len(chunk[w]) = PerRank
    BY <1>1, <1>2, <1>3, ChunkIs
  <1>5. \A i \in 1 .. PerRank : lengths[chunk[w][i]] \in Nat \ {0}
    <2>1. \A r \in Rows : lengths[r] \in Nat \ {0}
      BY <1>1, CallAssumption
    <2>. QED BY <1>4, <2>1
  <1>6. \A i \in 1 .. PerRank : Workload(lengths[chunk[w][i]]) \in Nat \ {0}
    <2>1. \A n \in Nat \ {0} : Workload(n) \in Nat \ {0}
      BY WorkloadIs
    <2>. QED BY <1>5, <2>1
  <1>7. LengthsOf(w) = [i \in 1 .. PerRank |-> lengths[chunk[w][i]]]
        /\ WorkOf(w) = [i \in 1 .. PerRank |-> Workload(lengths[chunk[w][i]])]
    BY <1>4 DEF LengthsOf, WorkOf
  <1>8. LengthsOf(w) \in [1 .. PerRank -> Nat \ {0}]
    BY <1>5, <1>7
  <1>9. WorkOf(w) \in [1 .. PerRank -> Nat \ {0}]
    BY <1>6, <1>7
  <1>. QED BY <1>4, <1>8, <1>9

LEMMA CoversType ==
    ASSUME NEW n \in Nat, NEW k \in Nat, NEW parts, Covers(parts, k, n)
    PROVE  parts \in Seq(Seq(Nat)) /\ Len(parts) = k
  <1>1. parts \in [1 .. k -> Seq(1 .. n)]
    BY DEF Covers
  <1>2. parts \in Seq(Seq(1 .. n)) /\ Len(parts) = k
    BY <1>1, LengthOfFunction
  <1>3. Seq(1 .. n) \subseteq Seq(Nat)
    <2>1. 1 .. n \subseteq Nat
      OBVIOUS
    <2>. QED BY <2>1, SeqMonotonic
  <1>. QED BY <1>2, <1>3, SeqMonotonic

\* Before the first micro-batch there are no results.
LEMMA NothingGathered ==
    ASSUME NEW n \in Nat, NEW parts, Covers(parts, Len(parts), n), Len(parts) \in Nat, NEW mine
    PROVE  FirstResults(mine, parts, 0) = <<>>
  <1>1. parts \in [1 .. Len(parts) -> Seq(1 .. n)]
    BY DEF Covers
  <1>2. FlattenSeq(SubSeq(parts, 1, 0)) = <<>>
    BY <1>1, FlattenMore
  <1>3. [i \in 1 .. Len(<<>>) |-> mine[<<>>[i]]] = <<>>
    <2>1. Len(<<>>) = 0
      OBVIOUS
    <2>. QED BY <2>1
  <1>. QED BY <1>2, <1>3 DEF FirstResults, Gathered

\* A worker divides its rows alone, or finds out how many micro-batches it needs.
LEMMA CallInvPrepare == ASSUME NEW w \in Workers PROVE CallInv /\ Prepare(w) => CallInv'
  <1>. SUFFICES ASSUME CallInv, Prepare(w) PROVE CallInv'
    OBVIOUS
  <1>0. CallTypeOK /\ DriverInv /\ (\A v \in Workers : WorkerInv(v)) /\ Lockstep
    BY DEF CallInv
  <1>1. /\ config' = config /\ lengths' = lengths /\ order' = order /\ output' = output
        /\ chunk' = chunk /\ ran' = ran /\ results' = results /\ pc' = pc
        /\ at[w] = "prepare"
    BY DEF Prepare, driverVars
  <1>2. Size' = Size /\ Rows' = Rows /\ Workers' = Workers /\ PerRank' = PerRank
    BY <1>1 DEF Size, Rows, Workers, PerRank
  <1>3. config \in Configs /\ pc \in {"collect", "done"} /\ pc # "done"
    <2>1. ForAll("idle")[w] = "idle"
      BY DEF ForAll
    <2>. QED BY <1>0, <1>1, <2>1 DEF CallTypeOK, DriverInv
  <1>4. PerRank \in Nat \ {0} /\ MaxTokens \in Nat \ {0} /\ config.microSize \in Nat \ {0}
    BY <1>3, ConfigIs
  <1>5. /\ Len(chunk[w]) = PerRank /\ LengthsOf(w) \in [1 .. PerRank -> Nat \ {0}]
    BY <1>0, <1>3, RowsOfWorker
  <1>6. ran[w] = 0 /\ results[w] = <<>>
    BY <1>0, <1>1 DEF WorkerInv
  <1>7. /\ at \in [Workers -> {"idle", "prepare", "reduce", "run", "returned"}]
        /\ count \in [Workers -> Nat] /\ micros \in [Workers -> Seq(Seq(Nat))]
    BY <1>0 DEF CallTypeOK
  <1>8. CASE config.dynamic
    <2>1. /\ count' = [count EXCEPT ![w] = MicroBatchesFor(LengthsOf(w), MaxTokens)]
          /\ at' = [at EXCEPT ![w] = "reduce"] /\ micros' = micros
      BY <1>8 DEF Prepare
    <2>2. MicroBatchesFor(LengthsOf(w), MaxTokens) \in 1 .. PerRank
      BY <1>4, <1>5, MicroBatchesNeeded
    <2>3. /\ at'[w] = "reduce" /\ count'[w] \in 1 .. PerRank
          /\ \A v \in Workers : v # w => at'[v] = at[v] /\ count'[v] = count[v]
      BY <1>7, <2>1, <2>2
    <2>4. CallTypeOK'
      <3>1. count' \in [Workers -> Nat]
        BY <1>4, <1>7, <2>1, <2>2
      <3>2. at' \in [Workers -> {"idle", "prepare", "reduce", "run", "returned"}]
        BY <1>7, <2>1
      <3>. QED BY <1>0, <1>1, <1>2, <2>1, <3>1, <3>2 DEF CallTypeOK
    <2>5. DriverInv'
      <3>1. \A v \in Workers : ChunkOf(DpRank(v))' = ChunkOf(DpRank(v))
        BY <1>1, <1>2 DEF ChunkOf, DpRank
      <3>2. \A v \in Workers : at'[v] # "idle"
        BY <1>0, <1>3, <2>3 DEF DriverInv
      <3>3. \A v \in Workers : chunk[v] = ChunkOf(DpRank(v))
        BY <1>0, <1>3 DEF DriverInv
      <3>4. pc' \notin {"balance", "dispatch", "done", "failed"}
        BY <1>1, <1>3
      <3>. QED BY <1>1, <1>2, <3>1, <3>2, <3>3, <3>4 DEF DriverInv
    <2>6. ASSUME NEW v \in Workers PROVE WorkerInv(v)'
      <3>1. CASE v = w
        BY <1>1, <1>2, <1>6, <1>8, <2>3, <3>1 DEF WorkerInv
      <3>2. CASE v # w
        <4>1. at'[v] = at[v] /\ count'[v] = count[v]
          BY <2>3, <3>2
        <4>2. WorkerInv(v)
          BY <1>0
        <4>. QED BY <1>1, <1>2, <2>1, <4>1, <4>2 DEF WorkerInv, MicrosBalanced, WorkOf
      <3>. QED BY <3>1, <3>2
    <2>7. Lockstep'
      BY <1>0, <1>1, <1>2, <2>1, <2>3 DEF Lockstep
    <2>. QED BY <1>2, <2>4, <2>5, <2>6, <2>7 DEF CallInv
  <1>9. CASE ~ config.dynamic
    <2>. DEFINE parts == Split(PerRank, config.microSize)
                k == CeilDiv(PerRank, config.microSize)
    <2>1. /\ micros' = [micros EXCEPT ![w] = parts]
          /\ at' = [at EXCEPT ![w] = "run"] /\ count' = count
      BY <1>5, <1>9 DEF Prepare
    <2>2. k \in Nat /\ Covers(parts, k, PerRank)
      BY <1>4, SplitCovers
    <2>. HIDE DEF parts, k
    <2>3. Len(parts) = k /\ Covers(parts, Len(parts), PerRank) /\ Len(parts) \in Nat
      <3>1. Len(parts) = k
        BY <2>2, LengthOfFunction DEF Covers
      <3>. QED BY <2>2, <3>1
    <2>4. /\ at'[w] = "run" /\ micros'[w] = parts
          /\ \A v \in Workers : v # w => at'[v] = at[v] /\ micros'[v] = micros[v]
      BY <1>7, <2>1
    <2>5. CallTypeOK'
      <3>1. micros' \in [Workers -> Seq(Seq(Nat))]
        <4>1. parts \in Seq(Seq(Nat))
          BY <1>4, <2>2, CoversType
        <4>. QED BY <1>7, <2>1, <4>1
      <3>2. at' \in [Workers -> {"idle", "prepare", "reduce", "run", "returned"}]
        BY <1>7, <2>1
      <3>. QED BY <1>0, <1>1, <1>2, <2>1, <3>1, <3>2 DEF CallTypeOK
    <2>6. DriverInv'
      <3>1. \A v \in Workers : ChunkOf(DpRank(v))' = ChunkOf(DpRank(v))
        BY <1>1, <1>2 DEF ChunkOf, DpRank
      <3>2. \A v \in Workers : at'[v] # "idle"
        BY <1>0, <1>3, <2>4 DEF DriverInv
      <3>3. \A v \in Workers : chunk[v] = ChunkOf(DpRank(v))
        BY <1>0, <1>3 DEF DriverInv
      <3>4. pc' \notin {"balance", "dispatch", "done", "failed"}
        BY <1>1, <1>3
      <3>. QED BY <1>1, <1>2, <3>1, <3>2, <3>3, <3>4 DEF DriverInv
    <2>7. ASSUME NEW v \in Workers PROVE WorkerInv(v)'
      <3>1. CASE v = w
        <4>1. FirstResults(chunk[w], parts, 0) = <<>>
          <5>1. PerRank \in Nat
            BY <1>4
          <5>. QED BY <2>3, <5>1, NothingGathered
        <4>2. 0 <= Len(parts)
          BY <2>3
        <4>3. micros'[w] = Split(PerRank, config.microSize)
          BY <2>4 DEF parts
        <4>. QED BY <1>1, <1>2, <1>6, <1>9, <2>3, <2>4, <3>1, <4>1, <4>2, <4>3
                 DEF WorkerInv
      <3>2. CASE v # w
        <4>1. at'[v] = at[v] /\ micros'[v] = micros[v]
          BY <2>4, <3>2
        <4>2. WorkerInv(v)
          BY <1>0
        <4>. QED BY <1>1, <1>2, <2>1, <4>1, <4>2 DEF WorkerInv, MicrosBalanced, WorkOf
      <3>. QED BY <3>1, <3>2
    <2>8. Lockstep'
      <3>1. \A v \in Workers : at'[v] \in {"run", "returned"} => micros'[v] = parts
        <4>. SUFFICES ASSUME NEW v \in Workers, at'[v] \in {"run", "returned"}
                      PROVE  micros'[v] = parts
          OBVIOUS
        <4>1. WorkerInv(v)'
          BY <2>7
        <4>. QED BY <1>1, <1>2, <1>9, <4>1 DEF WorkerInv, parts
      <3>. QED BY <1>0, <1>1, <1>2, <3>1 DEF Lockstep
    <2>. QED BY <1>2, <2>5, <2>6, <2>7, <2>8 DEF CallInv
  <1>. QED BY <1>8, <1>9
\* The agreed number of micro-batches is one of those that the workers need.
LEMMA AgreedIsNeeded ==
    ASSUME NEW n \in Nat, \A v \in Workers : count[v] \in 1 .. n, NEW w \in Workers
    PROVE  AgreedCount(w) \in 1 .. n
  <1>. DEFINE T == {count[v] : v \in Workers}
  <1>1. T \subseteq 0 .. n /\ T # {} /\ T \subseteq 1 .. n
    OBVIOUS
  <1>2. AgreedCount(w) = Max(T)
    BY DEF AgreedCount
  <1>. HIDE DEF T
  <1>3. Max(T) \in T
    BY <1>1, GreatestElement
  <1>. QED BY <1>1, <1>2, <1>3

\* All workers divide their rows into as many micro-batches, and what each checks of
\* its own holds.
LEMMA CallInvAgree == CallInv /\ Agree => CallInv'
  <1>. SUFFICES ASSUME CallInv, Agree PROVE CallInv'
    OBVIOUS
  <1>0. CallTypeOK /\ DriverInv /\ (\A w \in Workers : WorkerInv(w)) /\ Lockstep
    BY DEF CallInv
  <1>1. /\ config' = config /\ lengths' = lengths /\ order' = order /\ output' = output
        /\ chunk' = chunk /\ count' = count /\ ran' = ran /\ results' = results
        /\ pc = "collect" /\ \A w \in Workers : at[w] = "reduce"
    BY DEF Agree
  <1>2. Size' = Size /\ Rows' = Rows /\ Workers' = Workers /\ PerRank' = PerRank
    BY <1>1 DEF Size, Rows, Workers, PerRank
  <1>3. config \in Configs
    BY <1>0 DEF CallTypeOK
  <1>4. PerRank \in Nat \ {0} /\ PerRank \in Nat
    BY <1>3, ConfigIs
  <1>5. \A w \in Workers : /\ config.dynamic /\ count[w] \in 1 .. PerRank
                           /\ ran[w] = 0 /\ results[w] = <<>>
    BY <1>0, <1>1 DEF WorkerInv
  <1>6. ASSUME NEW w \in Workers
        PROVE  /\ AgreedCount(w) \in 1 .. PerRank
               /\ Len(chunk[w]) = PerRank
               /\ WorkOf(w) \in [1 .. PerRank -> Nat \ {0}]
    BY <1>0, <1>1, <1>4, <1>5, AgreedIsNeeded, RowsOfWorker
  <1>. DEFINE micro(w) == RearrangedMicroBatches(WorkOf(w), AgreedCount(w))
              D(w) == Max(ToSet(WorkOf(w)))
  <1>7. ASSUME NEW w \in Workers
        PROVE  /\ Covers(micro(w), AgreedCount(w), PerRank)
               /\ Alike(micro(w), WorkOf(w), D(w))
               /\ IsPartition(BalancedPartitions(WorkOf(w), AgreedCount(w), FALSE), PerRank)
    <2>. DEFINE W == WorkOf(w)
                k == AgreedCount(w)
                d == Max(ToSet(W))
    <2>1. W \in [1 .. PerRank -> Nat \ {0}] /\ k \in 1 .. PerRank
      BY <1>6
    <2>. HIDE DEF W, k
    <2>2. d \in Nat /\ RowsAtMost(W, PerRank, d)
      BY <1>4, <2>1, LargestRow
    <2>. HIDE DEF d
    <2>3. /\ Covers(RearrangedMicroBatches(W, k), k, PerRank)
          /\ Alike(RearrangedMicroBatches(W, k), W, d)
          /\ IsPartition(BalancedPartitions(W, k, FALSE), PerRank)
      BY <1>4, <2>1, <2>2, RearrangedDivides, Zenon
    <2>. QED BY <2>3 DEF W, k, d
  <1>8. /\ micros' = [w \in Workers |-> micro(w)]
        /\ at' = ForAll("run") /\ pc' = pc
    <2>1. \A w \in Workers :
             /\ AgreedCount(w) <= Len(chunk[w])
             /\ IsPartition(BalancedPartitions(WorkOf(w), AgreedCount(w), FALSE), Len(chunk[w]))
      <3>. SUFFICES ASSUME NEW w \in Workers
                    PROVE  /\ AgreedCount(w) <= Len(chunk[w])
                           /\ IsPartition(BalancedPartitions(WorkOf(w), AgreedCount(w), FALSE),
                                          Len(chunk[w]))
        OBVIOUS
      <3>1. AgreedCount(w) <= Len(chunk[w])
        BY <1>4, <1>6
      <3>2. Len(chunk[w]) = PerRank
        BY <1>6
      <3>3. IsPartition(BalancedPartitions(WorkOf(w), AgreedCount(w), FALSE), PerRank)
        BY <1>7
      <3>. QED BY <3>1, <3>2, <3>3
    <2>. QED BY <2>1 DEF Agree
  <1>. HIDE DEF micro
  <1>9. \A w \in Workers : at'[w] = "run" /\ micros'[w] = micro(w)
    BY <1>8 DEF ForAll
  <1>10. ASSUME NEW w \in Workers
         PROVE  /\ Len(micro(w)) = AgreedCount(w) /\ Len(micro(w)) \in Nat
                /\ Covers(micro(w), Len(micro(w)), PerRank)
    <2>1. AgreedCount(w) \in Nat
      BY <1>6
    <2>2. Len(micro(w)) = AgreedCount(w)
      BY <1>7, <2>1, LengthOfFunction DEF Covers
    <2>. QED BY <1>7, <2>1, <2>2
  <1>11. CallTypeOK'
    <2>1. micros' \in [Workers -> Seq(Seq(Nat))]
      <3>1. \A w \in Workers : micro(w) \in Seq(Seq(Nat))
        BY <1>4, <1>10, CoversType
      <3>. QED BY <1>8, <3>1
    <2>2. at' \in [Workers -> {"idle", "prepare", "reduce", "run", "returned"}]
      BY <1>8 DEF ForAll
    <2>. QED BY <1>0, <1>1, <1>2, <1>8, <2>1, <2>2 DEF CallTypeOK
  <1>12. DriverInv'
    <2>1. \A v \in Workers : ChunkOf(DpRank(v))' = ChunkOf(DpRank(v))
      BY <1>1, <1>2 DEF ChunkOf, DpRank
    <2>2. \A v \in Workers : chunk[v] = ChunkOf(DpRank(v))
      BY <1>0, <1>1 DEF DriverInv
    <2>. QED BY <1>1, <1>2, <1>8, <1>9, <2>1, <2>2 DEF DriverInv
  <1>13. ASSUME NEW w \in Workers PROVE WorkerInv(w)'
    <2>1. FirstResults(chunk[w], micro(w), 0) = <<>>
      BY <1>4, <1>10, NothingGathered
    <2>2. MicrosBalanced(w)'
      <3>1. WorkOf(w)' = WorkOf(w)
        BY <1>1 DEF WorkOf
      <3>2. Alike(micro(w), WorkOf(w), D(w))
        BY <1>7
      <3>. QED BY <1>9, <3>1, <3>2 DEF MicrosBalanced, Alike
    <2>3. 0 <= Len(micro(w))
      BY <1>10
    <2>. QED BY <1>1, <1>2, <1>5, <1>9, <1>10, <2>1, <2>2, <2>3 DEF WorkerInv
  <1>14. Lockstep'
    <2>1. \A v, w \in Workers : Len(micro(v)) = Len(micro(w))
      BY <1>10 DEF AgreedCount
    <2>. QED BY <1>1, <1>2, <1>5, <1>9, <2>1 DEF Lockstep
  <1>. QED BY <1>2, <1>11, <1>12, <1>13, <1>14 DEF CallInv

\* The results of one more micro-batch.
LEMMA OneMoreGathered ==
    ASSUME NEW n \in Nat, NEW parts, Len(parts) \in Nat, Covers(parts, Len(parts), n),
           NEW mine \in [1 .. n -> Rows], NEW r \in 1 .. Len(parts)
    PROVE  /\ FirstResults(mine, parts, r)
                 = FirstResults(mine, parts, r - 1) \o Gathered(mine, parts[r])
           /\ FirstResults(mine, parts, r) \in Seq(Rows)
  <1>. DEFINE u == FlattenSeq(SubSeq(parts, 1, r - 1))
              t == parts[r]
              a == [i \in 1 .. Len(u) |-> mine[u[i]]]
              b == [i \in 1 .. Len(t) |-> mine[t[i]]]
  <1>1. parts \in [1 .. Len(parts) -> Seq(1 .. n)]
    BY DEF Covers
  <1>2. /\ u \in Seq(1 .. n) /\ t \in Seq(1 .. n)
        /\ FlattenSeq(SubSeq(parts, 1, r)) = u \o t
    <2>. DEFINE k == Len(parts)
    <2>1. k \in Nat /\ parts \in [1 .. k -> Seq(1 .. n)] /\ r \in 1 .. k
      BY <1>1
    <2>. HIDE DEF k
    <2>2. /\ FlattenSeq(SubSeq(parts, 1, r - 1)) \in Seq(1 .. n)
          /\ FlattenSeq(SubSeq(parts, 1, r)) = FlattenSeq(SubSeq(parts, 1, r - 1)) \o parts[r]
      <3>1. \A q \in 1 .. k :
               /\ FlattenSeq(SubSeq(parts, 1, q - 1)) \in Seq(1 .. n)
               /\ FlattenSeq(SubSeq(parts, 1, q)) = FlattenSeq(SubSeq(parts, 1, q - 1)) \o parts[q]
        BY <2>1, FlattenMore
      <3>. QED BY <2>1, <3>1
    <2>3. t \in Seq(1 .. n)
      BY <2>1
    <2>. QED BY <2>2, <2>3
  <1>. HIDE DEF u, t
  <1>3. /\ u \o t \in Seq(1 .. n) /\ Len(u \o t) = Len(u) + Len(t)
        /\ \A i \in 1 .. Len(u) + Len(t) :
              (u \o t)[i] = IF i <= Len(u) THEN u[i] ELSE t[i - Len(u)]
        /\ Len(u) \in Nat /\ Len(t) \in Nat
    BY <1>2, ConcatProperties, LenProperties
  <1>. DEFINE x == Len(u)
              y == Len(t)
              h == u \o t
              g == [i \in 1 .. x + y |-> mine[h[i]]]
  <1>4. \A i \in 1 .. x + y : g[i] = mine[h[i]]
    OBVIOUS
  <1>5. FirstResults(mine, parts, r) = g
    BY <1>2, <1>3 DEF FirstResults, Gathered
  <1>6. FirstResults(mine, parts, r - 1) = a /\ Gathered(mine, parts[r]) = b
    BY DEF FirstResults, Gathered, u, t
  <1>7. \A i \in 1 .. x : a[i] = mine[u[i]]
    OBVIOUS
  <1>8. \A i \in 1 .. y : b[i] = mine[t[i]]
    OBVIOUS
  <1>9. x \in Nat /\ y \in Nat
    BY <1>3
  <1>10. \A i \in 1 .. x + y : h[i] \in 1 .. n
    <2>1. h \in Seq(1 .. n) /\ Len(h) = x + y
      BY <1>3
    <2>. HIDE DEF h, x, y
    <2>. QED BY <2>1, ElementOfSeq
  <1>11. a \in Seq(Rows) /\ Len(a) = x
    <2>1. \A i \in 1 .. x : u[i] \in 1 .. n
      BY <1>2, ElementOfSeq
    <2>2. a \in [1 .. x -> Rows]
      BY <2>1
    <2>. HIDE DEF a, x
    <2>. QED BY <1>9, <2>2, LengthOfFunction
  <1>12. b \in Seq(Rows) /\ Len(b) = y
    <2>1. \A i \in 1 .. y : t[i] \in 1 .. n
      BY <1>2, ElementOfSeq
    <2>2. b \in [1 .. y -> Rows]
      BY <2>1
    <2>. HIDE DEF b, y
    <2>. QED BY <1>9, <2>2, LengthOfFunction
  <1>13. g \in Seq(Rows) /\ Len(g) = x + y
    <2>. HIDE DEF x, y, h
    <2>1. g \in [1 .. x + y -> Rows] /\ x + y \in Nat
      BY <1>9, <1>10
    <2>. HIDE DEF g
    <2>. QED BY <2>1, LengthOfFunction
  <1>14. \A i \in 1 .. x + y : h[i] = IF i <= x THEN u[i] ELSE t[i - x]
    BY <1>3
  <1>. HIDE DEF g, a, b, h, x, y
  <1>15. /\ a \o b \in Seq(Rows) /\ Len(a \o b) = Len(a) + Len(b)
         /\ \A i \in 1 .. Len(a) + Len(b) :
               (a \o b)[i] = IF i <= Len(a) THEN a[i] ELSE b[i - Len(a)]
    BY <1>11, <1>12, ConcatProperties
  <1>. DEFINE c == a \o b
  <1>16. c \in Seq(Rows) /\ Len(c) = x + y
    BY <1>11, <1>12, <1>15
  <1>17. \A i \in 1 .. x + y : c[i] = IF i <= x THEN a[i] ELSE b[i - x]
    BY <1>11, <1>12, <1>15
  <1>. HIDE DEF c
  <1>18. ASSUME NEW i \in 1 .. x + y PROVE g[i] = c[i]
    <2>1. CASE i <= x
      <3>1. i \in 1 .. x
        BY <1>9, <2>1
      <3>. QED BY <1>4, <1>7, <1>14, <1>17, <2>1, <3>1
    <2>2. CASE ~ i <= x
      <3>1. i - x \in 1 .. y
        BY <1>9, <2>2
      <3>2. b[i - x] = mine[t[i - x]]
        BY <1>8, <3>1
      <3>3. h[i] = t[i - x] /\ c[i] = b[i - x]
        BY <1>14, <1>17, <2>2
      <3>. QED BY <1>4, <3>2, <3>3
    <2>. QED BY <2>1, <2>2
  <1>19. g = c
    <2>1. Len(g) = Len(c) /\ \A i \in 1 .. Len(g) : g[i] = c[i]
      BY <1>13, <1>16, <1>18
    <2>. QED BY <1>13, <1>16, <2>1, SeqEqual
  <1>. QED BY <1>5, <1>6, <1>13, <1>19 DEF c
\* The forward passes are collectives: all workers take the next micro-batch.
LEMMA CallInvForward == CallInv /\ Forward => CallInv'
  <1>. SUFFICES ASSUME CallInv, Forward PROVE CallInv'
    OBVIOUS
  <1>0. CallTypeOK /\ DriverInv /\ (\A w \in Workers : WorkerInv(w)) /\ Lockstep
    BY DEF CallInv
  <1>1. /\ config' = config /\ lengths' = lengths /\ order' = order /\ output' = output
        /\ chunk' = chunk /\ count' = count /\ micros' = micros /\ at' = at /\ pc' = pc
        /\ pc = "collect" /\ \A w \in Workers : at[w] = "run" /\ ran[w] < Len(micros[w])
        /\ ran' = [w \in Workers |-> ran[w] + 1]
    BY DEF Forward, driverVars
  <1>2. Size' = Size /\ Rows' = Rows /\ Workers' = Workers /\ PerRank' = PerRank
    BY <1>1 DEF Size, Rows, Workers, PerRank
  <1>3. config \in Configs /\ ran \in [Workers -> Nat]
    BY <1>0 DEF CallTypeOK
  <1>4. PerRank \in Nat
    BY <1>3, ConfigIs
  <1>5. ASSUME NEW w \in Workers
        PROVE  /\ chunk[w] \in [1 .. PerRank -> Rows]
               /\ Covers(micros[w], Len(micros[w]), PerRank)
               /\ results[w] = FirstResults(chunk[w], micros[w], ran[w])
               /\ Len(micros[w]) \in Nat /\ ran[w] \in Nat
    <2>1. chunk[w] \in [1 .. PerRank -> Rows]
      BY <1>0, <1>1, RowsOfWorker
    <2>2. /\ Covers(micros[w], Len(micros[w]), PerRank)
          /\ results[w] = FirstResults(chunk[w], micros[w], ran[w])
      BY <1>0, <1>1 DEF WorkerInv
    <2>3. Len(micros[w]) \in Nat
      BY <1>0, LenProperties DEF CallTypeOK
    <2>. QED BY <1>3, <2>1, <2>2, <2>3
  <1>6. ASSUME NEW w \in Workers
        PROVE  /\ ran'[w] = ran[w] + 1 /\ ran'[w] \in Nat /\ ran'[w] <= Len(micros[w])
               /\ results'[w] = FirstResults(chunk[w], micros[w], ran'[w])
               /\ results'[w] \in Seq(Rows)
    <2>. DEFINE parts == micros[w]
                r == ran[w] + 1
                mine == chunk[w]
    <2>1. results'[w] = results[w] \o Gathered(mine, parts[r])
      BY DEF Forward, Gathered
    <2>2. r \in 1 .. Len(parts) /\ r - 1 = ran[w] /\ r \in Nat /\ Len(parts) \in Nat
      BY <1>1, <1>5
    <2>3. ran'[w] = r
      BY <1>1
    <2>4. /\ mine \in [1 .. PerRank -> Rows] /\ Covers(parts, Len(parts), PerRank)
          /\ results[w] = FirstResults(mine, parts, r - 1)
      BY <1>5, <2>2
    <2>. HIDE DEF parts, r, mine
    <2>5. FirstResults(mine, parts, r) = FirstResults(mine, parts, r - 1) \o Gathered(mine, parts[r])
      BY <1>4, <2>2, <2>4, OneMoreGathered
    <2>6. results'[w] = FirstResults(mine, parts, r)
      BY <2>1, <2>4, <2>5
    <2>7. FirstResults(mine, parts, r) \in Seq(Rows)
      BY <1>4, <2>2, <2>4, OneMoreGathered
    <2>8. r <= Len(parts)
      BY <2>2
    <2>. QED BY <2>2, <2>3, <2>6, <2>7, <2>8 DEF parts, r, mine
  <1>7. CallTypeOK'
    <2>1. ran' \in [Workers -> Nat]
      BY <1>1, <1>3
    <2>2. results' \in [Workers -> Seq(Rows)]
      <3>1. results' = [w \in Workers |-> results'[w]]
        BY DEF Forward
      <3>2. \A w \in Workers : results'[w] \in Seq(Rows)
        BY <1>6
      <3>. HIDE DEF Forward
      <3>. QED BY <3>1, <3>2
    <2>. QED BY <1>0, <1>1, <1>2, <2>1, <2>2 DEF CallTypeOK
  <1>8. DriverInv'
    <2>1. \A v \in Workers : ChunkOf(DpRank(v))' = ChunkOf(DpRank(v))
      BY <1>1, <1>2 DEF ChunkOf, DpRank
    <2>2. \A v \in Workers : chunk[v] = ChunkOf(DpRank(v)) /\ at[v] # "idle"
      BY <1>0, <1>1 DEF DriverInv
    <2>. QED BY <1>1, <1>2, <2>1, <2>2 DEF DriverInv
  <1>9. ASSUME NEW w \in Workers PROVE WorkerInv(w)'
    <2>1. WorkerInv(w) /\ at[w] = "run"
      BY <1>0, <1>1
    <2>2. config.dynamic => MicrosBalanced(w)'
      BY <1>1, <2>1 DEF WorkerInv, MicrosBalanced, WorkOf
    <2>3. /\ Covers(micros[w], Len(micros[w]), PerRank)
          /\ ~ config.dynamic => micros[w] = Split(PerRank, config.microSize)
      BY <2>1 DEF WorkerInv
    <2>. QED BY <1>1, <1>2, <1>6, <2>1, <2>2, <2>3 DEF WorkerInv
  <1>10. Lockstep'
    BY <1>0, <1>1, <1>2, <1>6 DEF Lockstep
  <1>. QED BY <1>2, <1>7, <1>8, <1>9, <1>10 DEF CallInv

\* A worker that has run all its micro-batches puts its results in the order of its rows.
LEMMA CallInvReturn == ASSUME NEW w \in Workers PROVE CallInv /\ Return(w) => CallInv'
  <1>. SUFFICES ASSUME CallInv, Return(w) PROVE CallInv'
    OBVIOUS
  <1>0. CallTypeOK /\ DriverInv /\ (\A v \in Workers : WorkerInv(v)) /\ Lockstep
    BY DEF CallInv
  <1>1. /\ config' = config /\ lengths' = lengths /\ order' = order /\ output' = output
        /\ chunk' = chunk /\ count' = count /\ micros' = micros /\ ran' = ran /\ pc' = pc
        /\ at[w] = "run" /\ ran[w] = Len(micros[w])
        /\ at' = [at EXCEPT ![w] = "returned"]
    BY DEF Return, driverVars
  <1>2. Size' = Size /\ Rows' = Rows /\ Workers' = Workers /\ PerRank' = PerRank
    BY <1>1 DEF Size, Rows, Workers, PerRank
  <1>3. config \in Configs /\ pc \in {"collect", "done"} /\ pc # "done"
    <2>1. ForAll("idle")[w] = "idle"
      BY DEF ForAll
    <2>. QED BY <1>0, <1>1, <2>1 DEF CallTypeOK, DriverInv
  <1>4. PerRank \in Nat \ {0} /\ PerRank \in Nat /\ config.microSize \in Nat \ {0}
    BY <1>3, ConfigIs
  <1>. DEFINE parts == micros[w]
              mine == chunk[w]
              idx == FlattenSeq(parts)
  <1>5. /\ mine \in [1 .. PerRank -> Rows] /\ mine \in Seq(Rows)
    BY <1>0, <1>3, RowsOfWorker
  <1>6. /\ Covers(parts, Len(parts), PerRank) /\ Len(parts) \in Nat
        /\ ~ config.dynamic => parts = Split(PerRank, config.microSize)
        /\ results[w] = FirstResults(mine, parts, Len(parts))
    <2>1. WorkerInv(w)
      BY <1>0
    <2>2. Len(micros[w]) \in Nat
      BY <1>0, LenProperties DEF CallTypeOK
    <2>. QED BY <1>1, <2>1, <2>2 DEF WorkerInv
  <1>7. /\ at \in [Workers -> {"idle", "prepare", "reduce", "run", "returned"}]
        /\ results \in [Workers -> Seq(Rows)]
    BY <1>0 DEF CallTypeOK
  <1>. HIDE DEF parts, mine
  <1>8. IsPermutation(idx, PerRank) /\ Len(idx) = PerRank
    <2>1. IsPermutation(idx, PerRank)
      BY <1>6 DEF Covers
    <2>. QED BY <1>4, <2>1, PermutationLists
  <1>9. results[w] = [i \in 1 .. PerRank |-> mine[idx[i]]]
    <2>1. parts \in [1 .. Len(parts) -> Seq(1 .. PerRank)]
      BY <1>6 DEF Covers
    <2>2. FlattenSeq(SubSeq(parts, 1, Len(parts))) = idx
      BY <1>6, <2>1, FlattenMore
    <2>. HIDE DEF idx
    <2>. QED BY <1>6, <1>8, <2>2 DEF FirstResults, Gathered
  <1>10. results'[w] = mine /\ \A v \in Workers : v # w => results'[v] = results[v]
    <2>1. CASE config.dynamic
      <3>1. results' = [results EXCEPT ![w] = Restored(results[w], idx)]
        BY <2>1 DEF Return, parts
      <3>. HIDE DEF idx
      <3>2. Restored([i \in 1 .. PerRank |-> mine[idx[i]]], idx) = mine
        BY <1>4, <1>5, <1>8, RestoreUndoesGather
      <3>3. Restored(results[w], idx) = mine
        BY <1>9, <3>2
      <3>. QED BY <1>7, <3>1, <3>3
    <2>2. CASE ~ config.dynamic
      <3>1. results' = results
        BY <2>2 DEF Return
      <3>2. idx = [i \in 1 .. PerRank |-> i]
        BY <1>4, <1>6, <2>2, SplitCovers
      <3>. HIDE DEF idx
      <3>3. \A i \in 1 .. PerRank : mine[idx[i]] = mine[i]
        BY <3>2
      <3>4. results[w] = mine
        BY <1>5, <1>9, <3>3
      <3>. QED BY <3>1, <3>4
    <2>. QED BY <2>1, <2>2
  <1>11. at'[w] = "returned" /\ \A v \in Workers : v # w => at'[v] = at[v]
    BY <1>1, <1>7
  <1>12. CallTypeOK'
    <2>1. at' \in [Workers -> {"idle", "prepare", "reduce", "run", "returned"}]
      BY <1>1, <1>7
    <2>2. results' \in [Workers -> Seq(Rows)]
      <3>1. results' = [v \in Workers |-> results'[v]]
        BY <1>7 DEF Return
      <3>2. \A v \in Workers : results'[v] \in Seq(Rows)
        BY <1>5, <1>7, <1>10
      <3>. QED BY <3>1, <3>2
    <2>. QED BY <1>0, <1>1, <1>2, <2>1, <2>2 DEF CallTypeOK
  <1>13. DriverInv'
    <2>1. \A v \in Workers : ChunkOf(DpRank(v))' = ChunkOf(DpRank(v))
      BY <1>1, <1>2 DEF ChunkOf, DpRank
    <2>2. \A v \in Workers : chunk[v] = ChunkOf(DpRank(v)) /\ at'[v] # "idle"
      BY <1>0, <1>3, <1>11 DEF DriverInv
    <2>3. pc' \notin {"balance", "dispatch", "done", "failed"}
      BY <1>1, <1>3
    <2>. QED BY <1>1, <1>2, <2>1, <2>2, <2>3 DEF DriverInv
  <1>14. ASSUME NEW v \in Workers PROVE WorkerInv(v)'
    <2>1. CASE v = w
      <3>1. /\ Covers(micros[w], Len(micros[w]), PerRank)
            /\ ~ config.dynamic => micros[w] = Split(PerRank, config.microSize)
            /\ results'[w] = chunk[w]
        BY <1>6, <1>10 DEF parts, mine
      <3>. QED BY <1>1, <1>2, <1>11, <2>1, <3>1 DEF WorkerInv
    <2>2. CASE v # w
      <3>1. at'[v] = at[v] /\ results'[v] = results[v]
        BY <1>10, <1>11, <2>2
      <3>2. WorkerInv(v)
        BY <1>0
      <3>. QED BY <1>1, <1>2, <3>1, <3>2 DEF WorkerInv, MicrosBalanced, WorkOf
    <2>. QED BY <2>1, <2>2
  <1>15. Lockstep'
    <2>1. \A v \in Workers : at'[v] \in {"run", "returned"} => at[v] \in {"run", "returned"}
      BY <1>1, <1>11
    <2>. QED BY <1>0, <1>1, <1>2, <2>1 DEF Lockstep
  <1>. QED BY <1>2, <1>12, <1>13, <1>14, <1>15 DEF CallInv
LEMMA CallInvStep == CallInv /\ [Next]_vars => CallInv'
  <1>. SUFFICES ASSUME CallInv, [Next]_vars PROVE CallInv'
    OBVIOUS
  <1>1. CASE Balance
    BY <1>1, CallInvBalance
  <1>2. CASE Dispatch
    BY <1>2, CallInvDispatch
  <1>3. CASE Collect
    BY <1>3, CallInvCollect
  <1>4. CASE Agree
    BY <1>4, CallInvAgree
  <1>5. CASE Forward
    BY <1>5, CallInvForward
  <1>6. ASSUME NEW w \in Workers, Prepare(w) PROVE CallInv'
    BY <1>6, CallInvPrepare
  <1>7. ASSUME NEW w \in Workers, Return(w) PROVE CallInv'
    BY <1>7, CallInvReturn
  <1>8. CASE UNCHANGED vars
    <2>1. /\ config' = config /\ lengths' = lengths /\ order' = order /\ output' = output
          /\ at' = at /\ chunk' = chunk /\ count' = count /\ micros' = micros /\ pc' = pc
          /\ ran' = ran /\ results' = results
      BY <1>8 DEF vars, driverVars, workerVars
    <2>2. Size' = Size /\ Rows' = Rows /\ Workers' = Workers /\ PerRank' = PerRank
      BY <2>1 DEF Size, Rows, Workers, PerRank
    <2>3. CallTypeOK'
      BY <2>1, <2>2 DEF CallInv, CallTypeOK
    <2>4. DriverInv'
      <3>1. \A v \in Workers : ChunkOf(DpRank(v))' = ChunkOf(DpRank(v))
        BY <2>1, <2>2 DEF ChunkOf, DpRank
      <3>2. RanksBalanced' = RanksBalanced
        BY <2>1, <2>2 DEF RanksBalanced, RankWork, NeighbourSpread, Work, ChunkOf
      <3>5. GroupsStayTogether' = GroupsStayTogether
        BY <2>1, <2>2 DEF GroupsStayTogether, RowsOfGroup, ChunkOf
      <3>3. ForAll("idle")' = ForAll("idle") /\ ForAll(0)' = ForAll(0)
            /\ ForAll(<<>>)' = ForAll(<<>>)
        BY <2>2 DEF ForAll
      <3>4. DriverInv
        BY DEF CallInv
      <3>. QED BY <2>1, <2>2, <3>1, <3>2, <3>3, <3>4, <3>5 DEF DriverInv
    <2>5. \A w \in Workers : WorkerInv(w)'
      BY <2>1, <2>2 DEF CallInv, WorkerInv, MicrosBalanced, WorkOf
    <2>6. Lockstep'
      BY <2>1, <2>2 DEF CallInv, Lockstep
    <2>. QED BY <2>2, <2>3, <2>4, <2>5, <2>6 DEF CallInv
  <1>. QED BY <1>1, <1>2, <1>3, <1>4, <1>5, <1>6, <1>7, <1>8 DEF Next, Proceed, Terminated

LEMMA CallInvariant == Spec => []CallInv
  BY CallInvInit, CallInvStep, PTL DEF Spec

\* The call returns a result for every row, computed from this row and in the order of
\* the batch, however the batch was balanced and the rows of a rank divided.
THEOREM EveryRowReturned == Spec => []RowsReturned
  <1>1. CallInv => RowsReturned
    <2>. SUFFICES ASSUME CallInv PROVE RowsReturned
      OBVIOUS
    <2>1. ToSet(order) = Rows
      <3>1. config \in Configs /\ IsPermutation(order, Size)
        BY DEF CallInv, CallTypeOK
      <3>2. Size \in Nat
        BY <3>1, ConfigIs
      <3>. QED BY <3>1, <3>2, PermutationLists, ElementsOf DEF Rows
    <2>2. pc = "done" => output = order
      BY DEF CallInv, DriverInv
    <2>. QED BY <2>1, <2>2 DEF RowsReturned
  <1>. QED BY <1>1, CallInvariant, PTL

\* The workloads of two ranks differ by no more than those of as many neighbours in the
\* sorted batch as there are ranks, those of two micro-batches of a rank by no more
\* than its largest row; with the prefix grouper the responses of a prompt go to one
\* rank.
THEOREM WorkIsBalanced == Spec => []WorkBalanced
  <1>1. CallInv => WorkBalanced
    BY DEF CallInv, DriverInv, WorkerInv, WorkBalanced
  <1>. QED BY <1>1, CallInvariant, PTL

\* No worker waits in a forward pass for one that has none left, and what the driver
\* and the workers assert of their partitions holds.
THEOREM NoWorkerIsStuck == Spec => []NeverStuck
  <1>1. CallInv => NeverStuck
    <2>. SUFFICES ASSUME CallInv PROVE NeverStuck
      OBVIOUS
    <2>0. CallTypeOK /\ DriverInv /\ (\A w \in Workers : WorkerInv(w)) /\ Lockstep
      BY DEF CallInv
    <2>1. pc # "failed"
      BY <2>0 DEF DriverInv
    <2>2. ASSUME NEW v \in Workers, NEW w \in Workers, InForward(v)
          PROVE  InForward(w) \/ at[w] \in {"prepare", "reduce"}
      <3>1. at[v] = "run" /\ ran[v] < Len(micros[v])
        BY <2>2 DEF InForward
      <3>2. at[w] # "idle"
        <4>1. pc \notin {"balance", "dispatch"}
          <5>1. ForAll("idle")[v] = "idle"
            BY DEF ForAll
          <5>. QED BY <2>0, <3>1, <5>1 DEF DriverInv
        <4>2. pc \in {"collect", "done"}
          BY <2>0, <2>1, <4>1 DEF CallTypeOK
        <4>. QED BY <2>0, <4>2 DEF DriverInv
      <3>3. at[w] \in {"idle", "prepare", "reduce", "run", "returned"}
        BY <2>0 DEF CallTypeOK
      <3>4. ran[v] = ran[w]
        BY <2>0 DEF Lockstep
      <3>5. at[w] \in {"run", "returned"} => Len(micros[v]) = Len(micros[w])
        BY <2>0, <3>1 DEF Lockstep
      <3>6. at[w] # "returned"
        <4>1. at[w] = "returned" => ran[w] = Len(micros[w])
          BY <2>0 DEF WorkerInv
        <4>2. ran[v] \in Nat
          BY <2>0 DEF CallTypeOK
        <4>. QED BY <3>1, <3>4, <3>5, <4>1, <4>2
      <3>. QED BY <3>1, <3>2, <3>3, <3>4, <3>5, <3>6 DEF InForward
    <2>. QED BY <2>1, <2>2 DEF NeverStuck
  <1>. QED BY <1>1, CallInvariant, PTL

-----------------------------------------------------------------------------
-----------------------------------------------------------------------------
(***************************************************************************)
(* The teacher of self-distillation.                                       *)
(***************************************************************************)
\* What a step of a multiple of m is, and is not, a multiple of.
LEMMA NextMultiple ==
    ASSUME NEW m \in Nat \ {0}, NEW a \in Nat, NEW b \in Nat,
           a % m = 0, b - a = m
    PROVE  b % m = 0
  <1>1. a = m * (a \div m)
    OBVIOUS
  <1>2. b = m * (a \div m + 1) /\ a \div m + 1 \in Nat
    BY <1>1
  <1>. QED BY <1>2

RefTypeOK ==
    /\ options \in UpdateConfigs
    /\ step \in Nat /\ student \in Nat /\ versions \in Nat
    /\ saved \in [step : Nat, student : Nat]
    /\ ends \in Seq([step : Nat, student : Nat])
    /\ ref \in Seq(Nat)
    /\ restarts \in Nat

\* All micro-batches of a step had one teacher, which is still the one until the
\* step ends.
OneTeacher ==
    options.teacher \notin {"current", "trust-region"} =>
        /\ \E x : taught \subseteq {x}
        /\ stage \in {"mini", "micro", "teacher"} => taught \subseteq Teacher

\* The averaged teacher replaced itself at a multiple of the interval, and no
\* multiple has passed since.
RefInv ==
    /\ Len(ends) <= step - 1
    /\ options.teacher = "ema" =>
          ref = <<0>> \o [k \in 1 .. Len(ends) |-> ends[k].student]
    /\ (options.teacher = "progressive" /\ NoneDropped) =>
          \/ step <= options.interval
          \/ \E k \in 1 .. Len(ends) : /\ ref = <<ends[k].student>>
                                       /\ ends[k].step % options.interval = 0
                                       /\ step - ends[k].step <= options.interval
    /\ ~ Averaged => ref = <<0>>

TeacherInv == RefTypeOK /\ OneTeacher /\ RefInv

LEMMA AtMostOne ==
    ASSUME NEW S, NEW x, S \subseteq {x}
    PROVE  Cardinality(S) <= 1
  <1>1. S = {} \/ S = {x}
    OBVIOUS
  <1>2. Cardinality({}) = 0 /\ Cardinality({x}) = 1
    BY FS_EmptySet, FS_Singleton
  <1>. QED BY <1>1, <1>2

LEMMA TeacherInvInit == UpdateInit => TeacherInv
  <1>. SUFFICES ASSUME UpdateInit PROVE TeacherInv
    OBVIOUS
  <1>. USE UpdateAssumption DEF UpdateInit
  <1>1. RefTypeOK
    BY DEF RefTypeOK
  <1>2. OneTeacher
    BY DEF OneTeacher
  <1>3. Len(ends) = 0 /\ [k \in 1 .. Len(ends) |-> ends[k].student] = <<>>
    OBVIOUS
  <1>4. <<0>> \o <<>> = <<0>>
    OBVIOUS
  <1>5. options.interval \in Nat \ {0}
    OBVIOUS
  <1>6. RefInv
    BY <1>3, <1>4, <1>5 DEF RefInv
  <1>. QED BY <1>1, <1>2, <1>6 DEF TeacherInv

\* The end of an update: both the reference weights and the list of the steps
\* that changed the student grow, or neither does.
LEMMA TeacherInvEnd == TeacherInv /\ EndUpdate => TeacherInv'
  <1>. SUFFICES ASSUME TeacherInv, EndUpdate PROVE TeacherInv'
    OBVIOUS
  <1>. USE UpdateAssumption
  <1>0. /\ options' = options /\ step' = step + 1 /\ stage' = "wait"
        /\ student' = student /\ versions' = versions /\ saved' = saved
        /\ taught' = taught /\ restarts' = restarts
    BY DEF EndUpdate, weightVars
  <1>1. RefTypeOK /\ options.interval \in Nat \ {0}
    BY DEF TeacherInv, RefTypeOK
  <1>2. CASE ~ updated
    <2>1. ref' = ref /\ ends' = ends
      BY <1>2 DEF EndUpdate
    <2>2. RefTypeOK'
      BY <1>0, <1>1, <2>1 DEF RefTypeOK
    <2>3. OneTeacher'
      BY <1>0, <2>1 DEF TeacherInv, OneTeacher, Teacher, Averaged
    <2>4. Len(ends) <= step - 1 /\ Len(ends) \in Nat /\ step \in Nat
      BY <1>1 DEF TeacherInv, RefInv, RefTypeOK
    <2>5. ~ NoneDropped'
      BY <1>0, <2>1, <2>4 DEF NoneDropped
    <2>6. RefInv'
      <3>1. Len(ends') <= step' - 1
        BY <1>0, <2>1, <2>4
      <3>. QED BY <1>0, <2>1, <2>5, <3>1 DEF TeacherInv, RefInv, Averaged
    <2>. QED BY <2>2, <2>3, <2>6 DEF TeacherInv
  <1>3. CASE updated
    <2>. DEFINE e == [step |-> step, student |-> student]
    <2>1. ends' = Append(ends, e) /\ ref' = UpdatedTeacher
      BY <1>3 DEF EndUpdate
    <2>2. /\ e \in [step : Nat, student : Nat] /\ e.step = step /\ e.student = student
          /\ step \in Nat /\ student \in Nat /\ ref \in Seq(Nat)
          /\ ends \in Seq([step : Nat, student : Nat]) /\ restarts \in Nat
      BY <1>1 DEF RefTypeOK
    <2>. HIDE DEF e
    <2>3. /\ ends' \in Seq([step : Nat, student : Nat])
          /\ Len(ends') = Len(ends) + 1 /\ Len(ends) \in Nat
          /\ \A k \in 1 .. Len(ends) : ends'[k] = ends[k]
          /\ ends'[Len(ends) + 1] = e
      BY <2>1, <2>2
    <2>4. ref' = CASE options.teacher = "ema" -> Append(ref, student)
                   [] options.teacher = "progressive" /\ step % options.interval = 0
                        -> <<student>>
                   [] OTHER -> ref
      BY <2>1 DEF UpdatedTeacher
    <2>5. ref' \in Seq(Nat)
      BY <2>2, <2>4
    <2>6. RefTypeOK'
      BY <1>0, <1>1, <2>3, <2>5 DEF RefTypeOK
    <2>7. OneTeacher'
      BY <1>0 DEF TeacherInv, OneTeacher, Teacher, Averaged
    <2>8. RefInv'
      <3>1. Len(ends) <= step - 1
        BY DEF TeacherInv, RefInv
      <3>2. Len(ends') <= step' - 1
        BY <1>0, <2>2, <2>3, <3>1
      <3>3. ASSUME options.teacher = "ema"
            PROVE  ref' = <<0>> \o [k \in 1 .. Len(ends') |-> ends'[k].student]
        <4>. DEFINE seen == [k \in 1 .. Len(ends) |-> ends[k].student]
                    seenNow == [k \in 1 .. Len(ends') |-> ends'[k].student]
        <4>1. ref = <<0>> \o seen
          BY <3>3 DEF TeacherInv, RefInv
        <4>2. ref' = Append(ref, student)
          BY <2>4, <3>3
        <4>3. \A k \in 1 .. Len(ends) : ends[k].student \in Nat
          <5>. SUFFICES ASSUME NEW k \in 1 .. Len(ends) PROVE ends[k].student \in Nat
            OBVIOUS
          <5>1. ends[k] \in [step : Nat, student : Nat]
            BY <2>2, ElementOfSeq
          <5>. QED BY <5>1
        <4>4. seen \in Seq(Nat) /\ Len(seen) = Len(ends)
          BY <2>3, <4>3
        <4>5. \A k \in 1 .. Len(ends) : ends'[k].student = ends[k].student
          BY <2>3
        <4>6. ends'[Len(ends) + 1].student = student
          BY <2>2, <2>3
        <4>7. Append(seen, student) = [k \in 1 .. Len(seen) + 1 |->
                                         IF k = Len(seen) + 1 THEN student ELSE seen[k]]
          BY <4>4
        <4>8. seenNow = Append(seen, student)
          <5>1. \A k \in 1 .. Len(ends) + 1 :
                   ends'[k].student =
                      IF k = Len(ends) + 1 THEN student ELSE seen[k]
            BY <2>3, <4>5, <4>6
          <5>2. seenNow = [k \in 1 .. Len(ends) + 1 |-> ends'[k].student]
            BY <2>3
          <5>3. seenNow = [k \in 1 .. Len(ends) + 1 |->
                             IF k = Len(ends) + 1 THEN student ELSE seen[k]]
            BY <5>1, <5>2
          <5>4. Append(seen, student) = [k \in 1 .. Len(ends) + 1 |->
                                           IF k = Len(ends) + 1 THEN student ELSE seen[k]]
            <6>. HIDE DEF seen
            <6>. QED BY <4>4, <4>7
          <5>. QED BY <5>3, <5>4
        <4>9. <<0>> \in Seq(Nat)
          OBVIOUS
        <4>. HIDE DEF seen, seenNow
        <4>10. <<0>> \o Append(seen, student) = Append(<<0>> \o seen, student)
          <5>1. Append(seen, student) = seen \o <<student>> /\ <<student>> \in Seq(Nat)
            BY <2>2, <4>4, AppendIsConcat
          <5>2. <<0>> \o seen \in Seq(Nat)
            BY <4>4, <4>9, ConcatProperties
          <5>3. Append(<<0>> \o seen, student) = (<<0>> \o seen) \o <<student>>
            BY <2>2, <5>2, AppendIsConcat
          <5>. QED BY <4>4, <4>9, <5>1, <5>3, ConcatAssociative
        <4>. QED BY <4>1, <4>2, <4>8, <4>10 DEF seenNow
      <3>4. ASSUME options.teacher = "progressive", NoneDropped'
            PROVE  \/ step' <= options.interval
                   \/ \E k \in 1 .. Len(ends') :
                         /\ ref' = <<ends'[k].student>>
                         /\ ends'[k].step % options.interval = 0
                         /\ step' - ends'[k].step <= options.interval
        <4>1. CASE step % options.interval = 0
          <5>1. ref' = <<student>>
            BY <2>4, <3>4, <4>1
          <5>2. Len(ends) + 1 \in 1 .. Len(ends')
            BY <2>3
          <5>3. /\ ends'[Len(ends) + 1].student = student
                /\ ends'[Len(ends) + 1].step = step
            BY <2>2, <2>3
          <5>4. step' - step <= options.interval
            BY <1>0, <1>1, <2>2
          <5>. QED BY <4>1, <5>1, <5>2, <5>3, <5>4
        <4>2. CASE step % options.interval # 0
          <5>1. ref' = ref
            BY <2>4, <3>4, <4>2
          <5>2. NoneDropped
            BY <1>0, <2>2, <2>3, <3>4 DEF NoneDropped
          <5>3. \/ step <= options.interval
                \/ \E k \in 1 .. Len(ends) : /\ ref = <<ends[k].student>>
                                             /\ ends[k].step % options.interval = 0
                                             /\ step - ends[k].step <= options.interval
            BY <3>4, <5>2 DEF TeacherInv, RefInv
          <5>4. CASE step <= options.interval
            <6>1. step # options.interval
              BY <1>1, <4>2
            <6>. QED BY <1>0, <1>1, <2>2, <5>4, <6>1
          <5>5. ASSUME NEW k \in 1 .. Len(ends),
                       ref = <<ends[k].student>>,
                       ends[k].step % options.interval = 0,
                       step - ends[k].step <= options.interval
                PROVE  \E l \in 1 .. Len(ends') :
                         /\ ref' = <<ends'[l].student>>
                         /\ ends'[l].step % options.interval = 0
                         /\ step' - ends'[l].step <= options.interval
            <6>1. ends[k].step \in Nat
              <7>1. ends[k] \in [step : Nat, student : Nat]
                BY <2>2, ElementOfSeq
              <7>. QED BY <7>1
            <6>2. step - ends[k].step # options.interval
              BY <1>1, <2>2, <4>2, <5>5, <6>1, NextMultiple
            <6>3. step' - ends[k].step <= options.interval
              <7>1. step - ends[k].step <= options.interval
                BY <5>5
              <7>2. step \in Nat /\ options.interval \in Nat /\ step' = step + 1
                BY <1>0, <1>1, <2>2
              <7>. QED BY <6>1, <6>2, <7>1, <7>2
            <6>4. k \in 1 .. Len(ends') /\ ends'[k] = ends[k]
              <7>1. k \in 1 .. Len(ends)
                OBVIOUS
              <7>. QED BY <2>3, <7>1
            <6>. QED BY <5>1, <5>5, <6>3, <6>4
          <5>. QED BY <5>3, <5>4, <5>5
        <4>. QED BY <4>1, <4>2
      <3>5. ASSUME ~ Averaged
            PROVE  ref' = <<0>>
        BY <2>4, <3>5 DEF TeacherInv, RefInv, Averaged
      <3>. QED BY <1>0, <3>2, <3>3, <3>4, <3>5 DEF RefInv, Averaged
    <2>. QED BY <2>6, <2>7, <2>8 DEF TeacherInv
  <1>. QED BY <1>2, <1>3

LEMMA TheTeacher ==
    ASSUME options \in UpdateConfigs, options.teacher \notin {"current", "trust-region"}
    PROVE  /\ \E x : Teacher \subseteq {x}
           /\ ref' = ref /\ options' = options => Teacher' = Teacher
  <1>1. options.teacher \in {"none", "fixed", "ema", "progressive"}
    BY UpdateAssumption
  <1>2. CASE options.teacher = "none"
    <2>1. Teacher = {}
      BY <1>2 DEF Teacher, Averaged
    <2>2. ASSUME options' = options PROVE Teacher' = {}
      <3>1. options'.teacher = "none"
        BY <1>2, <2>2
      <3>. QED BY <3>1 DEF Teacher, Averaged
    <2>. QED BY <2>1, <2>2
  <1>3. CASE options.teacher = "fixed"
    <2>1. Teacher = {<<"fixed">>}
      BY <1>3 DEF Teacher, Averaged
    <2>2. ASSUME options' = options PROVE Teacher' = {<<"fixed">>}
      <3>1. options'.teacher = "fixed"
        BY <1>3, <2>2
      <3>. QED BY <3>1 DEF Teacher, Averaged
    <2>. QED BY <2>1, <2>2
  <1>4. CASE Averaged
    <2>1. Teacher = {ref}
      BY <1>4 DEF Teacher, Averaged
    <2>2. ref' = ref /\ options' = options => Teacher' = {ref}
      BY <1>4 DEF Teacher, Averaged
    <2>. QED BY <2>1, <2>2
  <1>. QED BY <1>1, <1>2, <1>3, <1>4 DEF Averaged

\* The steps of an update that leave the reference weights alone.
LEMMA TeacherInvWithin ==
    ASSUME TeacherInv, options' = options, step' = step, ends' = ends, ref' = ref,
           restarts' = restarts, saved' = saved, student' \in Nat, versions' \in Nat,
           \/ taught' = {}
           \/ taught' = taught /\ stage \in {"mini", "micro", "teacher"}
           \/ taught' = taught /\ stage' \notin {"mini", "micro", "teacher"}
           \/ taught' = taught \cup Teacher /\ stage \in {"mini", "micro", "teacher"}
    PROVE  TeacherInv'
  <1>1. RefTypeOK'
    BY DEF TeacherInv, RefTypeOK
  <1>2. RefInv'
    BY DEF TeacherInv, RefInv, NoneDropped, Averaged
  <1>3. OneTeacher'
    <2>. SUFFICES ASSUME options.teacher \notin {"current", "trust-region"}
         PROVE  /\ \E x : taught' \subseteq {x}
                /\ stage' \in {"mini", "micro", "teacher"} => taught' \subseteq Teacher'
      BY DEF OneTeacher
    <2>1. /\ \E x : taught \subseteq {x}
          /\ stage \in {"mini", "micro", "teacher"} => taught \subseteq Teacher
      BY DEF TeacherInv, OneTeacher
    <2>2. (\E x : Teacher \subseteq {x}) /\ Teacher' = Teacher
      BY TheTeacher DEF TeacherInv, RefTypeOK
    <2>. HIDE DEF Teacher
    <2>3. CASE taught' = {}
      BY <2>3
    <2>4. CASE taught' = taught /\ stage \in {"mini", "micro", "teacher"}
      BY <2>1, <2>2, <2>4
    <2>5. CASE taught' = taught /\ stage' \notin {"mini", "micro", "teacher"}
      BY <2>1, <2>5
    <2>6. CASE taught' = taught \cup Teacher /\ stage \in {"mini", "micro", "teacher"}
      <3>1. taught' \subseteq Teacher
        BY <2>1, <2>6
      <3>. QED BY <2>2, <3>1
    <2>. QED BY <2>3, <2>4, <2>5, <2>6
  <1>. QED BY <1>1, <1>2, <1>3 DEF TeacherInv

LEMMA TeacherInvNext == TeacherInv /\ [UpdateNext]_updateVars => TeacherInv'
  <1>. SUFFICES ASSUME TeacherInv, [UpdateNext]_updateVars PROVE TeacherInv'
    OBVIOUS
  <1>. USE UpdateAssumption
  <1>0. student \in Nat /\ versions \in Nat /\ versions + 1 \in Nat
    BY DEF TeacherInv, RefTypeOK
  <1>1. CASE Begin
    BY <1>0, <1>1, TeacherInvWithin DEF Begin, weightVars
  <1>2. CASE BeginMini
    BY <1>0, <1>2, TeacherInvWithin DEF BeginMini, weightVars
  <1>3. CASE Micro
    BY <1>0, <1>3, TeacherInvWithin DEF Micro, weightVars
  <1>4. CASE OptimizerStep
    <2>1. student' \in Nat /\ versions' \in Nat
      BY <1>0, <1>4 DEF OptimizerStep
    <2>. QED BY <1>4, <2>1, TeacherInvWithin DEF OptimizerStep
  <1>5. CASE EndUpdate
    BY <1>5, TeacherInvEnd
  <1>6. CASE Stop
    BY <1>0, <1>6, TeacherInvWithin DEF Stop, weightVars
  <1>7. CASE Save
    <2>1. saved' \in [step : Nat, student : Nat]
      <3>1. step - 1 \in Nat
        <4>1. Len(ends) \in Nat /\ Len(ends) <= step - 1 /\ step \in Nat
          BY DEF TeacherInv, RefTypeOK, RefInv
        <4>. QED BY <4>1
      <3>. QED BY <1>0, <1>7, <3>1 DEF Save
    <2>2. RefTypeOK'
      BY <1>7, <2>1 DEF TeacherInv, RefTypeOK, Save, weightVars
    <2>3. RefInv'
      BY <1>7 DEF TeacherInv, RefInv, NoneDropped, Averaged, Save, weightVars
    <2>4. OneTeacher'
      BY <1>7 DEF TeacherInv, OneTeacher, Teacher, Averaged, Save, weightVars
    <2>. QED BY <2>2, <2>3, <2>4 DEF TeacherInv
  <1>8. CASE Restart
    <2>1. /\ options' = options /\ step' = saved.step + 1 /\ student' = saved.student
          /\ ref' = <<0>> /\ ends' = <<>> /\ saved' = saved /\ versions' = versions
          /\ restarts' = restarts + 1 /\ taught' = {} /\ stage' = "wait"
      BY <1>8 DEF Restart
    <2>2. saved.step \in Nat /\ saved.student \in Nat /\ restarts \in Nat
      BY DEF TeacherInv, RefTypeOK
    <2>3. RefTypeOK'
      BY <2>1, <2>2 DEF TeacherInv, RefTypeOK
    <2>4. Len(ends') = 0 /\ [k \in 1 .. Len(ends') |-> ends'[k].student] = <<>>
      BY <2>1
    <2>5. <<0>> = <<0>> \o <<>>
      OBVIOUS
    <2>6. ~ NoneDropped'
      BY <2>1, <2>2 DEF NoneDropped
    <2>7. RefInv'
      BY <2>1, <2>2, <2>4, <2>5, <2>6 DEF RefInv
    <2>8. OneTeacher'
      BY <2>1 DEF OneTeacher
    <2>. QED BY <2>3, <2>7, <2>8 DEF TeacherInv
  <1>9. CASE UNCHANGED updateVars
    <2>1. RefTypeOK'
      BY <1>9 DEF TeacherInv, RefTypeOK, updateVars, weightVars
    <2>2. RefInv'
      BY <1>9 DEF TeacherInv, RefInv, NoneDropped, Averaged, updateVars, weightVars
    <2>3. OneTeacher'
      BY <1>9 DEF TeacherInv, OneTeacher, Teacher, Averaged, updateVars, weightVars
    <2>. QED BY <2>1, <2>2, <2>3 DEF TeacherInv
  <1>. QED BY <1>1, <1>2, <1>3, <1>4, <1>5, <1>6, <1>7, <1>8, <1>9
           DEF UpdateNext, Finished

\* The reference weights take in the student once per step that changed it
\* (ema) or are replaced by it at every multiple of the interval (progressive);
\* no other teacher touches them, and within a step one teacher judges all
\* micro-batches.
THEOREM TheTeacherFollows == UpdateSpec => []TeacherFollows
  <1>1. TeacherInv => TeacherFollows
    <2>. SUFFICES ASSUME TeacherInv PROVE TeacherFollows
      OBVIOUS
    <2>1. options.teacher \notin {"current", "trust-region"} => Cardinality(taught) <= 1
      BY AtMostOne DEF TeacherInv, OneTeacher
    <2>2. CASE options.teacher = "ema"
      BY <2>1, <2>2 DEF TeacherInv, RefInv, TeacherFollows
    <2>3. CASE options.teacher = "progressive"
      BY <2>1, <2>3 DEF TeacherInv, RefInv, TeacherFollows
    <2>4. CASE ~ Averaged
      BY <2>1, <2>4 DEF TeacherInv, RefInv, TeacherFollows, Averaged
    <2>. QED BY <2>2, <2>3, <2>4 DEF Averaged
  <1>. QED BY <1>1, TeacherInvInit, TeacherInvNext, PTL DEF UpdateSpec

-----------------------------------------------------------------------------
(***************************************************************************)
(* The gradient of a mini-batch.                                           *)
(***************************************************************************)
\* The rows a gradient was computed from.
RowsOf(g) == [k \in 1 .. Len(g) |-> g[k].row]

\* What the micro-batches of rank r can put into its gradient.
Entries(r) == UNION {ToSet(Gradient(r, p)) : p \in ToSet(MicroBatches(r))}

\* The gradient of rank r comes from its first n micro-batches, the others are left.
MicroInv(r) ==
    \E n \in 0 .. Len(MicroBatches(r)) :
        /\ pending[r] = SubSeq(MicroBatches(r), n + 1, Len(MicroBatches(r)))
        /\ grad[r] \in Seq(Entries(r))
        /\ RowsOf(grad[r]) = FlattenSeq(SubSeq(MicroBatches(r), 1, n))

GradInv ==
    /\ options \in UpdateConfigs
    /\ pass \in [epoch : Nat, mini : Nat]
    /\ stage \in {"mini", "micro"} =>
          /\ rows \in [Ranks -> [1 .. options.rows -> options.kinds]]
          /\ pass.mini \in 1 .. Count
    /\ stage = "micro" => \A r \in Ranks : MicroInv(r)

\* As many elements as the list is long.
LEMMA SizeOfListed ==
    ASSUME NEW s, NEW T, Lists(s, T)
    PROVE  IsFiniteSet(T) /\ Cardinality(T) = Len(s)
  <1>1. Len(s) \in Nat /\ s \in [1 .. Len(s) -> T]
    BY LenProperties DEF Lists
  <1>2. s \in Bijection(1 .. Len(s), T)
    BY <1>1 DEF Lists, Bijection, Injection, Surjection, IsInjective
  <1>3. ExistsBijection(1 .. Len(s), T)
    BY <1>2 DEF ExistsBijection
  <1>. QED BY <1>1, <1>3, FS_NatBijection, FS_CountingElements

\* Of parts that together list something each lists some of it.
LEMMA PartOfListing ==
    ASSUME NEW n \in Nat, NEW S, NEW parts \in [1 .. n -> Seq(S)], NEW T,
           Lists(FlattenSeq(parts), T), NEW r \in 1 .. n
    PROVE  Lists(parts[r], ToSet(parts[r])) /\ ToSet(parts[r]) \subseteq T
  <1>1. PICK f : Concatenations(f, parts, S, n)
    BY PartialConcatenations
  <1>2. /\ f \in [0 .. n -> Seq(S)]
        /\ \A i \in 1 .. n : f[i] = f[i - 1] \o parts[i]
        /\ FlattenSeq(parts) = f[n]
    BY <1>1 DEF Concatenations
  <1>. DEFINE Good(s) == /\ \A x, y \in 1 .. Len(s) : s[x] = s[y] => x = y
                         /\ \A x \in 1 .. Len(s) : s[x] \in T
              D == {d \in 0 .. n : Good(f[n - d])}
  <1>3. Good(f[n])
    <2>1. FlattenSeq(parts) \in Seq(T)
          /\ \A x, y \in 1 .. Len(FlattenSeq(parts)) :
                FlattenSeq(parts)[x] = FlattenSeq(parts)[y] => x = y
      BY DEF Lists
    <2>2. f[n] \in Seq(T) /\ \A x, y \in 1 .. Len(f[n]) : f[n][x] = f[n][y] => x = y
      BY <1>2, <2>1
    <2>. QED BY <2>2, ElementOfSeq
  <1>4. ASSUME NEW i \in 1 .. n, Good(f[i])
        PROVE  /\ Good(f[i - 1])
               /\ \A x, y \in 1 .. Len(parts[i]) : parts[i][x] = parts[i][y] => x = y
               /\ \A x \in 1 .. Len(parts[i]) : parts[i][x] \in T
    <2>. DEFINE s == f[i - 1]
                t == parts[i]
    <2>1. i - 1 \in 0 .. n /\ i \in 0 .. n
      OBVIOUS
    <2>2. s \in Seq(S) /\ t \in Seq(S) /\ f[i] = s \o t
      BY <1>2, <2>1
    <2>3. Good(s \o t)
      BY <1>4, <2>2
    <2>. HIDE DEF s, t
    <2>4. /\ Len(s \o t) = Len(s) + Len(t)
          /\ \A x \in 1 .. Len(s) + Len(t) :
                (s \o t)[x] = IF x <= Len(s) THEN s[x] ELSE t[x - Len(s)]
      BY <2>2, ConcatProperties
    <2>5. Len(s) \in Nat /\ Len(t) \in Nat
      BY <2>2, LenProperties
    <2>6. ASSUME NEW x \in 1 .. Len(s) PROVE x \in 1 .. Len(s) + Len(t) /\ (s \o t)[x] = s[x]
      BY <2>4, <2>5
    <2>7. ASSUME NEW x \in 1 .. Len(t)
          PROVE  x + Len(s) \in 1 .. Len(s) + Len(t) /\ (s \o t)[x + Len(s)] = t[x]
      <3>1. x + Len(s) \in 1 .. Len(s) + Len(t) /\ ~ x + Len(s) <= Len(s)
            /\ x + Len(s) - Len(s) = x
        BY <2>5
      <3>. QED BY <2>4, <3>1
    <2>8. Good(s)
      BY <2>3, <2>4, <2>6
    <2>9. ASSUME NEW x \in 1 .. Len(t), NEW y \in 1 .. Len(t), t[x] = t[y] PROVE x = y
      <3>1. x + Len(s) = y + Len(s)
        BY <2>3, <2>4, <2>7, <2>9
      <3>. QED BY <2>5, <3>1
    <2>10. ASSUME NEW x \in 1 .. Len(t) PROVE t[x] \in T
      BY <2>3, <2>4, <2>7
    <2>. QED BY <2>8, <2>9, <2>10 DEF s, t
  <1>5. 0 \in D
    BY <1>3
  <1>6. ASSUME NEW d \in 0 .. n - 1, d \in D PROVE d + 1 \in D
    <2>1. n - d \in 1 .. n /\ n - d - 1 = n - (d + 1) /\ d + 1 \in 0 .. n
      OBVIOUS
    <2>2. Good(f[n - d])
      BY <1>6
    <2>. HIDE DEF Good
    <2>3. Good(f[n - d - 1])
      BY <1>4, <2>1, <2>2
    <2>. QED BY <2>1, <2>3
  <1>. HIDE DEF D
  <1>7. \A d \in 0 .. n : d \in D
    BY <1>5, <1>6, UpTo
  <1>8. n - r \in 0 .. n /\ n - (n - r) = r
    OBVIOUS
  <1>9. Good(f[r])
    BY <1>7, <1>8 DEF D
  <1>. HIDE DEF Good
  <1>10. /\ \A x, y \in 1 .. Len(parts[r]) : parts[r][x] = parts[r][y] => x = y
         /\ \A x \in 1 .. Len(parts[r]) : parts[r][x] \in T
    BY <1>4, <1>9
  <1>. DEFINE p == parts[r]
  <1>11. p \in Seq(S)
    OBVIOUS
  <1>. HIDE DEF p
  <1>12. ToSet(p) = {p[x] : x \in 1 .. Len(p)} /\ p \in [1 .. Len(p) -> S] /\ Len(p) \in Nat
    BY <1>11, LenProperties DEF ToSet
  <1>13. p \in [1 .. Len(p) -> ToSet(p)]
    BY <1>12
  <1>14. p \in Seq(ToSet(p))
    BY <1>12, <1>13, LengthOfFunction
  <1>15. Lists(p, ToSet(p))
    BY <1>10, <1>12, <1>14 DEF Lists, p
  <1>16. ToSet(p) \subseteq T
    BY <1>10, <1>12 DEF p
  <1>. QED BY <1>15, <1>16 DEF p

\* The rows of a mini-batch that begins behind row a.
Shifted(s, a) == [i \in 1 .. Len(s) |-> a + s[i]]

LEMMA ShiftedIs ==
    ASSUME NEW s \in Seq(Nat), NEW a \in Nat
    PROVE  /\ Shifted(s, a) \in Seq(Nat) /\ Len(Shifted(s, a)) = Len(s)
           /\ \A i \in 1 .. Len(s) : Shifted(s, a)[i] = a + s[i]
  <1>1. Len(s) \in Nat /\ \A i \in 1 .. Len(s) : s[i] \in Nat
    BY LenProperties, ElementOfSeq
  <1>2. \A i \in 1 .. Len(s) : a + s[i] \in Nat
    BY <1>1
  <1>3. Shifted(s, a) \in [1 .. Len(s) -> Nat]
    BY <1>2 DEF Shifted
  <1>. QED BY <1>1, <1>3, LengthOfFunction DEF Shifted

LEMMA ShiftedConcat ==
    ASSUME NEW s \in Seq(Nat), NEW t \in Seq(Nat), NEW a \in Nat
    PROVE  Shifted(s \o t, a) = Shifted(s, a) \o Shifted(t, a)
  <1>. DEFINE u == s \o t
              l == Shifted(u, a)
              v == Shifted(s, a)
              w == Shifted(t, a)
  <1>1. /\ u \in Seq(Nat) /\ Len(u) = Len(s) + Len(t)
        /\ \A i \in 1 .. Len(s) + Len(t) : u[i] = IF i <= Len(s) THEN s[i] ELSE t[i - Len(s)]
    BY ConcatProperties
  <1>. HIDE DEF u
  <1>2. /\ l \in Seq(Nat) /\ Len(l) = Len(u) /\ \A i \in 1 .. Len(u) : l[i] = a + u[i]
        /\ v \in Seq(Nat) /\ Len(v) = Len(s) /\ \A i \in 1 .. Len(s) : v[i] = a + s[i]
        /\ w \in Seq(Nat) /\ Len(w) = Len(t) /\ \A i \in 1 .. Len(t) : w[i] = a + t[i]
    BY <1>1, ShiftedIs
  <1>. HIDE DEF l, v, w
  <1>3. /\ v \o w \in Seq(Nat) /\ Len(v \o w) = Len(v) + Len(w)
        /\ \A i \in 1 .. Len(v) + Len(w) : (v \o w)[i] = IF i <= Len(v) THEN v[i] ELSE w[i - Len(v)]
    <2>1. v \in Seq(Nat) /\ w \in Seq(Nat)
      BY <1>2
    <2>. QED BY <2>1, ConcatProperties
  <1>4. Len(s) \in Nat /\ Len(t) \in Nat
    BY LenProperties
  <1>5. ASSUME NEW i \in 1 .. Len(l) PROVE l[i] = (v \o w)[i]
    <2>1. i \in 1 .. Len(s) + Len(t) /\ i \in Nat
      BY <1>1, <1>2, <1>4
    <2>2. CASE i <= Len(s)
      <3>1. i \in 1 .. Len(s)
        BY <1>4, <2>1, <2>2
      <3>2. l[i] = a + s[i] /\ (v \o w)[i] = v[i] /\ v[i] = a + s[i]
        BY <1>1, <1>2, <1>3, <2>1, <2>2, <3>1
      <3>. QED BY <3>2
    <2>3. CASE ~ i <= Len(s)
      <3>1. i - Len(s) \in 1 .. Len(t)
        BY <1>4, <2>1, <2>3
      <3>2. l[i] = a + t[i - Len(s)] /\ (v \o w)[i] = w[i - Len(s)]
            /\ w[i - Len(s)] = a + t[i - Len(s)]
        BY <1>1, <1>2, <1>3, <2>1, <2>3, <3>1
      <3>. QED BY <3>2
    <2>. QED BY <2>2, <2>3
  <1>6. Len(l) = Len(v \o w)
    BY <1>1, <1>2, <1>3
  <1>7. l = v \o w
    BY <1>2, <1>3, <1>5, <1>6, SeqEqual
  <1>. QED BY <1>7 DEF l, u, v, w

LEMMA FlattenShifted ==
    ASSUME NEW n \in Nat, NEW parts \in [1 .. n -> Seq(Nat)], NEW a \in Nat
    PROVE  /\ [m \in 1 .. n |-> Shifted(parts[m], a)] \in [1 .. n -> Seq(Nat)]
           /\ FlattenSeq([m \in 1 .. n |-> Shifted(parts[m], a)]) = Shifted(FlattenSeq(parts), a)
  <1>. DEFINE u == [m \in 1 .. n |-> Shifted(parts[m], a)]
  <1>1. u \in [1 .. n -> Seq(Nat)] /\ \A m \in 1 .. n : u[m] = Shifted(parts[m], a)
    BY ShiftedIs
  <1>. HIDE DEF u
  <1>2. PICK f : Concatenations(f, parts, Nat, n)
    BY PartialConcatenations
  <1>3. /\ f \in [0 .. n -> Seq(Nat)] /\ f[0] = <<>>
        /\ \A i \in 1 .. n : f[i] = f[i - 1] \o parts[i]
        /\ FlattenSeq(parts) = f[n]
    BY <1>2 DEF Concatenations
  <1>. DEFINE g == [i \in 0 .. n |-> Shifted(f[i], a)]
  <1>4. g \in [0 .. n -> Seq(Nat)] /\ \A i \in 0 .. n : g[i] = Shifted(f[i], a)
    BY <1>3, ShiftedIs
  <1>. HIDE DEF g
  <1>5. g[0] = <<>>
    <2>1. g[0] = Shifted(<<>>, a) /\ g[0] \in Seq(Nat)
      BY <1>3, <1>4
    <2>2. Len(g[0]) = 0
      BY <2>1, ShiftedIs, EmptySeq
    <2>. QED BY <2>1, <2>2, EmptySeq
  <1>6. ASSUME NEW i \in 1 .. n PROVE g[i] = g[i - 1] \o u[i]
    <2>1. i - 1 \in 0 .. n /\ i \in 0 .. n
      OBVIOUS
    <2>2. f[i - 1] \in Seq(Nat) /\ parts[i] \in Seq(Nat) /\ f[i] = f[i - 1] \o parts[i]
      BY <1>3, <2>1
    <2>3. g[i] = Shifted(f[i], a) /\ g[i - 1] = Shifted(f[i - 1], a) /\ u[i] = Shifted(parts[i], a)
      BY <1>1, <1>4, <2>1
    <2>. QED BY <2>2, <2>3, ShiftedConcat
  <1>7. FlattenSeq(u) = g[n]
    BY <1>1, <1>4, <1>5, <1>6, FlattenIs
  <1>8. g[n] = Shifted(FlattenSeq(parts), a)
    BY <1>3, <1>4
  <1>. QED BY <1>1, <1>7, <1>8 DEF u

LEMMA ShiftedLists ==
    ASSUME NEW n \in Nat, NEW s, Lists(s, 1 .. n), NEW a \in Nat
    PROVE  Lists(Shifted(s, a), a + 1 .. a + n)
  <1>1. /\ s \in Seq(1 .. n) /\ s \in Seq(Nat) /\ Len(s) \in Nat
        /\ \A i \in 1 .. Len(s) : s[i] \in 1 .. n
        /\ \A i, j \in 1 .. Len(s) : s[i] = s[j] => i = j
        /\ \A x \in 1 .. n : \E i \in 1 .. Len(s) : s[i] = x
    <2>1. /\ s \in Seq(1 .. n)
          /\ \A i, j \in 1 .. Len(s) : s[i] = s[j] => i = j
          /\ \A x \in 1 .. n : \E i \in 1 .. Len(s) : s[i] = x
      BY DEF Lists
    <2>2. 1 .. n \subseteq Nat
      OBVIOUS
    <2>3. s \in Seq(Nat)
      BY <2>1, <2>2, SeqMonotonic
    <2>4. Len(s) \in Nat /\ \A i \in 1 .. Len(s) : s[i] \in 1 .. n
      BY <2>1, LenProperties, ElementOfSeq
    <2>. QED BY <2>1, <2>3, <2>4
  <1>. DEFINE u == Shifted(s, a)
  <1>2. u \in Seq(Nat) /\ Len(u) = Len(s) /\ \A i \in 1 .. Len(s) : u[i] = a + s[i]
    BY <1>1, ShiftedIs
  <1>. HIDE DEF u
  <1>3. ASSUME NEW i \in 1 .. Len(s) PROVE u[i] \in a + 1 .. a + n
    <2>1. u[i] = a + s[i] /\ s[i] \in 1 .. n
      BY <1>1, <1>2
    <2>. QED BY <2>1
  <1>4. u \in [1 .. Len(s) -> a + 1 .. a + n]
    BY <1>2, <1>3, LenProperties
  <1>5. u \in Seq(a + 1 .. a + n)
    BY <1>1, <1>4, LengthOfFunction
  <1>6. ASSUME NEW i \in 1 .. Len(u), NEW j \in 1 .. Len(u), u[i] = u[j] PROVE i = j
    <2>0. i \in 1 .. Len(s) /\ j \in 1 .. Len(s)
      BY <1>2
    <2>1. s[i] \in 1 .. n /\ s[j] \in 1 .. n /\ a + s[i] = a + s[j]
      BY <1>1, <1>2, <1>6, <2>0
    <2>2. s[i] = s[j]
      BY <2>1
    <2>. QED BY <1>1, <1>2, <2>2
  <1>7. ASSUME NEW x \in a + 1 .. a + n PROVE \E i \in 1 .. Len(u) : u[i] = x
    <2>1. x - a \in 1 .. n /\ a + (x - a) = x
      OBVIOUS
    <2>2. PICK i \in 1 .. Len(s) : s[i] = x - a
      BY <1>1, <2>1
    <2>. QED BY <1>2, <2>1, <2>2
  <1>. QED BY <1>5, <1>6, <1>7 DEF Lists, u

-----------------------------------------------------------------------------
(***************************************************************************)
(* Mini-batches and micro-batches of the update.                           *)
(***************************************************************************)
MiniSize == Min({Start + options.mini, options.rows}) - Start

\* In the middle of an update.
InUpdate ==
    /\ options \in UpdateConfigs
    /\ rows \in [Ranks -> [1 .. options.rows -> options.kinds]]
    /\ pass.mini \in 1 .. Count

LEMMA OptionsAre ==
    ASSUME options \in UpdateConfigs
    PROVE  /\ options.rows \in Nat \ {0} /\ options.mini \in Nat \ {0}
           /\ options.micro \in Nat \ {0} /\ options.mini % options.micro = 0
           /\ options.maxTokens \in Nat \ {0}
           /\ options.kinds \subseteq Row
           /\ options.agg \in {"token-mean", "seq-mean-token-sum", "seq-mean-token-mean",
                               "seq-mean-token-sum-norm"}
  <1>1. /\ options.maxTokens \in Nat /\ options.maxTokens >= ResponseWidth
        /\ ResponseWidth \in Nat \ {0}
    BY UpdateAssumption
  <1>2. options.maxTokens \in Nat \ {0}
    BY <1>1
  <1>. QED BY <1>2, UpdateAssumption DEF Row

LEMMA MiniIs ==
    ASSUME InUpdate
    PROVE  /\ Start \in Nat /\ MiniSize \in Nat \ {0} /\ MiniSize <= options.mini
           /\ Start + MiniSize <= options.rows
           /\ \A r \in Ranks :
                 /\ Len(MiniBatch(r)) = MiniSize
                 /\ MiniBatch(r) \in [1 .. MiniSize -> options.kinds]
                 /\ MiniRows(r) = Start + 1 .. Start + MiniSize
  <1>. DEFINE n == options.rows
              m == options.mini
              p == pass.mini
              s == Start
              e == Min({s + m, n})
  <1>1. n \in Nat \ {0} /\ m \in Nat \ {0}
    BY OptionsAre DEF InUpdate
  <1>2. p \in 1 .. CeilDiv(n, m) /\ s = (p - 1) * m
    BY DEF InUpdate, Count, Start
  <1>3. s \in Nat /\ s < n
    <2>. DEFINE c == (n + m - 1) \div m
                d == (n + m - 1) % m
    <2>. HIDE DEF n, m, p, s
    <2>1. c \in Nat /\ d \in 0 .. m - 1 /\ n + m - 1 = c * m + d
      BY <1>1, SMTT(30)
    <2>2. p \in 1 .. c
      BY <1>2 DEF CeilDiv
    <2>. HIDE DEF c, d
    <2>3. p - 1 \in Nat /\ c - 1 \in Nat /\ p - 1 <= c - 1
      BY <2>1, <2>2
    <2>4. (p - 1) * m <= (c - 1) * m /\ (p - 1) * m \in Nat
      BY <1>1, <2>3, Times
    <2>5. (c - 1) * m = c * m - m
      BY <1>1, <2>1
    <2>6. c * m \in Nat
      BY <1>1, <2>1
    <2>. QED BY <1>1, <1>2, <2>1, <2>4, <2>5, <2>6
  <1>4. e = IF s + m <= n THEN s + m ELSE n
    <2>. HIDE DEF n, m, s
    <2>1. s + m \in Int /\ n \in Int
      BY <1>1, <1>3
    <2>. QED BY <2>1, LessOfTwo
  <1>5. MiniSize = e - s
    BY DEF MiniSize
  <1>6. Start = s
    OBVIOUS
  <1>7. MiniSize \in Nat \ {0} /\ MiniSize <= m /\ s + MiniSize <= n /\ e \in Nat /\ s <= e /\ e <= n
        /\ s + MiniSize = e
    <2>. HIDE DEF n, m, s, e
    <2>. QED BY <1>1, <1>3, <1>4, <1>5
  <1>8. ASSUME NEW r \in Ranks
        PROVE  /\ Len(MiniBatch(r)) = MiniSize
               /\ MiniBatch(r) \in [1 .. MiniSize -> options.kinds]
               /\ MiniRows(r) = Start + 1 .. Start + MiniSize
    <2>. DEFINE all == rows[r]
                K == options.kinds
                u == SubSeq(all, s + 1, e)
    <2>1. all \in [1 .. n -> K]
      BY DEF InUpdate
    <2>2. MiniBatch(r) = u
      BY DEF MiniBatch
    <2>. HIDE DEF all, K, u, n, m, s, e
    <2>3. \A i \in s + 1 .. e : all[i] \in K
      <3>. SUFFICES ASSUME NEW i \in s + 1 .. e PROVE all[i] \in K
        OBVIOUS
      <3>1. i \in 1 .. n
        BY <1>1, <1>3, <1>7
      <3>. QED BY <2>1, <3>1
    <2>4. s + 1 \in Int /\ e \in Int
      BY <1>3, <1>7
    <2>5. /\ u \in Seq(K)
          /\ Len(u) = IF s + 1 <= e THEN e - (s + 1) + 1 ELSE 0
      BY <2>3, <2>4, SubSeqProperties DEF u
    <2>6. Len(u) = MiniSize
      BY <1>3, <1>7, <2>5
    <2>7. u \in [1 .. MiniSize -> K]
      BY <2>5, <2>6, LenProperties
    <2>. QED BY <1>6, <2>2, <2>6, <2>7 DEF MiniRows, K
  <1>. HIDE DEF s, e
  <1>. QED BY <1>3, <1>6, <1>7, <1>8

\* The lengths and the work of the rows of a mini-batch.
LEMMA WorkOfMini ==
    ASSUME InUpdate, NEW r \in Ranks
    PROVE  /\ LengthsIn(r) \in [1 .. MiniSize -> Nat \ {0}]
           /\ WorkIn(r) \in [1 .. MiniSize -> Nat \ {0}]
  <1>. DEFINE mine == MiniBatch(r)
  <1>1. mine \in [1 .. MiniSize -> options.kinds] /\ options.kinds \subseteq Row
    BY MiniIs, OptionsAre DEF InUpdate
  <1>2. ResponseWidth \in Nat
    BY UpdateAssumption
  <1>3. DOMAIN mine = 1 .. MiniSize
    BY <1>1
  <1>4. LengthsIn(r) = [i \in 1 .. MiniSize |-> mine[i].len]
        /\ WorkIn(r) = [i \in 1 .. MiniSize |-> Workload(mine[i].len)]
    BY <1>3 DEF LengthsIn, WorkIn
  <1>5. ASSUME NEW i \in 1 .. MiniSize
        PROVE  mine[i].len \in Nat \ {0} /\ Workload(mine[i].len) \in Nat \ {0}
    <2>. DEFINE x == mine[i].len
    <2>1. mine[i] \in Row
      BY <1>1
    <2>2. x \in 1 .. ResponseWidth
      BY <2>1 DEF Row
    <2>3. x \in Nat \ {0}
      BY <1>2, <2>2
    <2>. HIDE DEF x
    <2>4. x * x \in Nat
      BY <2>3
    <2>5. 24576 * x + x * x \in Nat \ {0}
      BY <2>3, <2>4
    <2>. QED BY <2>3, <2>5 DEF Workload, x
  <1>. HIDE DEF mine
  <1>. QED BY <1>4, <1>5

\* The ranks agree on a number no larger than that of the rows.
LEMMA NeededIsPossible ==
    ASSUME InUpdate, NEW r \in Ranks
    PROVE  NeededByAll(r) \in 1 .. MiniSize
  <1>. DEFINE T == {MicroBatchesFor(LengthsIn(q), options.maxTokens) : q \in Ranks}
              n == MiniSize
  <1>1. n \in Nat \ {0} /\ options.maxTokens \in Nat \ {0}
    BY MiniIs, OptionsAre DEF InUpdate
  <1>2. \A q \in Ranks : LengthsIn(q) \in [1 .. n -> Nat \ {0}]
    BY WorkOfMini
  <1>. HIDE DEF n
  <1>3. \A q \in Ranks : MicroBatchesFor(LengthsIn(q), options.maxTokens) \in 1 .. n
    BY <1>1, <1>2, MicroBatchesNeeded
  <1>4. T \subseteq 1 .. n /\ T # {}
    BY <1>3
  <1>. HIDE DEF T
  <1>5. T \subseteq 0 .. n /\ n \in Nat
    BY <1>1, <1>4
  <1>6. Max(T) \in T
    BY <1>4, <1>5, GreatestElement
  <1>. QED BY <1>4, <1>6 DEF NeededByAll, T, n

\* Parts of a fixed size that divides the number of rows are all full.
LEMMA SplitIsEven ==
    ASSUME NEW n \in Nat \ {0}, NEW size \in Nat \ {0}, n % size = 0,
           NEW m \in 1 .. CeilDiv(n, size)
    PROVE  Len(Split(n, size)[m]) = size
  <1>. DEFINE q == n \div size
  <1>1. q \in Nat /\ n = q * size
    BY SMTT(30)
  <1>. DEFINE c == (n + size - 1) \div size
              d == (n + size - 1) % size
  <1>2. c \in Nat /\ d \in 0 .. size - 1 /\ n + size - 1 = c * size + d
    BY SMTT(30)
  <1>3. m \in 1 .. c
    BY DEF CeilDiv
  <1>. HIDE DEF q, c, d
  <1>4. c <= q
    <2>. SUFFICES ASSUME q + 1 <= c PROVE FALSE
      BY <1>1, <1>2
    <2>1. (q + 1) * size <= c * size /\ c * size \in Nat
      BY <1>1, <1>2, Times
    <2>2. (q + 1) * size = q * size + size
      BY <1>1
    <2>. QED BY <1>1, <1>2, <2>1, <2>2
  <1>5. m * size <= q * size /\ m * size \in Nat
    <2>1. m \in Nat /\ m <= q
      BY <1>1, <1>2, <1>3, <1>4
    <2>. QED BY <1>1, <2>1, Times
  <1>6. (m - 1) * size = m * size - size
    BY <1>3
  <1>. DEFINE a == (m - 1) * size
  <1>7. a \in Int /\ size <= n - a
    BY <1>1, <1>5, <1>6
  <1>8. Min({size, n - a}) = size
    <2>. HIDE DEF a
    <2>. QED BY <1>7, LessOfTwo
  <1>9. Split(n, size)[m] = [i \in 1 .. Min({size, n - a}) |-> a + i]
    BY DEF Split
  <1>. HIDE DEF a
  <1>10. Split(n, size)[m] = [i \in 1 .. size |-> a + i]
    BY <1>8, <1>9
  <1>11. [i \in 1 .. size |-> a + i] \in [1 .. size -> Int]
    BY <1>7
  <1>. QED BY <1>10, <1>11, LengthOfFunction

\* Micro-batches that together are the rows T of a mini-batch, each once.
MicrosOf(parts, k, T) ==
    /\ parts \in [1 .. k -> Seq(Nat)]
    /\ Lists(FlattenSeq(parts), T)
    /\ \A m \in 1 .. k : Lists(parts[m], ToSet(parts[m])) /\ ToSet(parts[m]) \subseteq T

\* A cover of n rows becomes one of the n rows behind row a.
LEMMA CoverShifted ==
    ASSUME NEW n \in Nat, NEW k \in Nat, NEW parts, Covers(parts, k, n), NEW a \in Nat
    PROVE  /\ MicrosOf([m \in 1 .. k |-> Shifted(parts[m], a)], k, a + 1 .. a + n)
           /\ \A m \in 1 .. k : Len(Shifted(parts[m], a)) = Len(parts[m])
  <1>. DEFINE u == [m \in 1 .. k |-> Shifted(parts[m], a)]
              T == a + 1 .. a + n
  <1>1. parts \in [1 .. k -> Seq(1 .. n)] /\ IsPermutation(FlattenSeq(parts), n)
    BY DEF Covers
  <1>2. parts \in [1 .. k -> Seq(Nat)]
    <2>. SUFFICES ASSUME NEW m \in 1 .. k PROVE parts[m] \in Seq(Nat)
      BY <1>1
    <2>1. parts[m] \in Seq(1 .. n) /\ 1 .. n \subseteq Nat
      BY <1>1
    <2>. QED BY <2>1, SeqMonotonic
  <1>3. Lists(FlattenSeq(parts), 1 .. n)
    BY <1>1, PermutationLists
  <1>4. u \in [1 .. k -> Seq(Nat)] /\ FlattenSeq(u) = Shifted(FlattenSeq(parts), a)
    BY <1>2, FlattenShifted
  <1>5. Lists(FlattenSeq(u), T)
    BY <1>3, <1>4, ShiftedLists
  <1>6. \A m \in 1 .. k : Len(Shifted(parts[m], a)) = Len(parts[m])
    BY <1>2, ShiftedIs
  <1>. HIDE DEF u, T
  <1>7. \A m \in 1 .. k : Lists(u[m], ToSet(u[m])) /\ ToSet(u[m]) \subseteq T
    BY <1>4, <1>5, PartOfListing
  <1>8. MicrosOf(u, k, T)
    BY <1>4, <1>5, <1>7 DEF MicrosOf
  <1>. QED BY <1>6, <1>8 DEF u, T

\* The micro-batches of a rank: every row of the mini-batch is in one, and those of
\* a fixed size are full when the mini-batch is.
LEMMA MicroBatchesAre ==
    ASSUME InUpdate, NEW r \in Ranks
    PROVE  LET k == Len(MicroBatches(r))
           IN /\ k \in Nat
              /\ MicrosOf(MicroBatches(r), k, MiniRows(r))
              /\ (~ options.dynamic /\ MiniSize = options.mini) =>
                    \A m \in 1 .. k : Len(MicroBatches(r)[m]) = options.micro
  <1>. DEFINE n == MiniSize
              work == WorkIn(r)
              needed == NeededByAll(r)
              size == options.micro
              parts == IF options.dynamic THEN RearrangedMicroBatches(work, needed)
                       ELSE Split(n, size)
              k == IF options.dynamic THEN needed ELSE CeilDiv(n, size)
              a == Start
              u == [m \in 1 .. k |-> Shifted(parts[m], a)]
  <1>1. n \in Nat \ {0} /\ a \in Nat /\ size \in Nat \ {0} /\ MiniRows(r) = a + 1 .. a + n
    BY MiniIs, OptionsAre DEF InUpdate
  <1>2. work \in [1 .. n -> Nat \ {0}] /\ Len(work) = n
    <2>1. work \in [1 .. n -> Nat \ {0}]
      BY WorkOfMini
    <2>. HIDE DEF work, n
    <2>. QED BY <1>1, <2>1, LengthOfFunction
  <1>3. needed \in 1 .. n
    BY NeededIsPossible
  <1>4. k \in Nat /\ Covers(parts, k, n)
    <2>1. CASE options.dynamic
      <3>. DEFINE D == Max(ToSet(work))
      <3>. HIDE DEF work, needed, n
      <3>1. D \in Nat /\ RowsAtMost(work, n, D)
        BY <1>1, <1>2, LargestRow
      <3>. HIDE DEF D
      <3>2. Covers(RearrangedMicroBatches(work, needed), needed, n)
        BY <1>1, <1>2, <1>3, <3>1, RearrangedDivides
      <3>. QED BY <1>1, <1>3, <2>1, <3>2
    <2>2. CASE ~ options.dynamic
      <3>. HIDE DEF n, size
      <3>1. CeilDiv(n, size) \in Nat /\ Covers(Split(n, size), CeilDiv(n, size), n)
        BY <1>1, SplitCovers
      <3>. QED BY <2>2, <3>1
    <2>. QED BY <2>1, <2>2
  <1>5. Len(parts) = k
    <2>. HIDE DEF parts, k, n
    <2>1. parts \in [1 .. k -> Seq(1 .. n)]
      BY <1>4 DEF Covers
    <2>. QED BY <1>4, <2>1, LengthOfFunction
  <1>6. MicroBatches(r) = u
    <2>1. MicroBatches(r) = [m \in 1 .. Len(parts) |->
                               [i \in 1 .. Len(parts[m]) |-> Start + parts[m][i]]]
      BY <1>2 DEF MicroBatches
    <2>. HIDE DEF parts, k
    <2>. QED BY <1>5, <2>1 DEF Shifted
  <1>. HIDE DEF a
  <1>7. MicrosOf(u, k, a + 1 .. a + n) /\ \A m \in 1 .. k : Len(Shifted(parts[m], a)) = Len(parts[m])
    <2>. HIDE DEF parts, k, n
    <2>. QED BY <1>1, <1>4, CoverShifted
  <1>8. Len(u) = k
    <2>. HIDE DEF k, parts
    <2>1. u \in [1 .. k -> Seq(Nat)]
      BY <1>7 DEF MicrosOf
    <2>. HIDE DEF u
    <2>. QED BY <1>4, <2>1, LengthOfFunction
  <1>9. ASSUME ~ options.dynamic, n = options.mini, NEW m \in 1 .. k
        PROVE  Len(u[m]) = size
    <2>1. n % size = 0
      BY <1>9, OptionsAre DEF InUpdate
    <2>2. u[m] = Shifted(parts[m], a) /\ Len(u[m]) = Len(parts[m])
      BY <1>7
    <2>3. parts = Split(n, size) /\ k = CeilDiv(n, size) /\ m \in 1 .. CeilDiv(n, size)
      BY <1>9
    <2>. HIDE DEF parts, k, n, size
    <2>4. Len(Split(n, size)[m]) = size
      BY <1>1, <2>1, <2>3, SplitIsEven
    <2>. QED BY <2>2, <2>3, <2>4
  <1>. HIDE DEF u, k
  <1>. QED BY <1>1, <1>4, <1>6, <1>7, <1>8, <1>9

-----------------------------------------------------------------------------
(***************************************************************************)
(* What a gradient is made from.                                           *)
(***************************************************************************)
LEMMA GradientIs ==
    ASSUME NEW r, NEW p \in Seq(Nat)
    PROVE  /\ Gradient(r, p) \in Seq(ToSet(Gradient(r, p)))
           /\ Len(Gradient(r, p)) = Len(p)
           /\ \A i \in 1 .. Len(p) : Gradient(r, p)[i].row = p[i]
           /\ RowsOf(Gradient(r, p)) = p
  <1>. DEFINE g == Gradient(r, p)
              l == Len(p)
  <1>1. l \in Nat /\ p \in [1 .. l -> Nat]
    BY LenProperties
  <1>2. DOMAIN g = 1 .. l /\ g = [i \in 1 .. l |-> g[i]] /\ \A i \in 1 .. l : g[i].row = p[i]
    BY DEF Gradient
  <1>. HIDE DEF g, l
  <1>3. g \in [1 .. l -> ToSet(g)]
    BY <1>2 DEF ToSet
  <1>4. g \in Seq(ToSet(g)) /\ Len(g) = l
    BY <1>1, <1>3, LengthOfFunction
  <1>5. RowsOf(g) = [i \in 1 .. l |-> p[i]]
    BY <1>2, <1>4 DEF RowsOf
  <1>6. RowsOf(g) = p
    BY <1>1, <1>5
  <1>. QED BY <1>2, <1>4, <1>6 DEF g, l

LEMMA RowsOfIs ==
    ASSUME NEW X, \A e \in X : e.row \in Nat, NEW g \in Seq(X)
    PROVE  /\ RowsOf(g) \in Seq(Nat) /\ Len(RowsOf(g)) = Len(g)
           /\ \A i \in 1 .. Len(g) : RowsOf(g)[i] = g[i].row
  <1>1. Len(g) \in Nat /\ \A i \in 1 .. Len(g) : g[i] \in X
    BY LenProperties, ElementOfSeq
  <1>2. RowsOf(g) \in [1 .. Len(g) -> Nat]
    BY <1>1 DEF RowsOf
  <1>. QED BY <1>1, <1>2, LengthOfFunction DEF RowsOf

\* The gradient of one more micro-batch is of its rows too.
LEMMA RowsOfMore ==
    ASSUME NEW X, \A e \in X : e.row \in Nat, NEW g \in Seq(X), NEW h \in Seq(X)
    PROVE  RowsOf(g \o h) = RowsOf(g) \o RowsOf(h)
  <1>. DEFINE u == g \o h
              l == RowsOf(u)
              v == RowsOf(g)
              w == RowsOf(h)
  <1>1. /\ u \in Seq(X) /\ Len(u) = Len(g) + Len(h)
        /\ \A i \in 1 .. Len(g) + Len(h) : u[i] = IF i <= Len(g) THEN g[i] ELSE h[i - Len(g)]
    BY ConcatProperties
  <1>. HIDE DEF u
  <1>2. /\ l \in Seq(Nat) /\ Len(l) = Len(u) /\ \A i \in 1 .. Len(u) : l[i] = u[i].row
        /\ v \in Seq(Nat) /\ Len(v) = Len(g) /\ \A i \in 1 .. Len(g) : v[i] = g[i].row
        /\ w \in Seq(Nat) /\ Len(w) = Len(h) /\ \A i \in 1 .. Len(h) : w[i] = h[i].row
    BY <1>1, RowsOfIs
  <1>. HIDE DEF l, v, w
  <1>3. /\ v \o w \in Seq(Nat) /\ Len(v \o w) = Len(v) + Len(w)
        /\ \A i \in 1 .. Len(v) + Len(w) : (v \o w)[i] = IF i <= Len(v) THEN v[i] ELSE w[i - Len(v)]
    <2>1. v \in Seq(Nat) /\ w \in Seq(Nat)
      BY <1>2
    <2>. QED BY <2>1, ConcatProperties
  <1>4. Len(g) \in Nat /\ Len(h) \in Nat
    BY LenProperties
  <1>5. ASSUME NEW i \in 1 .. Len(l) PROVE l[i] = (v \o w)[i]
    <2>1. i \in 1 .. Len(g) + Len(h) /\ i \in Nat
      BY <1>1, <1>2, <1>4
    <2>2. CASE i <= Len(g)
      <3>1. i \in 1 .. Len(g)
        BY <1>4, <2>1, <2>2
      <3>2. l[i] = g[i].row /\ (v \o w)[i] = v[i] /\ v[i] = g[i].row
        BY <1>1, <1>2, <1>3, <2>1, <2>2, <3>1
      <3>. QED BY <3>2
    <2>3. CASE ~ i <= Len(g)
      <3>1. i - Len(g) \in 1 .. Len(h)
        BY <1>4, <2>1, <2>3
      <3>2. l[i] = h[i - Len(g)].row /\ (v \o w)[i] = w[i - Len(g)]
            /\ w[i - Len(g)] = h[i - Len(g)].row
        BY <1>1, <1>2, <1>3, <2>1, <2>3, <3>1
      <3>. QED BY <3>2
    <2>. QED BY <2>2, <2>3
  <1>6. Len(l) = Len(v \o w)
    BY <1>1, <1>2, <1>3
  <1>7. l = v \o w
    BY <1>2, <1>3, <1>5, <1>6, SeqEqual
  <1>. QED BY <1>7 DEF l, u, v, w

LEMMA EntriesHaveRows ==
    ASSUME InUpdate, NEW r \in Ranks
    PROVE  \A e \in Entries(r) : e.row \in Nat
  <1>. SUFFICES ASSUME NEW e \in Entries(r) PROVE e.row \in Nat
    OBVIOUS
  <1>. DEFINE k == Len(MicroBatches(r))
  <1>1. k \in Nat /\ MicroBatches(r) \in [1 .. k -> Seq(Nat)]
    BY MicroBatchesAre DEF MicrosOf
  <1>2. PICK p \in ToSet(MicroBatches(r)) : e \in ToSet(Gradient(r, p))
    BY DEF Entries
  <1>. HIDE DEF k
  <1>3. p \in Seq(Nat)
    BY <1>1, <1>2 DEF ToSet
  <1>4. Gradient(r, p) \in Seq(ToSet(Gradient(r, p))) /\ Len(Gradient(r, p)) = Len(p)
        /\ \A i \in 1 .. Len(p) : Gradient(r, p)[i].row = p[i]
    BY <1>3, GradientIs
  <1>5. DOMAIN Gradient(r, p) = 1 .. Len(p)
    BY <1>4, LenProperties
  <1>6. PICK i \in 1 .. Len(p) : e = Gradient(r, p)[i]
    BY <1>2, <1>5 DEF ToSet
  <1>7. p[i] \in Nat
    BY <1>3, ElementOfSeq
  <1>. QED BY <1>4, <1>6, <1>7

\* While the rows and the mini-batch stay the same, so do its micro-batches.
LEMMA SameMicroBatches ==
    ASSUME options' = options, rows' = rows, pass' = pass, NEW r \in Ranks
    PROVE  MicroBatches(r)' = MicroBatches(r) /\ Entries(r)' = Entries(r)
  <1>1. Start' = Start /\ MiniBatch(r)' = MiniBatch(r)
    BY DEF Start, MiniBatch
  <1>2. WorkIn(r)' = WorkIn(r)
    BY <1>1 DEF WorkIn
  <1>3. NeededByAll(r)' = NeededByAll(r)
    BY DEF NeededByAll, LengthsIn, MiniBatch, Start
  <1>4. MicroBatches(r)' = MicroBatches(r)
    BY <1>1, <1>2, <1>3 DEF MicroBatches
  <1>5. \A p : Gradient(r, p)' = Gradient(r, p)
    BY DEF Gradient, NotFinite, Targets, Distils, NonEmpty, Scale, Divisor
  <1>. QED BY <1>4, <1>5 DEF Entries

-----------------------------------------------------------------------------
LEMMA GradInvInit == UpdateInit => GradInv
  BY DEF UpdateInit, GradInv

LEMMA CountIs ==
    ASSUME options \in UpdateConfigs
    PROVE  Count \in Nat \ {0}
  <1>. DEFINE n == options.rows
              m == options.mini
              c == (n + m - 1) \div m
              d == (n + m - 1) % m
  <1>1. n \in Nat \ {0} /\ m \in Nat \ {0}
    BY OptionsAre
  <1>2. Count = c
    BY DEF Count, CeilDiv
  <1>. HIDE DEF n, m
  <1>3. c \in Nat /\ d \in 0 .. m - 1 /\ n + m - 1 = c * m + d
    BY <1>1, SMTT(30)
  <1>. HIDE DEF c, d
  <1>4. c # 0
    BY <1>1, <1>3
  <1>. QED BY <1>2, <1>3, <1>4

LEMMA GradInvBegin == GradInv /\ Begin => GradInv'
  <1>. SUFFICES ASSUME GradInv, Begin PROVE GradInv'
    OBVIOUS
  <1>1. /\ options' = options /\ stage' = "mini" /\ pass' = [epoch |-> 1, mini |-> 1]
        /\ rows' \in [Ranks -> [1 .. options.rows -> options.kinds]]
    BY DEF Begin
  <1>2. options \in UpdateConfigs
    BY DEF GradInv
  <1>3. Count \in Nat \ {0}
    BY <1>2, CountIs
  <1>4. Count' = Count
    BY <1>1 DEF Count
  <1>5. pass'.mini \in 1 .. Count' /\ pass' \in [epoch : Nat, mini : Nat]
    BY <1>1, <1>3, <1>4
  <1>. QED BY <1>1, <1>2, <1>5 DEF GradInv

LEMMA GradInvBeginMini == GradInv /\ BeginMini => GradInv'
  <1>. SUFFICES ASSUME GradInv, BeginMini PROVE GradInv'
    OBVIOUS
  <1>1. /\ options' = options /\ rows' = rows /\ pass' = pass /\ stage = "mini"
        /\ pending' = [r \in Ranks |-> MicroBatches(r)] /\ grad' = NoRows
    BY DEF BeginMini
  <1>2. InUpdate
    BY <1>1 DEF GradInv, InUpdate
  <1>3. ASSUME NEW r \in Ranks PROVE MicroInv(r)'
    <2>. DEFINE all == MicroBatches(r)
                k == Len(all)
    <2>1. all' = all /\ Entries(r)' = Entries(r)
      BY <1>1, SameMicroBatches
    <2>2. k \in Nat /\ all \in [1 .. k -> Seq(Nat)]
      BY <1>2, MicroBatchesAre DEF MicrosOf
    <2>. HIDE DEF all, k
    <2>3. all \in Seq(Seq(Nat)) /\ Len(all) = k
      BY <2>2, LengthOfFunction
    <2>4. pending'[r] = all /\ grad'[r] = <<>>
      BY <1>1 DEF all, NoRows
    <2>5. SubSeq(all, 0 + 1, k) = all
      BY <2>3, SubSeqFull
    <2>6. RowsOf(<<>>) = <<>> /\ <<>> \in Seq(Entries(r))
      BY EmptySeq DEF RowsOf
    <2>7. FlattenSeq(SubSeq(all, 1, 0)) = <<>>
      BY <2>2, FlattenMore
    <2>8. 0 \in 0 .. k
      BY <2>2
    <2>9. MicroInv(r)' = \E n \in 0 .. Len(all') :
                            /\ pending'[r] = SubSeq(all', n + 1, Len(all'))
                            /\ grad'[r] \in Seq(Entries(r)')
                            /\ RowsOf(grad'[r]) = FlattenSeq(SubSeq(all', 1, n))
      BY DEF MicroInv, all
    <2>10. \E n \in 0 .. k : /\ pending'[r] = SubSeq(all, n + 1, k)
                             /\ grad'[r] \in Seq(Entries(r))
                             /\ RowsOf(grad'[r]) = FlattenSeq(SubSeq(all, 1, n))
      BY <2>4, <2>5, <2>6, <2>7, <2>8
    <2>. QED BY <2>1, <2>3, <2>9, <2>10
  <1>4. Count' = Count /\ stage' = "micro"
    BY <1>1 DEF Count, BeginMini
  <1>. HIDE DEF MicroInv
  <1>. QED BY <1>1, <1>2, <1>3, <1>4 DEF GradInv, InUpdate

LEMMA GradInvMicro == GradInv /\ Micro => GradInv'
  <1>. SUFFICES ASSUME GradInv, Micro PROVE GradInv'
    OBVIOUS
  <1>1. /\ options' = options /\ rows' = rows /\ pass' = pass /\ stage = "micro"
        /\ stage' = stage
        /\ \A r \in Ranks : pending[r] # <<>>
        /\ grad' = [r \in Ranks |-> grad[r] \o Gradient(r, Head(pending[r]))]
        /\ pending' = [r \in Ranks |-> Tail(pending[r])]
    BY DEF Micro
  <1>2. InUpdate
    BY <1>1 DEF GradInv, InUpdate
  <1>3. ASSUME NEW r \in Ranks PROVE MicroInv(r)'
    <2>. DEFINE all == MicroBatches(r)
                k == Len(all)
                E == Entries(r)
    <2>1. all' = all /\ E' = E
      BY <1>1, SameMicroBatches
    <2>2. k \in Nat /\ all \in [1 .. k -> Seq(Nat)]
      BY <1>2, MicroBatchesAre DEF MicrosOf
    <2>3. PICK n \in 0 .. k : /\ pending[r] = SubSeq(all, n + 1, k)
                              /\ grad[r] \in Seq(E)
                              /\ RowsOf(grad[r]) = FlattenSeq(SubSeq(all, 1, n))
      BY <1>1 DEF GradInv, MicroInv
    <2>4. \A e \in E : e.row \in Nat
      BY <1>2, EntriesHaveRows
    <2>5. \A p \in ToSet(all) : ToSet(Gradient(r, p)) \subseteq E
      BY DEF Entries
    <2>6. MicroInv(r)' = \E i \in 0 .. Len(all') :
                            /\ pending'[r] = SubSeq(all', i + 1, Len(all'))
                            /\ grad'[r] \in Seq(E')
                            /\ RowsOf(grad'[r]) = FlattenSeq(SubSeq(all', 1, i))
      BY DEF MicroInv
    <2>. HIDE DEF all, k, E
    <2>7. all \in Seq(Seq(Nat)) /\ Len(all) = k /\ DOMAIN all = 1 .. k
      BY <2>2, LengthOfFunction
    <2>8. n # k
      <3>1. k + 1 \in Int /\ k \in Int /\ k < k + 1
        BY <2>2
      <3>2. SubSeq(all, k + 1, k) = <<>>
        BY <3>1, SubSeqEmpty
      <3>. QED BY <1>1, <2>3, <3>2
    <2>9. n + 1 \in 1 .. k /\ k \in n + 1 .. k /\ n + 1 \in 0 .. k /\ n + 1 - 1 = n
      BY <2>2, <2>8
    <2>. DEFINE p == all[n + 1]
    <2>10. Head(pending[r]) = p /\ Tail(pending[r]) = SubSeq(all, (n + 1) + 1, k)
      <3>1. n + 1 \in 1 .. Len(all) /\ k \in n + 1 .. Len(all)
        BY <2>7, <2>9
      <3>. QED BY <2>3, <2>7, <3>1, HeadTailOfSubSeq
    <2>11. p \in Seq(Nat) /\ p \in ToSet(all)
      BY <2>2, <2>7, <2>9 DEF ToSet
    <2>12. FlattenSeq(SubSeq(all, 1, n + 1)) = FlattenSeq(SubSeq(all, 1, n)) \o p
      <3>1. \A i \in 1 .. k :
               /\ FlattenSeq(SubSeq(all, 1, i - 1)) \in Seq(Nat)
               /\ FlattenSeq(SubSeq(all, 1, i)) = FlattenSeq(SubSeq(all, 1, i - 1)) \o all[i]
        BY <2>2, FlattenMore
      <3>. DEFINE i == n + 1
      <3>2. i \in 1 .. k /\ i - 1 = n
        BY <2>9
      <3>. HIDE DEF i
      <3>3. FlattenSeq(SubSeq(all, 1, i)) = FlattenSeq(SubSeq(all, 1, i - 1)) \o all[i]
        BY <3>1, <3>2
      <3>. QED BY <3>2, <3>3 DEF i
    <2>. HIDE DEF p
    <2>. DEFINE h == Gradient(r, p)
    <2>13. h \in Seq(E) /\ RowsOf(h) = p
      <3>1. h \in Seq(ToSet(h)) /\ RowsOf(h) = p
        BY <2>11, GradientIs
      <3>2. ToSet(h) \subseteq E
        BY <2>5, <2>11
      <3>. HIDE DEF h
      <3>. QED BY <3>1, <3>2, SeqMonotonic
    <2>14. pending'[r] = SubSeq(all, (n + 1) + 1, k) /\ grad'[r] = grad[r] \o h
      BY <1>1, <2>10
    <2>. HIDE DEF h
    <2>15. grad'[r] \in Seq(E)
      BY <2>3, <2>13, <2>14, ConcatProperties
    <2>16. RowsOf(grad'[r]) = RowsOf(grad[r]) \o RowsOf(h)
      BY <2>3, <2>4, <2>13, <2>14, RowsOfMore
    <2>17. RowsOf(grad'[r]) = FlattenSeq(SubSeq(all, 1, n + 1))
      BY <2>3, <2>12, <2>13, <2>16
    <2>18. \E i \in 0 .. k : /\ pending'[r] = SubSeq(all, i + 1, k)
                             /\ grad'[r] \in Seq(E)
                             /\ RowsOf(grad'[r]) = FlattenSeq(SubSeq(all, 1, i))
      BY <2>9, <2>14, <2>15, <2>17
    <2>. QED BY <2>1, <2>6, <2>7, <2>18
  <1>4. Count' = Count
    BY <1>1 DEF Count
  <1>. HIDE DEF MicroInv
  <1>. QED BY <1>1, <1>2, <1>3, <1>4 DEF GradInv, InUpdate

LEMMA GradInvStep == GradInv /\ OptimizerStep => GradInv'
  <1>. SUFFICES ASSUME GradInv, OptimizerStep PROVE GradInv'
    OBVIOUS
  <1>1. options' = options /\ rows' = rows /\ stage = "micro" /\ NextPass
    BY DEF OptimizerStep
  <1>2. InUpdate /\ pass \in [epoch : Nat, mini : Nat]
    BY <1>1 DEF GradInv, InUpdate
  <1>3. Count' = Count /\ pass.mini \in 1 .. Count /\ Count \in Nat \ {0}
    BY <1>1, <1>2, CountIs DEF Count, InUpdate
  <1>4. CASE pass.mini < Count
    <2>1. pass' = [pass EXCEPT !.mini = @ + 1] /\ stage' = "mini"
      BY <1>1, <1>4 DEF NextPass
    <2>2. pass' \in [epoch : Nat, mini : Nat] /\ pass'.mini = pass.mini + 1
      BY <1>2, <2>1
    <2>3. pass'.mini \in 1 .. Count
      BY <1>3, <1>4, <2>2
    <2>. QED BY <1>1, <1>2, <1>3, <2>1, <2>2, <2>3 DEF GradInv, InUpdate
  <1>5. CASE ~ pass.mini < Count /\ pass.epoch < options.epochs
    <2>1. pass' = [epoch |-> pass.epoch + 1, mini |-> 1] /\ stage' = "mini"
      BY <1>1, <1>5 DEF NextPass
    <2>2. pass' \in [epoch : Nat, mini : Nat] /\ pass'.mini = 1
      BY <1>2, <2>1
    <2>3. pass'.mini \in 1 .. Count
      BY <1>3, <2>2
    <2>. QED BY <1>1, <1>2, <1>3, <2>1, <2>2, <2>3 DEF GradInv, InUpdate
  <1>6. CASE ~ pass.mini < Count /\ ~ pass.epoch < options.epochs
    <2>1. pass' = pass /\ stage' = "teacher"
      BY <1>1, <1>6 DEF NextPass
    <2>. QED BY <1>1, <1>2, <2>1 DEF GradInv, InUpdate
  <1>. QED BY <1>4, <1>5, <1>6

LEMMA GradInvNext == GradInv /\ [UpdateNext]_updateVars => GradInv'
  <1>. SUFFICES ASSUME GradInv, [UpdateNext]_updateVars PROVE GradInv'
    OBVIOUS
  <1>1. CASE Begin
    BY <1>1, GradInvBegin
  <1>2. CASE BeginMini
    BY <1>2, GradInvBeginMini
  <1>3. CASE Micro
    BY <1>3, GradInvMicro
  <1>4. CASE OptimizerStep
    BY <1>4, GradInvStep
  <1>5. CASE EndUpdate
    BY <1>5 DEF GradInv, EndUpdate
  <1>6. CASE Stop
    BY <1>6 DEF GradInv, Stop, batchVars
  <1>7. CASE Save
    BY <1>7 DEF GradInv, Save, batchVars
  <1>8. CASE Restart
    BY <1>8 DEF GradInv, Restart
  <1>9. CASE UNCHANGED updateVars
    <2>1. /\ options' = options /\ rows' = rows /\ pass' = pass /\ stage' = stage
          /\ pending' = pending /\ grad' = grad
      BY <1>9 DEF updateVars, batchVars
    <2>2. Count' = Count
      BY <2>1 DEF Count
    <2>3. \A r \in Ranks : MicroInv(r)' = MicroInv(r)
      <3>. SUFFICES ASSUME NEW r \in Ranks PROVE MicroInv(r)' = MicroInv(r)
        OBVIOUS
      <3>1. MicroBatches(r)' = MicroBatches(r) /\ Entries(r)' = Entries(r)
        BY <2>1, SameMicroBatches
      <3>. QED BY <2>1, <3>1 DEF MicroInv
    <2>. HIDE DEF MicroInv
    <2>. QED BY <2>1, <2>2, <2>3 DEF GradInv
  <1>. QED BY <1>1, <1>2, <1>3, <1>4, <1>5, <1>6, <1>7, <1>8, <1>9
           DEF UpdateNext, Finished

LEMMA GradInvariant == UpdateSpec => []GradInv
  BY GradInvInit, GradInvNext, PTL DEF UpdateSpec

\* When a step is due, the gradient of every rank is of its mini-batch.
LEMMA GradientOfMini ==
    ASSUME GradInv, AtStep, NEW r \in Ranks
    PROVE  /\ InUpdate /\ grad[r] \in Seq(Entries(r))
           /\ Seen(r) = MiniRows(r) /\ Len(grad[r]) = MiniSize
  <1>. DEFINE all == MicroBatches(r)
              k == Len(all)
              g == grad[r]
  <1>1. InUpdate /\ pending[r] = <<>> /\ MicroInv(r)
    BY DEF GradInv, InUpdate, AtStep
  <1>2. k \in Nat /\ all \in [1 .. k -> Seq(Nat)] /\ Lists(FlattenSeq(all), MiniRows(r))
    BY <1>1, MicroBatchesAre DEF MicrosOf
  <1>3. PICK n \in 0 .. k : /\ pending[r] = SubSeq(all, n + 1, k)
                            /\ g \in Seq(Entries(r))
                            /\ RowsOf(g) = FlattenSeq(SubSeq(all, 1, n))
    BY <1>1 DEF MicroInv
  <1>4. \A e \in Entries(r) : e.row \in Nat
    BY <1>1, EntriesHaveRows
  <1>5. MiniSize \in Nat /\ Start \in Nat /\ MiniRows(r) = Start + 1 .. Start + MiniSize
    BY <1>1, MiniIs
  <1>. HIDE DEF all, k, g
  <1>6. n = k
    <2>. SUFFICES ASSUME n < k PROVE FALSE
      BY <1>2
    <2>1. \A i \in n + 1 .. k : all[i] \in Seq(Nat)
      BY <1>2
    <2>2. Len(SubSeq(all, n + 1, k)) = IF n + 1 <= k THEN k - (n + 1) + 1 ELSE 0
      BY <1>2, <2>1, SubSeqProperties
    <2>3. Len(SubSeq(all, n + 1, k)) = 0
      BY <1>1, <1>3, EmptySeq
    <2>. QED BY <1>2, <2>2, <2>3
  <1>7. RowsOf(g) = FlattenSeq(all)
    BY <1>2, <1>3, <1>6, FlattenMore
  <1>8. Lists(RowsOf(g), MiniRows(r))
    BY <1>2, <1>7
  <1>9. Len(RowsOf(g)) = Len(g) /\ \A i \in 1 .. Len(g) : RowsOf(g)[i] = g[i].row
    BY <1>3, <1>4, RowsOfIs
  <1>10. DOMAIN g = 1 .. Len(g) /\ DOMAIN RowsOf(g) = 1 .. Len(g)
    BY <1>3, <1>9, LenProperties DEF RowsOf
  <1>11. ToSet(RowsOf(g)) = MiniRows(r)
    BY <1>8, ElementsOf
  <1>12. Seen(r) = MiniRows(r)
    BY <1>9, <1>10, <1>11 DEF Seen, ToSet, g
  <1>13. Len(g) = MiniSize
    <2>1. Cardinality(MiniRows(r)) = Len(g)
      BY <1>8, <1>9, SizeOfListed
    <2>. DEFINE x == Start + 1
                y == Start + MiniSize
    <2>2. x \in Int /\ y \in Int /\ MiniRows(r) = x .. y
      BY <1>5
    <2>. HIDE DEF x, y
    <2>3. Cardinality(x .. y) = IF x > y THEN 0 ELSE y - x + 1
      BY <2>2, FS_Interval
    <2>4. Cardinality(x .. y) = MiniSize
      <3>. HIDE DEF Start
      <3>. QED BY <1>5, <2>3 DEF x, y
    <2>. QED BY <2>1, <2>2, <2>4
  <1>. QED BY <1>1, <1>3, <1>12, <1>13 DEF g

\* An optimizer step is made from every row of its mini-batch once, and from no other
\* row: neither of another mini-batch nor of one whose gradient was dropped.
THEOREM StepsUseTheirRows == UpdateSpec => []OwnRowsOnly
  <1>1. GradInv => OwnRowsOnly
    <2>. SUFFICES ASSUME GradInv, AtStep, NEW r \in Ranks
         PROVE  Seen(r) = MiniRows(r) /\ Len(grad[r]) = Len(MiniBatch(r))
      BY DEF OwnRowsOnly
    <2>1. InUpdate /\ Seen(r) = MiniRows(r) /\ Len(grad[r]) = MiniSize
      BY GradientOfMini
    <2>. QED BY <2>1, MiniIs
  <1>. QED BY <1>1, GradInvariant, PTL

-----------------------------------------------------------------------------
(***************************************************************************)
(* The weight of a row.                                                    *)
(***************************************************************************)
\* The reciprocal of what a row of a full mini-batch weighs.
Share ==
    IF options.agg = "seq-mean-token-sum-norm"
    THEN (options.mini \div options.micro) * ResponseWidth ELSE options.mini

\* Of rows of one loss that all have tokens, a micro-batch divides by all its rows.
LEMMA DivisorIs ==
    ASSUME InUpdate, NEW r \in Ranks, NEW p \in Seq(Nat), Lists(p, ToSet(p)),
           \A x \in ToSet(p) : rows[r][x].kept > 0,
           Targets(r, ToSet(p)) \in {{}, ToSet(p)}, options.agg # "token-mean",
           NEW i \in 1 .. Len(p)
    PROVE  /\ Gradient(r, p)[i].row = p[i]
           /\ Gradient(r, p)[i].weight =
                 <<Scale(Len(p))[1],
                   Scale(Len(p))[2] *
                     (CASE options.agg = "seq-mean-token-sum" -> Len(p)
                        [] options.agg = "seq-mean-token-mean" -> rows[r][p[i]].kept * Len(p)
                        [] options.agg = "seq-mean-token-sum-norm" -> ResponseWidth)>>
  <1>. DEFINE S == ToSet(p)
              T == Targets(r, S)
              like(x) == IF x \in T THEN T ELSE S \ T
              div(x) == Divisor(r, like(x), x)
  <1>1. DOMAIN p = 1 .. Len(p)
    BY LenProperties
  <1>2. p[i] \in S
    BY <1>1 DEF ToSet
  <1>3. like(p[i]) = S
    BY <1>2
  <1>4. NonEmpty(r, S) = Len(p)
    <2>1. {x \in S : rows[r][x].kept > 0} = S
      OBVIOUS
    <2>2. Cardinality(S) = Len(p)
      BY SizeOfListed
    <2>. HIDE DEF S
    <2>. QED BY <2>1, <2>2 DEF NonEmpty
  <1>5. options.agg \in {"seq-mean-token-sum", "seq-mean-token-mean", "seq-mean-token-sum-norm"}
    BY OptionsAre DEF InUpdate
  <1>6. Gradient(r, p)[i].row = p[i]
        /\ Gradient(r, p)[i].weight = <<Scale(Len(p))[1], Scale(Len(p))[2] * div(p[i])>>
    BY DEF Gradient
  <1>. HIDE DEF S, T
  <1>7. div(p[i]) = Divisor(r, S, p[i])
    BY <1>3
  <1>8. Divisor(r, S, p[i]) =
           CASE options.agg = "seq-mean-token-sum" -> Len(p)
             [] options.agg = "seq-mean-token-mean" -> rows[r][p[i]].kept * Len(p)
             [] options.agg = "seq-mean-token-sum-norm" -> ResponseWidth
    BY <1>4, <1>5 DEF Divisor
  <1>. HIDE DEF div
  <1>. QED BY <1>6, <1>7, <1>8

\* A row of a full mini-batch weighs one over Share, in a fraction not in lowest terms.
LEMMA WeightOfRow ==
    ASSUME GradInv, AtStep, NEW r \in Ranks, Uniform(r), Full(r),
           options.agg # "token-mean",
           options.agg = "seq-mean-token-sum-norm" => ~ options.dynamic,
           NEW k \in DOMAIN grad[r]
    PROVE  \E a \in Nat \ {0} : RowWeight(r, k) = <<a, a * Share>>
  <1>. DEFINE all == MicroBatches(r)
              l == Len(all)
              e == grad[r][k]
  <1>1. /\ InUpdate /\ grad[r] \in Seq(Entries(r)) /\ Seen(r) = MiniRows(r)
        /\ l \in Nat /\ MicrosOf(all, l, MiniRows(r))
        /\ (~ options.dynamic /\ MiniSize = options.mini) =>
              \A m \in 1 .. l : Len(all[m]) = options.micro
    BY GradientOfMini, MicroBatchesAre
  <1>2. e \in Entries(r)
    BY <1>1, LenProperties, ElementOfSeq
  <1>3. PICK p \in ToSet(all) : e \in ToSet(Gradient(r, p))
    BY <1>2 DEF Entries
  <1>. HIDE DEF all, l
  <1>4. DOMAIN all = 1 .. l
    BY <1>1 DEF MicrosOf
  <1>5. PICK m \in 1 .. l : p = all[m]
    BY <1>3, <1>4 DEF ToSet
  <1>6. p \in Seq(Nat) /\ Lists(p, ToSet(p)) /\ ToSet(p) \subseteq Seen(r)
    BY <1>1, <1>5 DEF MicrosOf
  <1>7. DOMAIN Gradient(r, p) = 1 .. Len(p) /\ DOMAIN p = 1 .. Len(p) /\ Len(p) \in Nat
    BY <1>6, GradientIs, LenProperties
  <1>8. PICK i \in 1 .. Len(p) : e = Gradient(r, p)[i]
    BY <1>3, <1>7 DEF ToSet
  <1>9. p[i] \in ToSet(p) /\ p[i] \in Seen(r)
    BY <1>6, <1>7 DEF ToSet
  <1>10. \A x \in ToSet(p) : rows[r][x].kept > 0
    BY <1>6 DEF Uniform
  <1>11. Targets(r, ToSet(p)) \in {{}, ToSet(p)}
    <2>1. Targets(r, Seen(r)) = {} \/ Targets(r, Seen(r)) = Seen(r)
      BY DEF Uniform
    <2>2. \A x \in ToSet(p) : x \in Targets(r, ToSet(p)) <=> x \in Targets(r, Seen(r))
      BY <1>6 DEF Targets
    <2>3. Targets(r, ToSet(p)) \subseteq ToSet(p)
      BY DEF Targets
    <2>. QED BY <1>6, <2>1, <2>2, <2>3
  <1>. DEFINE n == Len(p)
              kept == rows[r][p[i]].kept
              s == Scale(n)
              d == CASE options.agg = "seq-mean-token-sum" -> n
                     [] options.agg = "seq-mean-token-mean" -> kept * n
                     [] options.agg = "seq-mean-token-sum-norm" -> ResponseWidth
  <1>12. e.row = p[i] /\ e.weight = <<s[1], s[2] * d>>
    BY <1>1, <1>6, <1>8, <1>10, <1>11, DivisorIs
  <1>13. kept \in Nat \ {0}
    <2>1. Start \in Nat /\ Start + MiniSize <= options.rows /\ MiniSize \in Nat
          /\ MiniRows(r) = Start + 1 .. Start + MiniSize /\ options.rows \in Nat
      BY <1>1, MiniIs, OptionsAre DEF InUpdate
    <2>. DEFINE x == p[i]
    <2>2. x \in Start + 1 .. Start + MiniSize
      BY <1>1, <1>9, <2>1
    <2>. HIDE DEF x, Start
    <2>3. x \in 1 .. options.rows
      BY <2>1, <2>2
    <2>4. rows[r][x] \in Row
      BY <1>1, <2>3, OptionsAre DEF InUpdate
    <2>5. rows[r][x].kept \in Nat /\ rows[r][x].kept > 0
      BY <1>9, <1>10, <2>4, UpdateAssumption DEF Row, x
    <2>6. rows[r][x].kept \in Nat \ {0}
      BY <2>5
    <2>. QED BY <2>6 DEF x
  <1>14. n \in Nat \ {0} /\ (~ options.dynamic => n = options.micro)
    <2>1. n # 0
      BY <1>7
    <2>. QED BY <1>1, <1>5, <1>6, <1>7, <2>1, MiniIs DEF Full
  <1>. DEFINE w == options.mini \div options.micro
  <1>15. /\ options.mini \in Nat \ {0} /\ options.micro \in Nat \ {0} /\ w \in Nat
         /\ w * options.micro = options.mini
    <2>1. options.mini \in Nat \ {0} /\ options.micro \in Nat \ {0}
          /\ options.mini % options.micro = 0
      BY <1>1, OptionsAre DEF InUpdate
    <2>. QED BY <2>1, SMTT(30)
  <1>16. ResponseWidth \in Nat
    BY UpdateAssumption
  <1>17. s = IF options.dynamic THEN <<n, options.mini>> ELSE <<1, w>>
    BY DEF Scale
  <1>18. RowWeight(r, k) = IF options.agg = "seq-mean-token-mean"
                           THEN <<s[1] * kept, s[2] * d>> ELSE <<s[1], s[2] * d>>
    <2>1. RowWeight(r, k) = IF options.agg = "seq-mean-token-mean"
                            THEN <<e.weight[1] * rows[r][e.row].kept, e.weight[2]>> ELSE e.weight
      BY DEF RowWeight
    <2>. HIDE DEF e, s, d
    <2>2. rows[r][e.row].kept = kept
      BY <1>12
    <2>. HIDE DEF kept
    <2>3. e.weight[1] = s[1] /\ e.weight[2] = s[2] * d
      BY <1>12
    <2>. QED BY <1>12, <2>1, <2>2, <2>3
  <1>19. options.agg \in {"seq-mean-token-sum", "seq-mean-token-mean", "seq-mean-token-sum-norm"}
    BY <1>1, OptionsAre DEF InUpdate
  <1>. HIDE DEF e, n, kept, s, w
  <1>20. CASE options.agg = "seq-mean-token-sum"
    <2>1. d = n /\ RowWeight(r, k) = <<s[1], s[2] * n>> /\ Share = options.mini
      BY <1>18, <1>20 DEF Share
    <2>2. CASE options.dynamic
      <3>1. RowWeight(r, k) = <<n, options.mini * n>> /\ options.mini * n = n * options.mini
        BY <1>14, <1>15, <1>17, <2>1, <2>2
      <3>. QED BY <1>14, <2>1, <3>1
    <2>3. CASE ~ options.dynamic
      <3>1. RowWeight(r, k) = <<1, w * n>> /\ w * n = 1 * options.mini
        BY <1>14, <1>15, <1>17, <2>1, <2>3
      <3>. QED BY <2>1, <3>1
    <2>. QED BY <2>2, <2>3
  <1>21. CASE options.agg = "seq-mean-token-mean"
    <2>1. d = kept * n /\ RowWeight(r, k) = <<s[1] * kept, s[2] * (kept * n)>>
          /\ Share = options.mini
      BY <1>18, <1>21 DEF Share
    <2>2. CASE options.dynamic
      <3>1. RowWeight(r, k) = <<n * kept, options.mini * (kept * n)>>
        BY <1>17, <2>1, <2>2
      <3>2. n * kept \in Nat \ {0} /\ options.mini * (kept * n) = (n * kept) * options.mini
        <4>1. n * kept > 0 /\ n * kept \in Nat
          BY <1>13, <1>14
        <4>2. options.mini * (kept * n) = (n * kept) * options.mini
          BY <1>13, <1>14, <1>15
        <4>. QED BY <4>1, <4>2
      <3>. QED BY <2>1, <3>1, <3>2
    <2>3. CASE ~ options.dynamic
      <3>1. RowWeight(r, k) = <<1 * kept, w * (kept * n)>> /\ 1 * kept = kept
        BY <1>13, <1>17, <2>1, <2>3
      <3>2. w * (kept * n) = kept * (w * n) /\ w * n = options.mini
        BY <1>13, <1>14, <1>15, <2>3
      <3>. QED BY <1>13, <2>1, <3>1, <3>2
    <2>. QED BY <2>2, <2>3
  <1>22. CASE options.agg = "seq-mean-token-sum-norm"
    <2>1. d = ResponseWidth /\ RowWeight(r, k) = <<s[1], s[2] * ResponseWidth>>
          /\ Share = w * ResponseWidth
      BY <1>18, <1>22 DEF Share, w
    <2>2. s = <<1, w>>
      BY <1>17, <1>22
    <2>3. RowWeight(r, k) = <<1, w * ResponseWidth>>
      BY <2>1, <2>2
    <2>4. w * ResponseWidth = 1 * (w * ResponseWidth)
      BY <1>15, <1>16
    <2>. QED BY <2>1, <2>3, <2>4
  <1>. QED BY <1>19, <1>20, <1>21, <1>22

\* However the mini-batches of two ranks are cut into micro-batches, all their rows
\* weigh the same in a mode that averages over rows.
THEOREM AllRowsWeighAlike == UpdateSpec => []RowsWeighAlike
  <1>1. GradInv => RowsWeighAlike
    <2>. SUFFICES ASSUME GradInv, AtStep, options.agg # "token-mean",
                         options.agg = "seq-mean-token-sum-norm" => ~ options.dynamic,
                         NEW q \in Ranks, NEW r \in Ranks,
                         Uniform(q), Uniform(r), Full(q), Full(r),
                         NEW j \in DOMAIN grad[q], NEW k \in DOMAIN grad[r]
         PROVE  Same(RowWeight(q, j), RowWeight(r, k))
      BY DEF RowsWeighAlike
    <2>1. PICK a \in Nat : RowWeight(q, j) = <<a, a * Share>>
      BY WeightOfRow
    <2>2. PICK b \in Nat : RowWeight(r, k) = <<b, b * Share>>
      BY WeightOfRow
    <2>3. Share \in Nat
      <3>1. options \in UpdateConfigs /\ ResponseWidth \in Nat
        BY UpdateAssumption DEF GradInv
      <3>2. options.mini \in Nat \ {0} /\ options.micro \in Nat \ {0}
        BY <3>1, OptionsAre
      <3>3. options.mini \div options.micro \in Nat
        BY <3>2, SMTT(30)
      <3>. QED BY <3>1, <3>2, <3>3 DEF Share
    <2>4. a * (b * Share) = b * (a * Share)
      BY <2>3
    <2>. QED BY <2>1, <2>2, <2>4 DEF Same
  <1>. QED BY <1>1, GradInvariant, PTL

==============================================================================
