---------------------------- MODULE SequenceProofs ----------------------------
(***************************************************************************)
(* What the algorithms on sequences guarantee for inputs of every size.    *)
(* The first part is about SeqlenBalancing: the division of Karmarkar and  *)
(* Karp is one, its parts are as far apart as it says, and what is made of *)
(* its parts is undone by restore_dynamic_batch.  The second is about the  *)
(* tokens of conversations (TrainedTokens): a request keeps to the chat    *)
(* template through all its turns, and of a sample only the answers are    *)
(* learned.                                                                *)
(***************************************************************************)
EXTENDS SeqlenBalancing, TrainedTokens, SequenceTheorems, FiniteSetTheorems, TLAPS

-----------------------------------------------------------------------------
(***************************************************************************)
(* Natural numbers.  Induction is a fact about sets of numbers: the        *)
(* theorems of the library take an operator.                               *)
(***************************************************************************)
\* A set of natural numbers has a least element.
LEMMA LeastNatural ==
    ASSUME NEW T, T \subseteq Nat, T # {}
    PROVE  \E m \in T : \A k \in T : m <= k
  <1>. DEFINE Below == {1 .. k : k \in T}
              R == StrictSubsetOrdering(Nat)
  <1>1. IsWellFoundedOn(R, FiniteSubsetsOf(Nat))
    BY FS_StrictSubsetOrderingWellFounded
  <1>2. Below \subseteq FiniteSubsetsOf(Nat)
    <2>. SUFFICES ASSUME NEW k \in T PROVE 1 .. k \in FiniteSubsetsOf(Nat)
      OBVIOUS
    <2>1. k \in Int /\ 1 \in Int
      OBVIOUS
    <2>2. IsFiniteSet(1 .. k)
      BY <2>1, FS_Interval
    <2>. QED BY <2>2 DEF FiniteSubsetsOf
  <1>3. Below # {}
    OBVIOUS
  <1>4. PICK B \in Below : \A C \in Below : ~ (<<C, B>> \in R)
    BY <1>1, <1>2, <1>3, WFMin
  <1>5. PICK m \in T : B = 1 .. m
    OBVIOUS
  <1>6. ASSUME NEW k \in T, ~ (m <= k)
        PROVE  FALSE
    <2>1. k \in Nat /\ m \in Nat /\ k < m
      BY <1>6
    <2>2. 1 .. k \subseteq 1 .. m /\ 1 .. k # 1 .. m
      <3>1. m \in 1 .. m /\ m \notin 1 .. k
        BY <2>1
      <3>. QED BY <3>1, <2>1
    <2>3. 1 .. k \in SUBSET Nat /\ 1 .. m \in SUBSET Nat
      BY <2>1
    <2>4. <<1 .. k, 1 .. m>> \in R
      BY <2>2, <2>3 DEF StrictSubsetOrdering
    <2>. QED BY <1>4, <1>5, <2>4
  <1>. QED BY <1>6

\* Induction over 0 .. n.
LEMMA UpTo ==
    ASSUME NEW n \in Nat, NEW T, 0 \in T,
           \A i \in 0 .. n - 1 : i \in T => i + 1 \in T
    PROVE  \A i \in 0 .. n : i \in T
  <1>. SUFFICES ASSUME (0 .. n) \ T # {} PROVE FALSE
    OBVIOUS
  <1>1. (0 .. n) \ T \subseteq Nat
    OBVIOUS
  <1>2. PICK m \in (0 .. n) \ T : \A k \in (0 .. n) \ T : m <= k
    BY <1>1, LeastNatural
  <1>3. m # 0 /\ m - 1 \in 0 .. n - 1 /\ m - 1 \in 0 .. n
    OBVIOUS
  <1>4. m - 1 \in T
    BY <1>2, <1>3
  <1>5. m = (m - 1) + 1
    OBVIOUS
  <1>. QED BY <1>3, <1>4, <1>5

\* The greatest and the least element of a bounded set.
LEMMA GreatestElement ==
    ASSUME NEW T, NEW b \in Nat, T \subseteq 0 .. b, T # {}
    PROVE  Max(T) \in T /\ \A x \in T : x <= Max(T)
  <1>. DEFINE U == {b - x : x \in T}
  <1>1. U \subseteq Nat /\ U # {}
    <2>1. \A x \in T : b - x \in Nat
      OBVIOUS
    <2>. QED BY <2>1
  <1>2. PICK u \in U : \A v \in U : u <= v
    BY <1>1, LeastNatural
  <1>3. PICK m \in T : u = b - m
    BY <1>2
  <1>4. \A x \in T : m >= x
    <2>. SUFFICES ASSUME NEW x \in T PROVE m >= x
      OBVIOUS
    <2>1. b - m <= b - x
      BY <1>2, <1>3
    <2>. QED BY <2>1
  <1>5. \E x \in T : \A y \in T : x >= y
    BY <1>4
  <1>6. Max(T) \in T /\ \A y \in T : Max(T) >= y
    BY <1>5 DEF Max
  <1>7. \A y \in T : y \in Int
    OBVIOUS
  <1>. QED BY <1>6, <1>7

LEMMA LessOfTwo ==
    ASSUME NEW a \in Int, NEW b \in Int
    PROVE  Min({a, b}) = IF a <= b THEN a ELSE b
  <1>1. \E x \in {a, b} : \A y \in {a, b} : x <= y
    OBVIOUS
  <1>2. Min({a, b}) \in {a, b} /\ \A y \in {a, b} : Min({a, b}) <= y
    BY <1>1 DEF Min
  <1>. QED BY <1>2

\* A function defined by recursion over the natural numbers up to n.
Recursive(f, S, a, n, g) ==
    /\ f \in [0 .. n -> S]
    /\ f[0] = a
    /\ \A i \in 1 .. n : f[i] = g[<<i, f[i - 1]>>]

LEMMA RecursionUpTo ==
    ASSUME NEW S, NEW n \in Nat, NEW a \in S, NEW g \in [(1 .. n) \X S -> S]
    PROVE  \E f : Recursive(f, S, a, n, g)
  <1>. DEFINE T == {m \in 0 .. n : \E f : Recursive(f, S, a, m, g)}
  <1>1. 0 \in T
    <2>. DEFINE f == [i \in 0 .. 0 |-> a]
    <2>1. Recursive(f, S, a, 0, g)
      BY DEF Recursive
    <2>. HIDE DEF f
    <2>. QED BY <2>1
  <1>2. ASSUME NEW m \in 0 .. n - 1, m \in T
        PROVE  m + 1 \in T
    <2>1. PICK f : Recursive(f, S, a, m, g)
      BY <1>2
    <2>. DEFINE h == [i \in 0 .. m + 1 |-> IF i <= m THEN f[i] ELSE g[<<m + 1, f[m]>>]]
    <2>2. f[m] \in S /\ m + 1 \in 1 .. n
      BY <2>1 DEF Recursive
    <2>3. g[<<m + 1, f[m]>>] \in S
      BY <2>2
    <2>4. h \in [0 .. m + 1 -> S] /\ h[0] = a
      BY <2>1, <2>3 DEF Recursive
    <2>5. ASSUME NEW i \in 1 .. m + 1
          PROVE  h[i] = g[<<i, h[i - 1]>>]
      <3>1. CASE i <= m
        <4>1. h[i] = f[i] /\ h[i - 1] = f[i - 1]
          BY <3>1
        <4>. QED BY <3>1, <4>1, <2>1 DEF Recursive
      <3>2. CASE i = m + 1
        <4>1. h[i] = g[<<m + 1, f[m]>>] /\ h[i - 1] = f[m]
          BY <3>2
        <4>. QED BY <3>2, <4>1
      <3>. QED BY <3>1, <3>2
    <2>6. Recursive(h, S, a, m + 1, g)
      BY <2>4, <2>5 DEF Recursive
    <2>. HIDE DEF h
    <2>. QED BY <2>6
  <1>. HIDE DEF T
  <1>3. \A i \in 0 .. n : i \in T
    BY <1>1, <1>2, UpTo
  <1>. QED BY <1>3 DEF T

-----------------------------------------------------------------------------
(***************************************************************************)
(* Sums and concatenations.                                                *)
(***************************************************************************)
\* A function on 1 .. n is a sequence of length n.
LEMMA LengthOfFunction ==
    ASSUME NEW n \in Nat, NEW S, NEW f \in [1 .. n -> S]
    PROVE  f \in Seq(S) /\ Len(f) = n /\ DOMAIN f = 1 .. n
  OBVIOUS

\* A total is what its partial sums come to.
LEMMA TotalIs ==
    ASSUME NEW n \in Nat, NEW s, Len(s) = n, NEW f \in [0 .. n -> Int], f[0] = 0,
           \A i \in 1 .. n : f[i] = f[i - 1] + s[i]
    PROVE  TotalOf(s) = f[n]
  <1>. DEFINE Sums(h) == h = [m \in 0 .. Len(s) |-> IF m = 0 THEN 0 ELSE h[m - 1] + s[m]]
              sum == CHOOSE h : Sums(h)
  <1>1. Sums(f)
    <2>1. \A m \in 0 .. n : f[m] = IF m = 0 THEN 0 ELSE f[m - 1] + s[m]
      OBVIOUS
    <2>. QED BY <2>1
  <1>2. Sums(sum)
    <2>. HIDE DEF Sums
    <2>. QED BY <1>1
  <1>3. TotalOf(s) = sum[n]
    BY DEF TotalOf
  <1>4. \A m \in 0 .. n : sum[m] = IF m = 0 THEN 0 ELSE sum[m - 1] + s[m]
    <2>. HIDE DEF sum
    <2>. QED BY <1>2
  <1>. HIDE DEF sum
  <1>. DEFINE T == {i \in 0 .. n : sum[i] = f[i]}
  <1>5. 0 \in T
    BY <1>4
  <1>6. \A i \in 0 .. n - 1 : i \in T => i + 1 \in T
    <2>. SUFFICES ASSUME NEW i \in 0 .. n - 1, sum[i] = f[i]
         PROVE  sum[i + 1] = f[i + 1]
      OBVIOUS
    <2>1. i + 1 \in 1 .. n /\ (i + 1) - 1 = i
      OBVIOUS
    <2>. QED BY <1>4, <2>1
  <1>. HIDE DEF T, Sums
  <1>7. \A i \in 0 .. n : i \in T
    BY <1>5, <1>6, UpTo
  <1>8. n \in T
    BY <1>7
  <1>. QED BY <1>3, <1>8 DEF T

LEMMA PartialSums ==
    ASSUME NEW n \in Nat, NEW s \in [1 .. n -> Nat]
    PROVE  \E f \in [0 .. n -> Nat] : /\ f[0] = 0
                                      /\ \A i \in 1 .. n : f[i] = f[i - 1] + s[i]
                                      /\ TotalOf(s) = f[n]
  <1>. DEFINE g == [p \in (1 .. n) \X Nat |-> p[2] + s[p[1]]]
  <1>1. g \in [(1 .. n) \X Nat -> Nat]
    OBVIOUS
  <1>2. \A i \in 1 .. n, v \in Nat : g[<<i, v>>] = v + s[i]
    OBVIOUS
  <1>. HIDE DEF g
  <1>0. 0 \in Nat
    OBVIOUS
  <1>3. PICK f : Recursive(f, Nat, 0, n, g)
    BY <1>0, <1>1, RecursionUpTo
  <1>4. \A i \in 1 .. n : f[i] = f[i - 1] + s[i]
    <2>. SUFFICES ASSUME NEW i \in 1 .. n PROVE f[i] = f[i - 1] + s[i]
      OBVIOUS
    <2>1. i - 1 \in 0 .. n /\ f \in [0 .. n -> Nat] /\ f[i] = g[<<i, f[i - 1]>>]
      BY <1>3 DEF Recursive
    <2>2. f[i - 1] \in Nat
      BY <2>1
    <2>. QED BY <1>2, <2>1, <2>2
  <1>5. f \in [0 .. n -> Int] /\ f[0] = 0 /\ f \in [0 .. n -> Nat] /\ Len(s) = n
    BY <1>3, LengthOfFunction DEF Recursive
  <1>6. TotalOf(s) = f[n]
    BY <1>4, <1>5, TotalIs
  <1>. QED BY <1>4, <1>5, <1>6

\* A concatenation is what the concatenations of the first sequences come to.
LEMMA FlattenIs ==
    ASSUME NEW S, NEW n \in Nat, NEW parts \in [1 .. n -> Seq(S)],
           NEW f \in [0 .. n -> Seq(S)], f[0] = <<>>,
           \A i \in 1 .. n : f[i] = f[i - 1] \o parts[i]
    PROVE  FlattenSeq(parts) = f[n]
  <1>1. Len(parts) = n /\ parts \in Seq(Seq(S))
    BY LengthOfFunction
  <1>2. CASE n = 0
    <2>1. FlattenSeq(parts) = parts
      BY <1>1, <1>2 DEF FlattenSeq
    <2>2. parts = <<>>
      BY <1>1, <1>2, EmptySeq
    <2>. QED BY <1>2, <2>1, <2>2
  <1>3. CASE n # 0
    <2>. DEFINE Flattens(h) == h = [i \in 1 .. Len(parts) |->
                                      IF i = 1 THEN parts[i] ELSE h[i - 1] \o parts[i]]
                flatten == CHOOSE h : Flattens(h)
                h0 == [i \in 1 .. n |-> f[i]]
    <2>1. Flattens(h0)
      <3>1. f[1] = parts[1]
        <4>0. 1 \in 1 .. n /\ 1 - 1 = 0
          BY <1>3
        <4>1. f[1] = f[0] \o parts[1] /\ parts[1] \in Seq(S)
          BY <4>0
        <4>. QED BY <4>1, ConcatEmptySeq
      <3>2. \A i \in 1 .. n : f[i] = IF i = 1 THEN parts[i] ELSE h0[i - 1] \o parts[i]
        <4>. SUFFICES ASSUME NEW i \in 1 .. n, i # 1
             PROVE  f[i] = h0[i - 1] \o parts[i]
          BY <3>1
        <4>1. i - 1 \in 1 .. n
          OBVIOUS
        <4>2. h0[i - 1] = f[i - 1]
          BY <4>1
        <4>. QED BY <4>2
      <3>. QED BY <1>1, <3>2
    <2>2. Flattens(flatten)
      <3>. HIDE DEF Flattens, h0
      <3>. QED BY <2>1
    <2>3. FlattenSeq(parts) = flatten[n]
      BY <1>1, <1>3 DEF FlattenSeq
    <2>4. \A i \in 1 .. n :
             flatten[i] = IF i = 1 THEN parts[i] ELSE flatten[i - 1] \o parts[i]
      <3>. HIDE DEF flatten
      <3>. QED BY <1>1, <2>2
    <2>. HIDE DEF flatten
    <2>. DEFINE T == {i \in 0 .. n : i = 0 \/ flatten[i] = f[i]}
    <2>5. \A i \in 0 .. n - 1 : i \in T => i + 1 \in T
      <3>. SUFFICES ASSUME NEW i \in 0 .. n - 1, i = 0 \/ flatten[i] = f[i]
           PROVE  flatten[i + 1] = f[i + 1]
        <4>1. \A i \in 0 .. n - 1 : i \in 0 .. n /\ i + 1 \in 0 .. n /\ i + 1 # 0
          OBVIOUS
        <4>. QED BY <4>1, Zenon
      <3>1. i + 1 \in 1 .. n /\ (i + 1) - 1 = i
        OBVIOUS
      <3>2. f[i + 1] = f[i] \o parts[i + 1] /\ parts[i + 1] \in Seq(S)
        BY <3>1
      <3>3. flatten[i + 1] = IF i + 1 = 1 THEN parts[i + 1] ELSE flatten[i] \o parts[i + 1]
        BY <2>4, <3>1
      <3>4. CASE i = 0
        <4>1. f[i + 1] = parts[i + 1]
          BY <3>2, <3>4, ConcatEmptySeq
        <4>. QED BY <3>3, <3>4, <4>1
      <3>5. CASE i # 0
        <4>1. flatten[i] = f[i] /\ i + 1 # 1
          BY <3>5
        <4>. QED BY <3>2, <3>3, <4>1
      <3>. QED BY <3>4, <3>5
    <2>6. 0 \in T
      OBVIOUS
    <2>. HIDE DEF T
    <2>7. \A i \in 0 .. n : i \in T
      BY <2>5, <2>6, UpTo
    <2>8. n \in T
      BY <2>7
    <2>. QED BY <1>3, <2>3, <2>8 DEF T
  <1>. QED BY <1>2, <1>3

\* What is made of the parts one after the other.
Concatenations(f, parts, S, n) ==
    /\ f \in [0 .. n -> Seq(S)]
    /\ f[0] = <<>>
    /\ \A i \in 1 .. n : f[i] = f[i - 1] \o parts[i]
    /\ FlattenSeq(parts) = f[n]

LEMMA PartialConcatenations ==
    ASSUME NEW S, NEW n \in Nat, NEW parts \in [1 .. n -> Seq(S)]
    PROVE  \E f : Concatenations(f, parts, S, n)
  <1>. DEFINE g == [p \in (1 .. n) \X Seq(S) |-> p[2] \o parts[p[1]]]
  <1>1. g \in [(1 .. n) \X Seq(S) -> Seq(S)]
    <2>. SUFFICES ASSUME NEW p \in (1 .. n) \X Seq(S) PROVE p[2] \o parts[p[1]] \in Seq(S)
      OBVIOUS
    <2>1. p[2] \in Seq(S) /\ parts[p[1]] \in Seq(S)
      OBVIOUS
    <2>. QED BY <2>1, ConcatProperties
  <1>2. \A i \in 1 .. n, v \in Seq(S) : g[<<i, v>>] = v \o parts[i]
    OBVIOUS
  <1>. HIDE DEF g
  <1>3. <<>> \in Seq(S)
    OBVIOUS
  <1>4. PICK f : Recursive(f, Seq(S), <<>>, n, g)
    BY <1>1, <1>3, RecursionUpTo
  <1>5. \A i \in 1 .. n : f[i] = f[i - 1] \o parts[i]
    <2>. SUFFICES ASSUME NEW i \in 1 .. n PROVE f[i] = f[i - 1] \o parts[i]
      OBVIOUS
    <2>1. i - 1 \in 0 .. n /\ f \in [0 .. n -> Seq(S)] /\ f[i] = g[<<i, f[i - 1]>>]
      BY <1>4 DEF Recursive
    <2>2. f[i - 1] \in Seq(S)
      BY <2>1
    <2>. QED BY <1>2, <2>1, <2>2
  <1>6. f \in [0 .. n -> Seq(S)] /\ f[0] = <<>>
    BY <1>4 DEF Recursive
  <1>7. FlattenSeq(parts) = f[n]
    BY <1>5, <1>6, FlattenIs
  <1>8. Concatenations(f, parts, S, n)
    BY <1>5, <1>6, <1>7 DEF Concatenations
  <1>. QED BY <1>8

-----------------------------------------------------------------------------
(***************************************************************************)
(* Permutations and sorting.                                               *)
(***************************************************************************)
IsPermutation(idx, n) ==
    /\ idx \in [1 .. n -> 1 .. n]
    /\ \A i, j \in 1 .. n : idx[i] = idx[j] => i = j
    /\ \A r \in 1 .. n : \E i \in 1 .. n : idx[i] = r

LEMMA SizeOfInterval ==
    ASSUME NEW n \in Nat
    PROVE  IsFiniteSet(1 .. n) /\ Cardinality(1 .. n) = n
  <1>1. 1 \in Int /\ n \in Int
    OBVIOUS
  <1>2. IsFiniteSet(1 .. n) /\ Cardinality(1 .. n) = IF 1 > n THEN 0 ELSE n - 1 + 1
    BY <1>1, FS_Interval
  <1>. QED BY <1>2

LEMMA OneToOneIsPermutation ==
    ASSUME NEW n \in Nat, NEW p \in [1 .. n -> 1 .. n],
           \A i, j \in 1 .. n : p[i] = p[j] => i = j
    PROVE  IsPermutation(p, n)
  <1>1. p \in Injection(1 .. n, 1 .. n)
    BY DEF Injection, IsInjective
  <1>2. p \in Surjection(1 .. n, 1 .. n)
    BY <1>1, SizeOfInterval, FS_Injection
  <1>. QED BY <1>2 DEF Surjection, IsPermutation

LEMMA OntoIsPermutation ==
    ASSUME NEW n \in Nat, NEW p \in [1 .. n -> 1 .. n],
           \A r \in 1 .. n : \E i \in 1 .. n : p[i] = r
    PROVE  IsPermutation(p, n)
  <1>1. p \in Surjection(1 .. n, 1 .. n)
    BY DEF Surjection
  <1>2. p \in Injection(1 .. n, 1 .. n)
    BY <1>1, SizeOfInterval, FS_SurjSameCardinalityImpliesInj
  <1>. QED BY <1>2 DEF Injection, IsInjective, IsPermutation

\* An order in which elements may be equal.
WeakOrder(before, n) ==
    /\ before \subseteq Pairs(n)
    /\ \A i, j \in 1 .. n : <<i, j>> \in before => <<j, i>> \notin before
    /\ \A i, j, l \in 1 .. n :
          <<i, l>> \in before => <<i, j>> \in before \/ <<j, l>> \in before

\* The list is s in the order p, which is one of those before allows.
SortedBy(list, s, n, before, p) ==
    /\ IsPermutation(p, n)
    /\ list = [k \in 1 .. n |-> s[p[k]]]
    /\ \A k, l \in 1 .. n : k < l => <<p[l], p[k]>> \notin before

\* sorted() returns the elements of s in order.
LEMMA SortSorts ==
    ASSUME NEW n \in Nat, NEW s, Len(s) = n, NEW before, WeakOrder(before, n)
    PROVE  \E p : SortedBy(Sort(s, before), s, n, before, p)
  <1>. DEFINE Ahead(j, i) == <<j, i>> \in before \/ (<<i, j>> \notin before /\ j < i)
              ahead(i) == {j \in 1 .. n : Ahead(j, i)}
              c == [i \in 1 .. n |-> Cardinality(ahead(i)) + 1]
              p == [k \in 1 .. n |-> CHOOSE i \in 1 .. n : c[i] = k]
  <1>1. \A i, j, l \in 1 .. n : Ahead(i, j) /\ Ahead(j, l) => Ahead(i, l)
    BY DEF WeakOrder
  <1>2. \A i \in 1 .. n : ~ Ahead(i, i)
    BY DEF WeakOrder
  <1>3. \A i, j \in 1 .. n : i # j => Ahead(i, j) \/ Ahead(j, i)
    OBVIOUS
  <1>4. \A i, j \in 1 .. n : Ahead(i, j) => ~ (<<j, i>> \in before)
    BY DEF WeakOrder
  <1>. HIDE DEF Ahead
  <1>5. \A i \in 1 .. n : IsFiniteSet(ahead(i)) /\ Cardinality(ahead(i)) \in 0 .. n - 1
    <2>. SUFFICES ASSUME NEW i \in 1 .. n
         PROVE  IsFiniteSet(ahead(i)) /\ Cardinality(ahead(i)) \in 0 .. n - 1
      OBVIOUS
    <2>1. ahead(i) \in SUBSET ((1 .. n) \ {i})
      BY <1>2
    <2>2. IsFiniteSet((1 .. n) \ {i}) /\ Cardinality((1 .. n) \ {i}) = n - 1
      BY SizeOfInterval, FS_RemoveElement
    <2>. HIDE DEF ahead
    <2>3. IsFiniteSet(ahead(i)) /\ Cardinality(ahead(i)) <= n - 1
      BY <2>1, <2>2, FS_Subset
    <2>4. Cardinality(ahead(i)) \in Nat
      BY <2>3, FS_CardinalityType
    <2>. QED BY <2>3, <2>4
  <1>6. \A i, j \in 1 .. n : Ahead(i, j) => Cardinality(ahead(i)) < Cardinality(ahead(j))
    <2>. SUFFICES ASSUME NEW i \in 1 .. n, NEW j \in 1 .. n, Ahead(i, j)
         PROVE  Cardinality(ahead(i)) < Cardinality(ahead(j))
      OBVIOUS
    <2>1. ahead(i) \in SUBSET ahead(j)
      BY <1>1
    <2>2. i \in ahead(j) /\ i \notin ahead(i)
      BY <1>2
    <2>3. IsFiniteSet(ahead(j)) /\ Cardinality(ahead(i)) \in 0 .. n - 1
                                /\ Cardinality(ahead(j)) \in 0 .. n - 1
      BY <1>5
    <2>. HIDE DEF ahead
    <2>4. Cardinality(ahead(i)) <= Cardinality(ahead(j))
          /\ Cardinality(ahead(i)) # Cardinality(ahead(j))
      BY <2>1, <2>2, <2>3, FS_Subset
    <2>. QED BY <2>3, <2>4
  <1>. HIDE DEF ahead
  <1>7. c \in [1 .. n -> 1 .. n]
    BY <1>5
  <1>8. \A i, j \in 1 .. n : Ahead(i, j) => c[i] < c[j]
    BY <1>5, <1>6
  <1>9. ASSUME NEW i \in 1 .. n, NEW j \in 1 .. n, c[i] = c[j]
        PROVE  i = j
    <2>. HIDE DEF c
    <2>1. c[i] \in Int /\ c[j] \in Int
      BY <1>7
    <2>. QED BY <1>3, <1>8, <1>9, <2>1
  <1>10. IsPermutation(c, n)
    <2>. HIDE DEF c
    <2>. QED BY <1>7, <1>9, OneToOneIsPermutation
  <1>11. \A k \in 1 .. n : p[k] \in 1 .. n /\ c[p[k]] = k
    <2>. HIDE DEF c
    <2>. SUFFICES ASSUME NEW k \in 1 .. n PROVE p[k] \in 1 .. n /\ c[p[k]] = k
      OBVIOUS
    <2>1. \E i \in 1 .. n : c[i] = k
      BY <1>10 DEF IsPermutation
    <2>. QED BY <2>1
  <1>12. Sort(s, before) = <<>> \o [k \in 1 .. n |-> s[p[k]]]
    <2>1. \A k \in 1 .. n, i \in 1 .. n : c[i] = k <=> Cardinality(ahead(i)) = k - 1
      BY <1>5
    <2>. DEFINE q(k) == CHOOSE i \in 1 .. n : Cardinality(ahead(i)) = k - 1
    <2>2. \A k \in 1 .. n : p[k] = q(k)
      <3>. SUFFICES ASSUME NEW k \in 1 .. n
           PROVE (CHOOSE i \in 1 .. n : c[i] = k)
                    = CHOOSE i \in 1 .. n : Cardinality(ahead(i)) = k - 1
        OBVIOUS
      <3>. QED BY <2>1
    <2>3. Sort(s, before) = <<>> \o [k \in 1 .. n |-> s[q(k)]]
      BY DEF Sort, ahead, Ahead
    <2>. HIDE DEF p, q
    <2>4. [k \in 1 .. n |-> s[p[k]]] = [k \in 1 .. n |-> s[q(k)]]
      BY <2>2
    <2>. QED BY <2>3, <2>4
  <1>. HIDE DEF p
  <1>13. Sort(s, before) = [k \in 1 .. n |-> s[p[k]]]
    <2>. DEFINE S == {s[i] : i \in 1 .. n}
    <2>1. [k \in 1 .. n |-> s[p[k]]] \in [1 .. n -> S]
      BY <1>11
    <2>2. [k \in 1 .. n |-> s[p[k]]] \in Seq(S)
      BY <2>1, LengthOfFunction
    <2>. HIDE DEF S
    <2>. QED BY <1>12, <2>2, ConcatEmptySeq
  <1>14. p \in [1 .. n -> 1 .. n]
    BY <1>11 DEF p
  <1>15. IsPermutation(p, n)
    <2>1. \A k, l \in 1 .. n : p[k] = p[l] => k = l
      BY <1>11
    <2>. QED BY <1>14, <2>1, OneToOneIsPermutation
  <1>16. ASSUME NEW k \in 1 .. n, NEW l \in 1 .. n, k < l
         PROVE  <<p[l], p[k]>> \notin before
    <2>1. p[k] \in 1 .. n /\ p[l] \in 1 .. n /\ c[p[k]] = k /\ c[p[l]] = l
      BY <1>11
    <2>. HIDE DEF c
    <2>2. ~ Ahead(p[l], p[k])
      BY <1>8, <1>16, <2>1
    <2>3. p[k] # p[l]
      BY <1>16, <2>1
    <2>4. Ahead(p[k], p[l])
      BY <1>3, <2>1, <2>2, <2>3
    <2>. QED BY <1>4, <2>1, <2>4
  <1>. HIDE DEF c
  <1>17. SortedBy(Sort(s, before), s, n, before, p)
    BY <1>13, <1>15, <1>16 DEF SortedBy
  <1>. QED BY <1>17

-----------------------------------------------------------------------------
(***************************************************************************)
(* Lists of a set: every element once.                                     *)
(***************************************************************************)
Lists(s, T) ==
    /\ s \in Seq(T)
    /\ \A i, j \in 1 .. Len(s) : s[i] = s[j] => i = j
    /\ \A x \in T : \E i \in 1 .. Len(s) : s[i] = x

LEMMA ListsNothing == Lists(<<>>, {})
  <1>1. <<>> \in Seq({}) /\ Len(<<>>) = 0
    BY EmptySeq
  <1>. QED BY <1>1 DEF Lists

LEMMA ListsOne ==
    ASSUME NEW x
    PROVE  Lists(<<x>>, {x})
  <1>1. <<x>> \in Seq({x}) /\ Len(<<x>>) = 1 /\ <<x>>[1] = x
    OBVIOUS
  <1>. QED BY <1>1 DEF Lists

LEMMA ElementsOf ==
    ASSUME NEW s, NEW T, Lists(s, T)
    PROVE  ToSet(s) = T
  <1>1. DOMAIN s = 1 .. Len(s)
    BY LenProperties DEF Lists
  <1>2. \A i \in 1 .. Len(s) : s[i] \in T
    BY ElementOfSeq DEF Lists
  <1>. QED BY <1>1, <1>2 DEF Lists, ToSet

LEMMA ListsConcatenated ==
    ASSUME NEW s, NEW S, Lists(s, S), NEW t, NEW T, Lists(t, T), S \cap T = {}
    PROVE  Lists(s \o t, S \cup T)
  <1>1. s \in Seq(S \cup T) /\ t \in Seq(S \cup T)
    BY SeqMonotonic DEF Lists
  <1>2. Len(s) \in Nat /\ Len(t) \in Nat
    BY <1>1, LenProperties
  <1>3. /\ \A i \in 1 .. Len(s) : s[i] \in S
        /\ \A i \in 1 .. Len(t) : t[i] \in T
    BY ElementOfSeq DEF Lists
  <1>4. /\ s \o t \in Seq(S \cup T)
        /\ Len(s \o t) = Len(s) + Len(t)
        /\ \A i \in 1 .. Len(s) + Len(t) :
              (s \o t)[i] = IF i <= Len(s) THEN s[i] ELSE t[i - Len(s)]
    BY <1>1, ConcatProperties
  <1>. DEFINE u == s \o t
  <1>5. /\ \A i \in 1 .. Len(s) : i \in 1 .. Len(u) /\ u[i] = s[i]
        /\ \A i \in 1 .. Len(t) : i + Len(s) \in 1 .. Len(u) /\ u[i + Len(s)] = t[i]
    BY <1>2, <1>4
  <1>6. ASSUME NEW i \in 1 .. Len(u), NEW j \in 1 .. Len(u), u[i] = u[j]
        PROVE  i = j
    <2>. USE <1>2
    <2>1. CASE i <= Len(s) /\ j <= Len(s)
      <3>1. i \in 1 .. Len(s) /\ j \in 1 .. Len(s) /\ s[i] = s[j]
        BY <1>4, <1>6, <2>1
      <3>. QED BY <3>1 DEF Lists
    <2>2. CASE i > Len(s) /\ j > Len(s)
      <3>1. /\ i - Len(s) \in 1 .. Len(t) /\ j - Len(s) \in 1 .. Len(t)
            /\ t[i - Len(s)] = t[j - Len(s)]
        BY <1>4, <1>6, <2>2
      <3>2. i - Len(s) = j - Len(s)
        BY <3>1 DEF Lists
      <3>. QED BY <3>2
    <2>3. CASE i <= Len(s) /\ j > Len(s)
      <3>1. i \in 1 .. Len(s) /\ j - Len(s) \in 1 .. Len(t) /\ s[i] = t[j - Len(s)]
        BY <1>4, <1>6, <2>3
      <3>. QED BY <1>3, <3>1
    <2>4. CASE i > Len(s) /\ j <= Len(s)
      <3>1. j \in 1 .. Len(s) /\ i - Len(s) \in 1 .. Len(t) /\ s[j] = t[i - Len(s)]
        BY <1>4, <1>6, <2>4
      <3>. QED BY <1>3, <3>1
    <2>. QED BY <1>4, <2>1, <2>2, <2>3, <2>4
  <1>7. \A x \in S \cup T : \E i \in 1 .. Len(u) : u[i] = x
    <2>. HIDE DEF u
    <2>1. \A x \in S : \E i \in 1 .. Len(u) : u[i] = x
      BY <1>5 DEF Lists
    <2>2. ASSUME NEW x \in T
          PROVE  \E i \in 1 .. Len(u) : u[i] = x
      <3>1. PICK i \in 1 .. Len(t) : t[i] = x
        BY DEF Lists
      <3>2. i + Len(s) \in 1 .. Len(u) /\ u[i + Len(s)] = x
        BY <1>5, <3>1
      <3>. QED BY <3>2
    <2>. QED BY <2>1, <2>2
  <1>. QED BY <1>4, <1>6, <1>7 DEF Lists

\* The elements of a list in another order are a list of the same set.
LEMMA ListsPermuted ==
    ASSUME NEW s, NEW T, Lists(s, T), NEW n \in Nat, Len(s) = n,
           NEW p, IsPermutation(p, n)
    PROVE  /\ Lists([k \in 1 .. n |-> s[p[k]]], T)
           /\ Len([k \in 1 .. n |-> s[p[k]]]) = n
  <1>. DEFINE u == [k \in 1 .. n |-> s[p[k]]]
  <1>1. \A k \in 1 .. n : p[k] \in 1 .. n
    BY DEF IsPermutation
  <1>2. \A i \in 1 .. n : s[i] \in T
    BY ElementOfSeq DEF Lists
  <1>3. u \in [1 .. n -> T]
    BY <1>1, <1>2
  <1>4. u \in Seq(T) /\ Len(u) = n
    BY <1>3, LengthOfFunction
  <1>5. ASSUME NEW i \in 1 .. n, NEW j \in 1 .. n, u[i] = u[j]
        PROVE  i = j
    <2>1. s[p[i]] = s[p[j]]
      BY <1>5
    <2>2. p[i] = p[j]
      BY <1>1, <2>1 DEF Lists
    <2>. QED BY <2>2 DEF IsPermutation
  <1>6. ASSUME NEW x \in T
        PROVE  \E k \in 1 .. n : u[k] = x
    <2>1. PICK i \in 1 .. n : s[i] = x
      BY DEF Lists
    <2>2. PICK k \in 1 .. n : p[k] = i
      BY DEF IsPermutation
    <2>. QED BY <2>1, <2>2
  <1>. HIDE DEF u
  <1>7. Lists(u, T)
    BY <1>4, <1>5, <1>6 DEF Lists
  <1>. QED BY <1>4, <1>7 DEF u

LEMMA ListsSorted ==
    ASSUME NEW s, NEW T, Lists(s, T), NEW before, WeakOrder(before, Len(s))
    PROVE  Lists(Sort(s, before), T) /\ Len(Sort(s, before)) = Len(s)
  <1>1. Len(s) \in Nat
    BY LenProperties DEF Lists
  <1>2. PICK p : SortedBy(Sort(s, before), s, Len(s), before, p)
    BY <1>1, SortSorts
  <1>. QED BY <1>1, <1>2, ListsPermuted DEF SortedBy

\* A list of the first n numbers is a permutation.
LEMMA ListsInterval ==
    ASSUME NEW s, NEW n \in Nat, Lists(s, 1 .. n)
    PROVE  Len(s) = n /\ IsPermutation(s, n)
  <1>1. Len(s) \in Nat /\ s \in [1 .. Len(s) -> 1 .. n]
    BY LenProperties DEF Lists
  <1>2. s \in Injection(1 .. Len(s), 1 .. n)
    BY <1>1 DEF Lists, Injection, IsInjective
  <1>3. s \in Surjection(1 .. Len(s), 1 .. n)
    BY <1>1 DEF Lists, Surjection
  <1>4. Cardinality(1 .. Len(s)) = Cardinality(1 .. n)
    BY <1>1, <1>2, <1>3, SizeOfInterval, FS_Injection
  <1>5. Len(s) = n
    BY <1>1, <1>4, SizeOfInterval
  <1>. QED BY <1>1, <1>5 DEF Lists, IsPermutation

LEMMA PermutationLists ==
    ASSUME NEW n \in Nat, NEW p, IsPermutation(p, n)
    PROVE  Lists(p, 1 .. n) /\ Len(p) = n
  <1>1. p \in Seq(1 .. n) /\ Len(p) = n
    BY LengthOfFunction DEF IsPermutation
  <1>. QED BY <1>1 DEF IsPermutation, Lists

\* A list of as many numbers as there are, which leaves none out.
LEMMA CompleteLists ==
    ASSUME NEW n \in Nat, NEW s \in Seq(1 .. n), Len(s) = n,
           \A r \in 1 .. n : \E i \in 1 .. n : s[i] = r
    PROVE  Lists(s, 1 .. n)
  <1>1. s \in [1 .. n -> 1 .. n]
    BY LenProperties
  <1>2. IsPermutation(s, n)
    BY <1>1, OntoIsPermutation
  <1>. QED BY <1>2, PermutationLists

\* Lists of sets that have no element in common, one after the other.
UnionOf(T, n) == UNION {T[i] : i \in 1 .. n}

LEMMA ListsFlattened ==
    ASSUME NEW n \in Nat, NEW S, NEW T \in [1 .. n -> SUBSET S],
           NEW parts \in [1 .. n -> Seq(S)],
           \A i \in 1 .. n : Lists(parts[i], T[i]),
           \A i, j \in 1 .. n : i # j => T[i] \cap T[j] = {}
    PROVE  Lists(FlattenSeq(parts), UnionOf(T, n))
  <1>0. PICK f : Concatenations(f, parts, S, n)
    BY PartialConcatenations
  <1>1. /\ f \in [0 .. n -> Seq(S)]
        /\ f[0] = <<>>
        /\ \A i \in 1 .. n : f[i] = f[i - 1] \o parts[i]
        /\ FlattenSeq(parts) = f[n]
    BY <1>0 DEF Concatenations
  <1>. DEFINE U(i) == UNION {T[j] : j \in 1 .. i}
              A == {i \in 0 .. n : Lists(f[i], U(i))}
  <1>2. U(0) = {}
    OBVIOUS
  <1>3. \A i \in 0 .. n - 1 : U(i + 1) = U(i) \cup T[i + 1]
    <2>. SUFFICES ASSUME NEW i \in 0 .. n - 1 PROVE U(i + 1) = U(i) \cup T[i + 1]
      OBVIOUS
    <2>1. 1 .. i + 1 = (1 .. i) \cup {i + 1}
      OBVIOUS
    <2>. QED BY <2>1
  <1>4. \A i \in 0 .. n - 1 : U(i) \cap T[i + 1] = {}
    <2>. SUFFICES ASSUME NEW i \in 0 .. n - 1, NEW j \in 1 .. i
         PROVE  T[j] \cap T[i + 1] = {}
      OBVIOUS
    <2>1. j \in 1 .. n /\ i + 1 \in 1 .. n /\ j # i + 1
      OBVIOUS
    <2>. QED BY <2>1
  <1>. HIDE DEF U
  <1>5. 0 \in A
    <2>1. Lists(f[0], U(0))
      BY <1>1, <1>2, ListsNothing
    <2>. QED BY <2>1
  <1>6. \A i \in 0 .. n - 1 : i \in A => i + 1 \in A
    <2>. SUFFICES ASSUME NEW i \in 0 .. n - 1, Lists(f[i], U(i))
         PROVE  Lists(f[i + 1], U(i + 1))
      <3>1. \A i \in 0 .. n - 1 : i + 1 \in 0 .. n
        OBVIOUS
      <3>. QED BY <3>1, Zenon
    <2>1. i + 1 \in 1 .. n /\ (i + 1) - 1 = i
      OBVIOUS
    <2>2. f[i + 1] = f[i] \o parts[i + 1] /\ Lists(parts[i + 1], T[i + 1])
      BY <1>1, <2>1
    <2>3. U(i + 1) = U(i) \cup T[i + 1] /\ U(i) \cap T[i + 1] = {}
      BY <1>3, <1>4
    <2>4. Lists(f[i] \o parts[i + 1], U(i) \cup T[i + 1])
      BY <2>2, <2>3, ListsConcatenated
    <2>. QED BY <2>2, <2>3, <2>4
  <1>. HIDE DEF A
  <1>7. \A i \in 0 .. n : i \in A
    BY <1>5, <1>6, UpTo
  <1>8. n \in A
    BY <1>7
  <1>9. Lists(f[n], U(n))
    BY <1>8 DEF A
  <1>. QED BY <1>1, <1>9 DEF U, UnionOf

-----------------------------------------------------------------------------
(***************************************************************************)
(* Divisions: lists of rows that have no row in common.                    *)
(***************************************************************************)
IsDivision(P, T) ==
    /\ \A p \in P : Lists(p, ToSet(p)) /\ ToSet(p) # {}
    /\ \A p, q \in P : p # q => ToSet(p) \cap ToSet(q) = {}
    /\ UNION {ToSet(p) : p \in P} = T

LEMMA DivisionFlattened ==
    ASSUME NEW P, NEW T, IsDivision(P, T), NEW parts, Lists(parts, P)
    PROVE  Lists(FlattenSeq(parts), T)
  <1>. DEFINE n == Len(parts)
              U == [i \in 1 .. n |-> ToSet(parts[i])]
  <1>1. n \in Nat /\ parts \in [1 .. n -> P]
    BY LenProperties DEF Lists
  <1>. HIDE DEF n
  <1>2. \A i \in 1 .. n : U[i] \subseteq T /\ Lists(parts[i], U[i])
    BY <1>1 DEF IsDivision
  <1>3. U \in [1 .. n -> SUBSET T]
    BY <1>2
  <1>4. \A i \in 1 .. n : parts[i] \in Seq(T)
    BY <1>2, SeqMonotonic DEF Lists
  <1>5. parts \in [1 .. n -> Seq(T)]
    BY <1>1, <1>4
  <1>6. \A i, j \in 1 .. n : i # j => U[i] \cap U[j] = {}
    <2>. SUFFICES ASSUME NEW i \in 1 .. n, NEW j \in 1 .. n, i # j
         PROVE  U[i] \cap U[j] = {}
      OBVIOUS
    <2>1. parts[i] # parts[j]
      BY DEF Lists, n
    <2>. QED BY <1>1, <2>1 DEF IsDivision
  <1>7. UnionOf(U, n) = T
    <2>1. {parts[i] : i \in 1 .. n} = P
      BY <1>1 DEF Lists, n
    <2>2. {U[i] : i \in 1 .. n} = {ToSet(p) : p \in P}
      BY <2>1
    <2>. QED BY <2>2 DEF IsDivision, UnionOf
  <1>. HIDE DEF U
  <1>8. \A i \in 1 .. n : Lists(parts[i], U[i])
    BY <1>2
  <1>9. Lists(FlattenSeq(parts), UnionOf(U, n))
    BY <1>1, <1>3, <1>5, <1>6, <1>8, ListsFlattened
  <1>. QED BY <1>7, <1>9

LEMMA Times ==
    ASSUME NEW a \in Nat, NEW b \in Nat, NEW c \in Nat, a <= b
    PROVE  a * c <= b * c /\ a * c \in Nat /\ b * c \in Nat
  <1>1. b = a + (b - a) /\ b - a \in Nat
    OBVIOUS
  <1>2. PICK d \in Nat : b = a + d
    BY <1>1
  <1>3. b * c = a * c + d * c
    BY <1>2
  <1>4. d * c \in Nat /\ a * c \in Nat
    OBVIOUS
  <1>. QED BY <1>3, <1>4

\* The last part of a concatenation.
LEMMA LastPart ==
    ASSUME NEW S, NEW s \in Seq(S), NEW t \in Seq(S), Len(t) # 0
    PROVE  SubSeq(s \o t, Len(s) + 1, Len(s) + Len(t)) = t
  <1>1. Len(s) \in Nat /\ Len(t) \in Nat
    BY LenProperties
  <1>. DEFINE m == Len(s) + 1
              n == Len(s) + Len(t)
  <1>2. /\ m \in Len(s) + 1 .. Len(s) + Len(t) /\ n \in Len(s) + 1 .. Len(s) + Len(t)
        /\ m - Len(s) = 1 /\ n - Len(s) = Len(t)
    BY <1>1
  <1>. HIDE DEF m, n
  <1>3. SubSeq(s \o t, m, n) = SubSeq(t, m - Len(s), n - Len(s))
    BY <1>2, SubSeqOfConcat2
  <1>4. SubSeq(t, 1, Len(t)) = t
    BY SubSeqFull
  <1>. QED BY <1>2, <1>3, <1>4 DEF m, n

\* Parts of the same length lie one after the other.
LEMMA FirstParts ==
    ASSUME NEW S, NEW s \in Seq(S), NEW t \in Seq(S),
           NEW x \in 1 .. Len(s), NEW y \in 1 .. Len(s)
    PROVE  SubSeq(s \o t, x, y) = SubSeq(s, x, y)
  BY SubSeqOfConcat1

LEMMA EqualParts ==
    ASSUME NEW n \in Nat, NEW S, NEW parts \in [1 .. n -> Seq(S)],
           NEW l \in Nat \ {0}, \A i \in 1 .. n : Len(parts[i]) = l
    PROVE  /\ Len(FlattenSeq(parts)) = n * l
           /\ \A r \in 1 .. n :
                 SubSeq(FlattenSeq(parts), (r - 1) * l + 1, r * l) = parts[r]
  <1>0. PICK f : Concatenations(f, parts, S, n)
    BY PartialConcatenations
  <1>1. /\ f \in [0 .. n -> Seq(S)]
        /\ f[0] = <<>>
        /\ \A i \in 1 .. n : f[i] = f[i - 1] \o parts[i]
        /\ FlattenSeq(parts) = f[n]
    BY <1>0 DEF Concatenations
  <1>. DEFINE Done(i) == /\ Len(f[i]) = i * l
                         /\ \A r \in 1 .. i :
                               SubSeq(f[i], (r - 1) * l + 1, r * l) = parts[r]
              A == {i \in 0 .. n : Done(i)}
  <1>2. 0 \in A
    <2>1. Len(f[0]) = 0 * l
      BY <1>1, EmptySeq
    <2>. QED BY <2>1
  <1>3. ASSUME NEW i \in 0 .. n - 1, Done(i)
        PROVE  Done(i + 1)
    <2>1. i + 1 \in 1 .. n /\ (i + 1) - 1 = i /\ i \in Nat /\ i \in 0 .. n
      OBVIOUS
    <2>2. /\ f[i + 1] = f[i] \o parts[i + 1] /\ f[i] \in Seq(S) /\ parts[i + 1] \in Seq(S)
          /\ Len(parts[i + 1]) = l
      BY <1>1, <2>1
    <2>. DEFINE a == i * l
                b == (i + 1) * l
    <2>3. Len(f[i]) = a
      BY <1>3
    <2>4. b = a + l /\ a \in Nat
      OBVIOUS
    <2>. HIDE DEF a, b
    <2>5. Len(f[i + 1]) = b
      BY <2>2, <2>3, <2>4, ConcatProperties
    <2>6. f[i] \in Seq(S) /\ parts[i + 1] \in Seq(S)
      BY <2>2
    <2>7. ASSUME NEW r \in 1 .. i + 1
          PROVE  SubSeq(f[i + 1], (r - 1) * l + 1, r * l) = parts[r]
      <3>. DEFINE c == (r - 1) * l
                  d == r * l
      <3>1. d = c + l /\ r \in Nat /\ r - 1 \in Nat
        OBVIOUS
      <3>2. CASE r <= i
        <4>1. d <= a /\ c \in Nat /\ d \in Nat
          BY <2>1, <3>1, <3>2, Times DEF a
        <4>. HIDE DEF c, d
        <4>2. c + 1 \in 1 .. Len(f[i]) /\ d \in 1 .. Len(f[i])
          BY <2>3, <2>4, <3>1, <4>1
        <4>3. SubSeq(f[i + 1], c + 1, d) = SubSeq(f[i], c + 1, d)
          <5>1. \A x, y \in 1 .. Len(f[i]) :
                   SubSeq(f[i] \o parts[i + 1], x, y) = SubSeq(f[i], x, y)
            <6>. DEFINE s == f[i]
                        t == parts[i + 1]
            <6>1. s \in Seq(S) /\ t \in Seq(S)
              BY <2>6
            <6>. HIDE DEF s, t
            <6>2. \A x, y \in 1 .. Len(s) : SubSeq(s \o t, x, y) = SubSeq(s, x, y)
              BY <6>1, FirstParts
            <6>. QED BY <6>2 DEF s, t
          <5>. QED BY <2>2, <4>2, <5>1
        <4>4. SubSeq(f[i], c + 1, d) = parts[r]
          BY <1>3, <3>2 DEF c, d
        <4>. QED BY <4>3, <4>4 DEF c, d
      <3>3. CASE r = i + 1
        <4>1. c = a /\ d = b
          BY <2>1, <3>3 DEF a, b
        <4>2. SubSeq(f[i] \o parts[i + 1], Len(f[i]) + 1, Len(f[i]) + Len(parts[i + 1]))
                 = parts[i + 1]
          BY <2>2, <2>6, LastPart
        <4>. HIDE DEF c, d
        <4>5. SubSeq(f[i + 1], c + 1, d) = parts[i + 1]
          BY <2>2, <2>3, <2>4, <4>1, <4>2
        <4>. QED BY <3>3, <4>5 DEF c, d
      <3>. QED BY <3>2, <3>3
    <2>. QED BY <2>5, <2>7 DEF b
  <1>. HIDE DEF Done
  <1>4. \A i \in 0 .. n - 1 : i \in A => i + 1 \in A
    <2>1. \A i \in 0 .. n - 1 : i + 1 \in 0 .. n
      OBVIOUS
    <2>. QED BY <1>3, <2>1
  <1>. HIDE DEF A
  <1>5. \A i \in 0 .. n : i \in A
    BY <1>2, <1>4, UpTo
  <1>6. n \in A
    BY <1>5
  <1>. QED BY <1>1, <1>6 DEF A, Done

\* s[::2] and then s[1::2] backwards.
LEMMA SmallAtBothEndsLists ==
    ASSUME NEW s, NEW T, Lists(s, T)
    PROVE  LET u == EverySecond(s) \o Reverse(EveryOther(s))
           IN Lists(u, T) /\ Len(u) = Len(s)
  <1>. DEFINE n == Len(s)
              h == CeilDiv(n, 2)
              m == n \div 2
              p == [i \in 1 .. n |-> IF i <= h THEN 2 * i - 1 ELSE 2 * (m + 1 - (i - h))]
  <1>1. n \in Nat /\ s \in Seq(T)
    BY LenProperties DEF Lists
  <1>. HIDE DEF n
  <1>2. h \in Nat /\ m \in Nat /\ h + m = n /\ (n = 2 * m \/ n = 2 * m + 1) /\ h = n - m
    BY <1>1 DEF CeilDiv
  <1>. HIDE DEF h, m
  <1>3. p \in [1 .. n -> 1 .. n]
    BY <1>1, <1>2
  <1>4. ASSUME NEW r \in 1 .. n
        PROVE  \E i \in 1 .. n : p[i] = r
    <2>1. PICK q \in Nat : r = 2 * q \/ r = 2 * q - 1
      <3>1. r = 2 * (r \div 2) \/ r = 2 * (r \div 2 + 1) - 1
        BY <1>1
      <3>2. r \div 2 \in Nat /\ r \div 2 + 1 \in Nat
        BY <1>1
      <3>. QED BY <3>1, <3>2
    <2>2. CASE r = 2 * q - 1
      <3>1. q \in 1 .. n /\ q <= h
        BY <1>1, <1>2, <2>2
      <3>. QED BY <2>2, <3>1
    <2>3. CASE r = 2 * q
      <3>. DEFINE i == h + m + 1 - q
      <3>1. i \in 1 .. n /\ ~ (i <= h) /\ m + 1 - (i - h) = q
        BY <1>1, <1>2, <2>3
      <3>. HIDE DEF i
      <3>2. p[i] = 2 * q
        BY <3>1
      <3>. QED BY <2>3, <3>1, <3>2
    <2>. QED BY <2>1, <2>2, <2>3
  <1>5. IsPermutation(p, n)
    <2>. HIDE DEF p
    <2>. QED BY <1>1, <1>3, <1>4, OntoIsPermutation
  <1>6. /\ EverySecond(s) = [i \in 1 .. h |-> s[2 * i - 1]]
        /\ EveryOther(s) = [i \in 1 .. m |-> s[2 * i]]
    BY DEF EverySecond, EveryOther, h, m, n
  <1>7. \A i \in 1 .. n : s[i] \in T
    BY <1>1, ElementOfSeq DEF n
  <1>8. /\ \A i \in 1 .. h : 2 * i - 1 \in 1 .. n
        /\ \A i \in 1 .. m : 2 * i \in 1 .. n
    BY <1>1, <1>2
  <1>9. EverySecond(s) \in Seq(T) /\ Len(EverySecond(s)) = h
    <2>1. [i \in 1 .. h |-> s[2 * i - 1]] \in [1 .. h -> T]
      BY <1>7, <1>8
    <2>. QED BY <1>2, <1>6, <2>1, LengthOfFunction
  <1>10. Len(EveryOther(s)) = m
    BY <1>2, <1>6, <1>7, <1>8, LengthOfFunction
  <1>11. Reverse(EveryOther(s)) = [i \in 1 .. m |-> EveryOther(s)[m - i + 1]]
    BY <1>10 DEF Reverse
  <1>12. \A i \in 1 .. m : m - i + 1 \in 1 .. m
    BY <1>2
  <1>13. Reverse(EveryOther(s)) = [i \in 1 .. m |-> s[2 * (m - i + 1)]]
    BY <1>6, <1>11, <1>12
  <1>14. Reverse(EveryOther(s)) \in Seq(T) /\ Len(Reverse(EveryOther(s))) = m
    BY <1>2, <1>7, <1>8, <1>12, <1>13, LengthOfFunction
  <1>. DEFINE u == EverySecond(s) \o Reverse(EveryOther(s))
  <1>15. /\ u \in Seq(T) /\ Len(u) = n
         /\ \A i \in 1 .. n : u[i] = IF i <= h THEN EverySecond(s)[i]
                                     ELSE Reverse(EveryOther(s))[i - h]
    BY <1>2, <1>9, <1>14, ConcatProperties
  <1>16. ASSUME NEW i \in 1 .. n
         PROVE  u[i] = s[p[i]]
    <2>1. CASE i <= h
      <3>1. i \in 1 .. h
        BY <1>1, <2>1
      <3>. QED BY <1>6, <1>15, <2>1, <3>1
    <2>2. CASE ~ (i <= h)
      <3>1. i - h \in 1 .. m
        BY <1>1, <1>2, <2>2
      <3>2. u[i] = s[2 * (m - (i - h) + 1)]
        BY <1>13, <1>15, <2>2, <3>1
      <3>3. m - (i - h) + 1 = m + 1 - (i - h)
        BY <1>1, <1>2
      <3>. QED BY <2>2, <3>2, <3>3
    <2>. QED BY <2>1, <2>2
  <1>. HIDE DEF p
  <1>17. u \in [1 .. n -> T]
    <2>. HIDE DEF u
    <2>. QED BY <1>15, LenProperties
  <1>18. u = [i \in 1 .. n |-> s[p[i]]]
    <2>. HIDE DEF u
    <2>. QED BY <1>16, <1>17
  <1>. HIDE DEF u
  <1>19. Lists(u, T) /\ Len(u) = n
    <2>1. Len(s) = n
      BY DEF n
    <2>. QED BY <1>1, <1>5, <1>18, <2>1, ListsPermuted
  <1>. QED BY <1>19 DEF u, n

\* s[::2] backwards and then s[1::2].
LEMMA SmallestAtBothEndsLists ==
    ASSUME NEW s, NEW T, Lists(s, T)
    PROVE  LET u == Reverse(EverySecond(s)) \o EveryOther(s)
           IN Lists(u, T) /\ Len(u) = Len(s)
  <1>. DEFINE n == Len(s)
              h == CeilDiv(n, 2)
              m == n \div 2
              p == [i \in 1 .. n |-> IF i <= h THEN 2 * (h - i + 1) - 1 ELSE 2 * (i - h)]
  <1>1. n \in Nat /\ s \in Seq(T)
    BY LenProperties DEF Lists
  <1>. HIDE DEF n
  <1>2. h \in Nat /\ m \in Nat /\ h + m = n /\ (n = 2 * m \/ n = 2 * m + 1) /\ h = n - m
    BY <1>1 DEF CeilDiv
  <1>. HIDE DEF h, m
  <1>3. p \in [1 .. n -> 1 .. n]
    BY <1>1, <1>2
  <1>4. ASSUME NEW r \in 1 .. n
        PROVE  \E i \in 1 .. n : p[i] = r
    <2>1. PICK q \in Nat : r = 2 * q \/ r = 2 * q - 1
      <3>1. r = 2 * (r \div 2) \/ r = 2 * (r \div 2 + 1) - 1
        BY <1>1
      <3>2. r \div 2 \in Nat /\ r \div 2 + 1 \in Nat
        BY <1>1
      <3>. QED BY <3>1, <3>2
    <2>2. CASE r = 2 * q - 1
      <3>. DEFINE i == h + 1 - q
      <3>1. i \in 1 .. n /\ i <= h /\ 2 * (h - i + 1) - 1 = 2 * q - 1
        BY <1>1, <1>2, <2>2
      <3>. HIDE DEF i
      <3>2. p[i] = 2 * q - 1
        BY <3>1
      <3>. QED BY <2>2, <3>1, <3>2
    <2>3. CASE r = 2 * q
      <3>. DEFINE i == h + q
      <3>1. i \in 1 .. n /\ ~ (i <= h) /\ i - h = q
        BY <1>1, <1>2, <2>3
      <3>. HIDE DEF i
      <3>2. p[i] = 2 * q
        BY <3>1
      <3>. QED BY <2>3, <3>1, <3>2
    <2>. QED BY <2>1, <2>2, <2>3
  <1>5. IsPermutation(p, n)
    <2>. HIDE DEF p
    <2>. QED BY <1>1, <1>3, <1>4, OntoIsPermutation
  <1>6. /\ EverySecond(s) = [i \in 1 .. h |-> s[2 * i - 1]]
        /\ EveryOther(s) = [i \in 1 .. m |-> s[2 * i]]
    BY DEF EverySecond, EveryOther, h, m, n
  <1>7. \A i \in 1 .. n : s[i] \in T
    BY <1>1, ElementOfSeq DEF n
  <1>8. /\ \A i \in 1 .. h : 2 * i - 1 \in 1 .. n
        /\ \A i \in 1 .. m : 2 * i \in 1 .. n
    BY <1>1, <1>2
  <1>9. EveryOther(s) \in Seq(T) /\ Len(EveryOther(s)) = m
    BY <1>2, <1>6, <1>7, <1>8, LengthOfFunction
  <1>10. Len(EverySecond(s)) = h
    <2>1. [i \in 1 .. h |-> s[2 * i - 1]] \in [1 .. h -> T]
      BY <1>7, <1>8
    <2>. QED BY <1>2, <1>6, <2>1, LengthOfFunction
  <1>11. Reverse(EverySecond(s)) = [i \in 1 .. h |-> EverySecond(s)[h - i + 1]]
    BY <1>10 DEF Reverse
  <1>12. \A i \in 1 .. h : h - i + 1 \in 1 .. h
    <2>1. h \in Nat
      BY <1>2
    <2>. QED BY <2>1
  <1>13. Reverse(EverySecond(s)) = [i \in 1 .. h |-> s[2 * (h - i + 1) - 1]]
    BY <1>6, <1>11, <1>12
  <1>14. Reverse(EverySecond(s)) \in Seq(T) /\ Len(Reverse(EverySecond(s))) = h
    <2>1. [i \in 1 .. h |-> s[2 * (h - i + 1) - 1]] \in [1 .. h -> T]
      BY <1>7, <1>8, <1>12
    <2>. QED BY <1>2, <1>13, <2>1, LengthOfFunction
  <1>. DEFINE u == Reverse(EverySecond(s)) \o EveryOther(s)
  <1>15. /\ u \in Seq(T) /\ Len(u) = n
         /\ \A i \in 1 .. n : u[i] = IF i <= h THEN Reverse(EverySecond(s))[i]
                                     ELSE EveryOther(s)[i - h]
    BY <1>2, <1>9, <1>14, ConcatProperties
  <1>16. ASSUME NEW i \in 1 .. n
         PROVE  u[i] = s[p[i]]
    <2>1. CASE i <= h
      <3>1. i \in 1 .. h
        BY <1>1, <2>1
      <3>. QED BY <1>13, <1>15, <2>1, <3>1
    <2>2. CASE ~ (i <= h)
      <3>1. i - h \in 1 .. m
        BY <1>1, <1>2, <2>2
      <3>. QED BY <1>6, <1>15, <2>2, <3>1
    <2>. QED BY <2>1, <2>2
  <1>. HIDE DEF p
  <1>17. u \in [1 .. n -> T]
    <2>. HIDE DEF u
    <2>. QED BY <1>15, LenProperties
  <1>18. u = [i \in 1 .. n |-> s[p[i]]]
    <2>. HIDE DEF u
    <2>. QED BY <1>16, <1>17
  <1>. HIDE DEF u
  <1>19. Lists(u, T) /\ Len(u) = n
    <2>1. Len(s) = n
      BY DEF n
    <2>. QED BY <1>1, <1>5, <1>18, <2>1, ListsPermuted
  <1>. QED BY <1>19 DEF u, n

-----------------------------------------------------------------------------
(***************************************************************************)
(* The workload of a set of rows.                                          *)
(***************************************************************************)
Weight(work, S) == TotalOf([i \in 1 .. Len(work) |-> IF i \in S THEN work[i] ELSE 0])

\* The partial sums of the rows of S.
PartOf(work, S, n, f) ==
    /\ f \in [0 .. n -> Nat] /\ f[0] = 0
    /\ \A i \in 1 .. n : f[i] = f[i - 1] + IF i \in S THEN work[i] ELSE 0

LEMMA WeightIs ==
    ASSUME NEW n \in Nat, NEW work \in [1 .. n -> Nat], NEW S, NEW f,
           PartOf(work, S, n, f)
    PROVE  Weight(work, S) = f[n] /\ Weight(work, S) \in Nat
  <1>. DEFINE s == [i \in 1 .. n |-> IF i \in S THEN work[i] ELSE 0]
  <1>1. Len(work) = n
    BY LengthOfFunction
  <1>2. s \in [1 .. n -> Nat]
    OBVIOUS
  <1>3. Len(s) = n
    BY <1>2, LengthOfFunction
  <1>4. \A i \in 1 .. n : f[i] = f[i - 1] + s[i]
    BY DEF PartOf
  <1>5. f \in [0 .. n -> Int] /\ f[0] = 0 /\ f[n] \in Nat
    BY DEF PartOf
  <1>6. Weight(work, S) = TotalOf(s)
    BY <1>1 DEF Weight
  <1>. HIDE DEF s
  <1>7. TotalOf(s) = f[n]
    BY <1>3, <1>4, <1>5, TotalIs
  <1>. QED BY <1>5, <1>6, <1>7

LEMMA PartExists ==
    ASSUME NEW n \in Nat, NEW work \in [1 .. n -> Nat], NEW S
    PROVE  \E f : PartOf(work, S, n, f)
  <1>. DEFINE s == [i \in 1 .. n |-> IF i \in S THEN work[i] ELSE 0]
  <1>1. s \in [1 .. n -> Nat]
    OBVIOUS
  <1>2. \A i \in 1 .. n : s[i] = IF i \in S THEN work[i] ELSE 0
    OBVIOUS
  <1>. HIDE DEF s
  <1>3. PICK f \in [0 .. n -> Nat] : /\ f[0] = 0
                                     /\ \A i \in 1 .. n : f[i] = f[i - 1] + s[i]
    BY <1>1, PartialSums
  <1>4. PartOf(work, S, n, f)
    BY <1>2, <1>3 DEF PartOf
  <1>. QED BY <1>4

LEMMA WeightType ==
    ASSUME NEW n \in Nat, NEW work \in [1 .. n -> Nat], NEW S
    PROVE  Weight(work, S) \in Nat
  BY PartExists, WeightIs

LEMMA WeightOfNone ==
    ASSUME NEW n \in Nat, NEW work \in [1 .. n -> Nat]
    PROVE  Weight(work, {}) = 0
  <1>. DEFINE f == [i \in 0 .. n |-> 0]
  <1>1. PartOf(work, {}, n, f)
    BY DEF PartOf
  <1>2. f[n] = 0
    OBVIOUS
  <1>. HIDE DEF f
  <1>. QED BY <1>1, <1>2, WeightIs

LEMMA WeightOfOne ==
    ASSUME NEW n \in Nat, NEW work \in [1 .. n -> Nat], NEW r \in 1 .. n
    PROVE  Weight(work, {r}) = work[r]
  <1>. DEFINE f == [i \in 0 .. n |-> IF i < r THEN 0 ELSE work[r]]
  <1>1. f \in [0 .. n -> Nat] /\ f[0] = 0 /\ f[n] = work[r]
    OBVIOUS
  <1>2. ASSUME NEW i \in 1 .. n
        PROVE  f[i] = f[i - 1] + IF i \in {r} THEN work[i] ELSE 0
    <2>1. i \in 0 .. n /\ i - 1 \in 0 .. n /\ work[r] \in Nat
      OBVIOUS
    <2>2. CASE i < r
      BY <2>1, <2>2
    <2>3. CASE i = r
      BY <2>1, <2>3
    <2>4. CASE i > r
      BY <2>1, <2>4
    <2>. QED BY <2>2, <2>3, <2>4
  <1>. HIDE DEF f
  <1>3. PartOf(work, {r}, n, f)
    BY <1>1, <1>2 DEF PartOf
  <1>. QED BY <1>1, <1>3, WeightIs

LEMMA WeightAdds ==
    ASSUME NEW n \in Nat, NEW work \in [1 .. n -> Nat], NEW S, NEW T, S \cap T = {}
    PROVE  Weight(work, S \cup T) = Weight(work, S) + Weight(work, T)
  <1>1. PICK f : PartOf(work, S, n, f)
    BY PartExists
  <1>2. PICK g : PartOf(work, T, n, g)
    BY PartExists
  <1>. DEFINE h == [i \in 0 .. n |-> f[i] + g[i]]
  <1>3. /\ f \in [0 .. n -> Nat] /\ f[0] = 0 /\ g \in [0 .. n -> Nat] /\ g[0] = 0
    BY <1>1, <1>2 DEF PartOf
  <1>4. h \in [0 .. n -> Nat] /\ h[0] = 0 /\ h[n] = f[n] + g[n]
    BY <1>3
  <1>5. ASSUME NEW i \in 1 .. n
        PROVE  h[i] = h[i - 1] + IF i \in S \cup T THEN work[i] ELSE 0
    <2>1. i \in 0 .. n /\ i - 1 \in 0 .. n
      OBVIOUS
    <2>2. h[i] = f[i] + g[i] /\ h[i - 1] = f[i - 1] + g[i - 1]
      BY <2>1
    <2>3. f[i] = f[i - 1] + IF i \in S THEN work[i] ELSE 0
      BY <1>1 DEF PartOf
    <2>4. g[i] = g[i - 1] + IF i \in T THEN work[i] ELSE 0
      BY <1>2 DEF PartOf
    <2>5. f[i - 1] \in Nat /\ g[i - 1] \in Nat /\ work[i] \in Nat
      BY <1>3, <2>1
    <2>. HIDE DEF h
    <2>6. CASE i \in S
      <3>1. f[i] = f[i - 1] + work[i] /\ g[i] = g[i - 1]
        BY <2>3, <2>4, <2>5, <2>6
      <3>. QED BY <2>2, <2>5, <2>6, <3>1
    <2>7. CASE i \in T
      <3>1. f[i] = f[i - 1] /\ g[i] = g[i - 1] + work[i]
        BY <2>3, <2>4, <2>5, <2>7
      <3>. QED BY <2>2, <2>5, <2>7, <3>1
    <2>8. CASE i \notin S \cup T
      <3>1. f[i] = f[i - 1] /\ g[i] = g[i - 1]
        BY <2>3, <2>4, <2>5, <2>8
      <3>. QED BY <2>2, <2>5, <2>8, <3>1
    <2>. QED BY <2>6, <2>7, <2>8
  <1>. HIDE DEF h
  <1>6. PartOf(work, S \cup T, n, h)
    BY <1>4, <1>5 DEF PartOf
  <1>. QED BY <1>1, <1>2, <1>4, <1>6, WeightIs

\* Of rows that have work to do, only none at all have none.
LEMMA WeightPositive ==
    ASSUME NEW n \in Nat, NEW work \in [1 .. n -> Nat \ {0}], NEW S \in SUBSET (1 .. n)
    PROVE  Weight(work, S) > 0 <=> S # {}
  <1>1. work \in [1 .. n -> Nat]
    OBVIOUS
  <1>2. CASE S = {}
    <2>1. Weight(work, S) = 0
      BY <1>1, <1>2, WeightOfNone
    <2>. QED BY <1>2, <2>1
  <1>3. CASE S # {}
    <2>1. PICK r \in S : TRUE
      BY <1>3
    <2>2. S = {r} \cup (S \ {r}) /\ {r} \cap (S \ {r}) = {} /\ r \in 1 .. n
      BY <2>1
    <2>3. Weight(work, {r} \cup (S \ {r})) = Weight(work, {r}) + Weight(work, S \ {r})
      BY <1>1, <2>2, WeightAdds
    <2>4. Weight(work, {r}) = work[r] /\ Weight(work, S \ {r}) \in Nat
      BY <1>1, <2>2, WeightOfOne, WeightType
    <2>5. work[r] \in Nat \ {0}
      BY <2>2
    <2>6. Weight(work, S) = work[r] + Weight(work, S \ {r})
      BY <2>2, <2>3, <2>4
    <2>. QED BY <1>3, <2>4, <2>5, <2>6
  <1>. QED BY <1>2, <1>3

LEMMA SumIsWeight ==
    ASSUME NEW work, NEW part
    PROVE  SumOver(work, part) = Weight(work, ToSet(part))
  BY DEF SumOver, Weight

-----------------------------------------------------------------------------
(***************************************************************************)
(* The orders of karmarkar_karp: of sets and of states.                    *)
(***************************************************************************)
SomeSet == [sum : Nat, items : Seq(Nat)]

LEMMA FirstDifference ==
    ASSUME NEW n \in Nat, NEW a \in [1 .. n -> Nat], NEW b \in [1 .. n -> Nat], a # b
    PROVE  \E m \in 1 .. n : a[m] # b[m] /\ \A j \in 1 .. m - 1 : a[j] = b[j]
  <1>. DEFINE D == {i \in 1 .. n : a[i] # b[i]}
  <1>1. D # {} /\ D \subseteq Nat
    OBVIOUS
  <1>2. PICK m \in D : \A i \in D : m <= i
    BY <1>1, LeastNatural
  <1>3. ASSUME NEW j \in 1 .. m - 1
        PROVE  a[j] = b[j]
    <2>1. j \in 1 .. n /\ ~ (m <= j)
      OBVIOUS
    <2>2. j \notin D
      BY <1>2, <2>1
    <2>. QED BY <2>1, <2>2
  <1>. QED BY <1>3

LEMMA ItemsInOrder ==
    ASSUME NEW n \in Nat,
           NEW a \in [1 .. n -> Nat], NEW b \in [1 .. n -> Nat], NEW c \in [1 .. n -> Nat]
    PROVE  /\ ItemsBefore(a, b) => ~ ItemsBefore(b, a)
           /\ a # b => ItemsBefore(a, b) \/ ItemsBefore(b, a)
           /\ ItemsBefore(a, c) => ItemsBefore(a, b) \/ ItemsBefore(b, c)
  <1>1. Len(a) = n /\ Len(b) = n /\ Len(c) = n
    BY LengthOfFunction
  <1>2. \A i \in 1 .. n : a[i] \in Nat /\ b[i] \in Nat /\ c[i] \in Nat
    OBVIOUS
  <1>3. ItemsBefore(a, b) => ~ ItemsBefore(b, a)
    <2>. SUFFICES ASSUME NEW i \in 1 .. n, a[i] < b[i], \A j \in 1 .. i - 1 : a[j] = b[j],
                         NEW l \in 1 .. n, b[l] < a[l], \A j \in 1 .. l - 1 : b[j] = a[j]
         PROVE  FALSE
      BY <1>1 DEF ItemsBefore
    <2>1. CASE i < l
      BY <1>2, <2>1
    <2>2. CASE l < i
      BY <1>2, <2>2
    <2>3. CASE i = l
      BY <1>2, <2>3
    <2>. QED BY <2>1, <2>2, <2>3
  <1>4. a # b => ItemsBefore(a, b) \/ ItemsBefore(b, a)
    <2>. SUFFICES ASSUME a # b PROVE ItemsBefore(a, b) \/ ItemsBefore(b, a)
      OBVIOUS
    <2>1. PICK m \in 1 .. n : a[m] # b[m] /\ \A j \in 1 .. m - 1 : a[j] = b[j]
      BY FirstDifference
    <2>2. a[m] < b[m] \/ b[m] < a[m]
      BY <1>2, <2>1
    <2>. QED BY <1>1, <2>1, <2>2 DEF ItemsBefore
  <1>5. ItemsBefore(a, c) => ItemsBefore(a, b) \/ ItemsBefore(b, c)
    <2>. SUFFICES ASSUME NEW i \in 1 .. n, a[i] < c[i], \A j \in 1 .. i - 1 : a[j] = c[j],
                         a # b
         PROVE  ItemsBefore(a, b) \/ ItemsBefore(b, c)
      BY <1>1 DEF ItemsBefore
    <2>1. PICK m \in 1 .. n : a[m] # b[m] /\ \A j \in 1 .. m - 1 : a[j] = b[j]
      BY FirstDifference
    <2>2. CASE a[m] < b[m]
      BY <1>1, <2>1, <2>2 DEF ItemsBefore
    <2>3. CASE b[m] < a[m] /\ m < i
      <3>1. b[m] < c[m] /\ \A j \in 1 .. m - 1 : b[j] = c[j]
        BY <1>2, <2>1, <2>3
      <3>. QED BY <1>1, <3>1 DEF ItemsBefore
    <2>4. CASE b[m] < a[m] /\ m >= i
      <3>1. \A j \in 1 .. i - 1 : b[j] = c[j]
        BY <1>2, <2>1, <2>4
      <3>2. b[i] < c[i]
        <4>1. CASE m = i
          BY <1>2, <2>4, <4>1
        <4>2. CASE m > i
          BY <1>2, <2>1, <4>2
        <4>. QED BY <2>4, <4>1, <4>2
      <3>. QED BY <1>1, <3>1, <3>2 DEF ItemsBefore
    <2>5. a[m] < b[m] \/ b[m] < a[m]
      <3>1. a[m] \in Nat /\ b[m] \in Nat
        BY <1>2
      <3>. QED BY <2>1, <3>1
    <2>6. m < i \/ m >= i
      OBVIOUS
    <2>. QED BY <2>2, <2>3, <2>4, <2>5, <2>6
  <1>. QED BY <1>3, <1>4, <1>5

LEMMA SetsInOrder ==
    ASSUME NEW a \in SomeSet, NEW b \in SomeSet, NEW c \in SomeSet
    PROVE  /\ SetBefore(a, b) => ~ SetBefore(b, a)
           /\ a.items # b.items => SetBefore(a, b) \/ SetBefore(b, a)
           /\ SetBefore(a, c) => SetBefore(a, b) \/ SetBefore(b, c)
  <1>1. /\ a.sum \in Nat /\ b.sum \in Nat /\ c.sum \in Nat
        /\ Len(a.items) \in Nat /\ Len(b.items) \in Nat /\ Len(c.items) \in Nat
        /\ a.items \in [1 .. Len(a.items) -> Nat] /\ b.items \in [1 .. Len(b.items) -> Nat]
        /\ c.items \in [1 .. Len(c.items) -> Nat]
    BY LenProperties DEF SomeSet
  <1>2. Len(a.items) = Len(b.items) =>
           /\ ItemsBefore(a.items, b.items) => ~ ItemsBefore(b.items, a.items)
           /\ a.items # b.items =>
                 ItemsBefore(a.items, b.items) \/ ItemsBefore(b.items, a.items)
    BY <1>1, ItemsInOrder
  <1>3. (Len(a.items) = Len(b.items) /\ Len(b.items) = Len(c.items)) =>
           (ItemsBefore(a.items, c.items) =>
              ItemsBefore(a.items, b.items) \/ ItemsBefore(b.items, c.items))
    BY <1>1, ItemsInOrder
  <1>4. SetBefore(a, b) => ~ SetBefore(b, a)
    BY <1>1, <1>2 DEF SetBefore
  <1>5. a.items # b.items => SetBefore(a, b) \/ SetBefore(b, a)
    BY <1>1, <1>2 DEF SetBefore
  <1>6. SetBefore(a, c) => SetBefore(a, b) \/ SetBefore(b, c)
    BY <1>1, <1>3 DEF SetBefore
  <1>. QED BY <1>4, <1>5, <1>6

\* k sets with totals in decreasing order, as State keeps them.
IsState(s, k) ==
    /\ s \in [1 .. k -> SomeSet]
    /\ \A i, j \in 1 .. k : i <= j => s[i].sum >= s[j].sum

\* The sets of a state are put in order, and none is lost.
LEMMA DecreasingIs ==
    ASSUME NEW k \in Nat, NEW sets \in [1 .. k -> SomeSet]
    PROVE  /\ IsState(Decreasing(sets), k)
           /\ \E p : /\ IsPermutation(p, k)
                     /\ Decreasing(sets) = [i \in 1 .. k |-> sets[p[i]]]
  <1>. DEFINE before == {p \in Pairs(k) : SetBefore(sets[p[2]], sets[p[1]])}
  <1>1. Len(sets) = k
    BY LengthOfFunction
  <1>2. \A i, j \in 1 .. k : <<i, j>> \in before <=> SetBefore(sets[j], sets[i])
    BY DEF Pairs
  <1>3. before \subseteq Pairs(k)
    OBVIOUS
  <1>4. Decreasing(sets) = Sort(sets, before)
    BY <1>1 DEF Decreasing
  <1>. HIDE DEF before
  <1>5. WeakOrder(before, k)
    <2>1. ASSUME NEW i \in 1 .. k, NEW j \in 1 .. k, <<i, j>> \in before
          PROVE  <<j, i>> \notin before
      BY <1>2, <2>1, SetsInOrder
    <2>2. ASSUME NEW i \in 1 .. k, NEW j \in 1 .. k, NEW l \in 1 .. k, <<i, l>> \in before
          PROVE  <<i, j>> \in before \/ <<j, l>> \in before
      <3>1. sets[i] \in SomeSet /\ sets[j] \in SomeSet /\ sets[l] \in SomeSet
        OBVIOUS
      <3>2. SetBefore(sets[l], sets[i])
        BY <1>2, <2>2
      <3>3. SetBefore(sets[l], sets[j]) \/ SetBefore(sets[j], sets[i])
        BY <3>1, <3>2, SetsInOrder
      <3>. QED BY <1>2, <3>3
    <2>. QED BY <1>3, <2>1, <2>2 DEF WeakOrder
  <1>6. PICK p : SortedBy(Sort(sets, before), sets, k, before, p)
    BY <1>1, <1>5, SortSorts
  <1>7. /\ IsPermutation(p, k)
        /\ Decreasing(sets) = [i \in 1 .. k |-> sets[p[i]]]
        /\ \A i, j \in 1 .. k : i < j => <<p[j], p[i]>> \notin before
    BY <1>4, <1>6 DEF SortedBy
  <1>8. \A i \in 1 .. k : p[i] \in 1 .. k
    BY <1>7 DEF IsPermutation
  <1>9. Decreasing(sets) \in [1 .. k -> SomeSet]
    BY <1>7, <1>8
  <1>10. ASSUME NEW i \in 1 .. k, NEW j \in 1 .. k, i <= j
         PROVE  Decreasing(sets)[i].sum >= Decreasing(sets)[j].sum
    <2>1. /\ Decreasing(sets)[i] = sets[p[i]] /\ Decreasing(sets)[j] = sets[p[j]]
          /\ sets[p[i]].sum \in Nat /\ sets[p[j]].sum \in Nat
      BY <1>7, <1>8 DEF SomeSet
    <2>2. CASE i = j
      BY <2>1, <2>2
    <2>3. CASE i < j
      <3>1. ~ SetBefore(sets[p[i]], sets[p[j]])
        BY <1>2, <1>7, <1>8, <2>3
      <3>. QED BY <2>1, <3>1 DEF SetBefore
    <2>. QED BY <1>10, <2>2, <2>3
  <1>. QED BY <1>7, <1>9, <1>10 DEF IsState

\* A finite set whose elements are ordered has a first one.
IsFirst(s, H, R) == s \in H /\ \A t \in H \ {s} : <<s, t>> \in R

LEMMA FirstOfFinite ==
    ASSUME NEW H, IsFiniteSet(H), H # {}, NEW R,
           \A s \in H : <<s, s>> \notin R,
           \A s, t, u \in H : <<s, t>> \in R /\ <<t, u>> \in R => <<s, u>> \in R,
           \A s, t \in H : s # t => <<s, t>> \in R \/ <<t, s>> \in R
    PROVE  \E s : IsFirst(s, H, R)
  <1>. DEFINE before(s) == {t \in H : <<t, s>> \in R}
              C == {Cardinality(before(s)) : s \in H}
  <1>1. \A s \in H : before(s) \in SUBSET H /\ IsFiniteSet(before(s))
                     /\ Cardinality(before(s)) \in Nat
    <2>. SUFFICES ASSUME NEW s \in H
         PROVE  IsFiniteSet(before(s)) /\ Cardinality(before(s)) \in Nat
      OBVIOUS
    <2>1. before(s) \in SUBSET H
      OBVIOUS
    <2>. HIDE DEF before
    <2>. QED BY <2>1, FS_Subset, FS_CardinalityType
  <1>2. C \subseteq Nat /\ C # {}
    <2>. HIDE DEF before
    <2>. QED BY <1>1
  <1>3. PICK m \in C : \A x \in C : m <= x
    BY <1>2, LeastNatural
  <1>4. PICK s \in H : m = Cardinality(before(s))
    OBVIOUS
  <1>5. ASSUME NEW t \in H \ {s}, <<s, t>> \notin R
        PROVE  FALSE
    <2>1. <<t, s>> \in R
      BY <1>5
    <2>2. before(t) \in SUBSET before(s)
      BY <2>1
    <2>3. t \in before(s) /\ t \notin before(t)
      BY <2>1
    <2>. HIDE DEF before
    <2>4. m <= Cardinality(before(t))
      <3>1. Cardinality(before(t)) \in C
        OBVIOUS
      <3>. QED BY <1>3, <3>1
    <2>5. /\ Cardinality(before(t)) <= Cardinality(before(s))
          /\ Cardinality(before(t)) # Cardinality(before(s))
      BY <1>1, <2>2, <2>3, FS_Subset
    <2>6. Cardinality(before(t)) \in Nat /\ Cardinality(before(s)) \in Nat
      BY <1>1
    <2>. QED BY <1>4, <2>4, <2>5, <2>6
  <1>6. IsFirst(s, H, R)
    BY <1>5 DEF IsFirst
  <1>. QED BY <1>6

\* The heap always has a first state.
LEMMA FirstStateExists ==
    ASSUME NEW k \in Nat \ {0}, NEW H, IsFiniteSet(H), H # {},
           \A s \in H : IsState(s, k),
           \A s, t \in H : s # t => s[1].items # t[1].items
    PROVE  FirstState(H) \in H
  <1>. DEFINE R == {p \in H \X H : StateBefore(p[1], p[2])}
  <1>1. \A s, t \in H : <<s, t>> \in R <=> StateBefore(s, t)
    OBVIOUS
  <1>2. \A s \in H : Spread(s) \in Int /\ s[1] \in SomeSet
    <2>. SUFFICES ASSUME NEW s \in H PROVE Spread(s) \in Int /\ s[1] \in SomeSet
      OBVIOUS
    <2>1. s \in [1 .. k -> SomeSet] /\ 1 \in 1 .. k /\ k \in 1 .. k
      BY DEF IsState
    <2>2. Len(s) = k
      BY <2>1, LengthOfFunction
    <2>3. s[1] \in SomeSet /\ s[k] \in SomeSet
      BY <2>1
    <2>4. s[1].sum \in Nat /\ s[k].sum \in Nat
      BY <2>3 DEF SomeSet
    <2>. QED BY <2>2, <2>3, <2>4 DEF Spread
  <1>. HIDE DEF R
  <1>3. ASSUME NEW s \in H
        PROVE  <<s, s>> \notin R
    BY <1>1, <1>2, SetsInOrder DEF StateBefore
  <1>4. ASSUME NEW s \in H, NEW t \in H, NEW u \in H, <<s, t>> \in R, <<t, u>> \in R
        PROVE  <<s, u>> \in R
    <2>1. StateBefore(s, t) /\ StateBefore(t, u)
      BY <1>1, <1>4
    <2>2. /\ Spread(s) \in Int /\ Spread(t) \in Int /\ Spread(u) \in Int
          /\ s[1] \in SomeSet /\ t[1] \in SomeSet /\ u[1] \in SomeSet
      BY <1>2
    <2>3. SetBefore(t[1], s[1]) /\ SetBefore(u[1], t[1]) => SetBefore(u[1], s[1])
      BY <2>2, SetsInOrder
    <2>4. StateBefore(s, u)
      BY <2>1, <2>2, <2>3 DEF StateBefore
    <2>. QED BY <1>1, <2>4
  <1>5. ASSUME NEW s \in H, NEW t \in H, s # t
        PROVE  <<s, t>> \in R \/ <<t, s>> \in R
    <2>1. SetBefore(t[1], s[1]) \/ SetBefore(s[1], t[1])
      BY <1>2, <1>5, SetsInOrder
    <2>2. Spread(s) \in Int /\ Spread(t) \in Int
      BY <1>2
    <2>3. StateBefore(s, t) \/ StateBefore(t, s)
      BY <2>1, <2>2 DEF StateBefore
    <2>. QED BY <1>1, <2>3
  <1>6. PICK s : IsFirst(s, H, R)
    BY <1>3, <1>4, <1>5, FirstOfFinite, Zenon
  <1>7. s \in H /\ \A t \in H \ {s} : StateBefore(s, t)
    BY <1>1, <1>6 DEF IsFirst
  <1>. QED BY <1>7 DEF FirstState

LargerOf(a, b) == IF a >= b THEN a ELSE b

\* The merge of the differencing method: the totals of the merged sets are no
\* further apart than those of one of the two states were.
THEOREM MergeKeepsSpread ==
    ASSUME NEW k \in Nat \ {0}, NEW s, NEW t, IsState(s, k), IsState(t, k)
    PROVE  \A i, j \in 1 .. k :
              MergeSets(s[i], t[k + 1 - i]).sum - MergeSets(s[j], t[k + 1 - j]).sum
                  <= LargerOf(Spread(s), Spread(t))
  <1>1. Len(s) = k /\ Len(t) = k
    BY LengthOfFunction DEF IsState, SomeSet
  <1>2. Spread(s) = s[1].sum - s[k].sum /\ Spread(t) = t[1].sum - t[k].sum
    BY <1>1 DEF Spread
  <1>. SUFFICES ASSUME NEW i \in 1 .. k, NEW j \in 1 .. k
       PROVE  MergeSets(s[i], t[k + 1 - i]).sum - MergeSets(s[j], t[k + 1 - j]).sum
                  <= LargerOf(Spread(s), Spread(t))
    OBVIOUS
  <1>3. /\ k + 1 - i \in 1 .. k /\ k + 1 - j \in 1 .. k
        /\ 1 \in 1 .. k /\ k \in 1 .. k
    OBVIOUS
  <1>4. \A l \in 1 .. k : /\ s[l].sum \in Nat /\ t[l].sum \in Nat
                          /\ s[l].sum <= s[1].sum /\ s[k].sum <= s[l].sum
                          /\ t[l].sum <= t[1].sum /\ t[k].sum <= t[l].sum
    BY <1>3 DEF IsState, SomeSet
  <1>5. /\ MergeSets(s[i], t[k + 1 - i]).sum = s[i].sum + t[k + 1 - i].sum
        /\ MergeSets(s[j], t[k + 1 - j]).sum = s[j].sum + t[k + 1 - j].sum
    BY DEF MergeSets
  <1>6. CASE i <= j
    <2>1. t[k + 1 - i].sum <= t[k + 1 - j].sum
      BY <1>3, <1>6 DEF IsState, SomeSet
    <2>2. s[i].sum - s[j].sum <= Spread(s)
      BY <1>2, <1>3, <1>4
    <2>3. s[i].sum \in Nat /\ s[j].sum \in Nat /\ t[k + 1 - i].sum \in Nat
          /\ t[k + 1 - j].sum \in Nat /\ Spread(s) \in Int /\ Spread(t) \in Int
      BY <1>2, <1>3, <1>4
    <2>. QED BY <1>5, <2>1, <2>2, <2>3 DEF LargerOf
  <1>7. CASE j <= i
    <2>1. s[i].sum <= s[j].sum
      BY <1>7 DEF IsState, SomeSet
    <2>2. t[k + 1 - i].sum - t[k + 1 - j].sum <= Spread(t)
      BY <1>2, <1>3, <1>4
    <2>3. s[i].sum \in Nat /\ s[j].sum \in Nat /\ t[k + 1 - i].sum \in Nat
          /\ t[k + 1 - j].sum \in Nat /\ Spread(s) \in Int /\ Spread(t) \in Int
      BY <1>2, <1>3, <1>4
    <2>. QED BY <1>5, <2>1, <2>2, <2>3 DEF LargerOf
  <1>. QED BY <1>6, <1>7

-----------------------------------------------------------------------------
(***************************************************************************)
(* The sets of a state: what they list, and how far apart they are.        *)
(***************************************************************************)
RowsIn(m, k) == UNION {ToSet(m[i].items) : i \in 1 .. k}

\* Sets that list rows, none of them twice, with their workloads.
GoodSets(m, work, k) ==
    /\ m \in [1 .. k -> SomeSet]
    /\ \A i \in 1 .. k : /\ Lists(m[i].items, ToSet(m[i].items))
                         /\ ToSet(m[i].items) \subseteq 1 .. Len(work)
                         /\ m[i].sum = Weight(work, ToSet(m[i].items))
    /\ \A i, j \in 1 .. k : i # j => ToSet(m[i].items) \cap ToSet(m[j].items) = {}

\* With equal sizes all sets of a state have as many rows; otherwise none of them
\* is empty before one has two rows.
Shaped(m, k, equalSize) ==
    IF equalSize THEN \E l \in Nat \ {0} : \A i \in 1 .. k : Len(m[i].items) = l
    ELSE \/ \A i \in 1 .. k : ToSet(m[i].items) # {}
         \/ \A i \in 1 .. k : Len(m[i].items) <= 1

SumsWithin(m, k, D) == \A i, j \in 1 .. k : m[i].sum - m[j].sum <= D

Fit(m, work, k, equalSize, D) ==
    GoodSets(m, work, k) /\ Shaped(m, k, equalSize) /\ SumsWithin(m, k, D)

LEMMA FitInOrder ==
    ASSUME NEW k \in Nat, NEW work, NEW equalSize, NEW D, NEW m,
           Fit(m, work, k, equalSize, D)
    PROVE  /\ Fit(Decreasing(m), work, k, equalSize, D)
           /\ IsState(Decreasing(m), k)
           /\ RowsIn(Decreasing(m), k) = RowsIn(m, k)
  <1>. DEFINE u == Decreasing(m)
  <1>1. m \in [1 .. k -> SomeSet]
    BY DEF Fit, GoodSets
  <1>2. /\ IsState(u, k)
        /\ \E p : IsPermutation(p, k) /\ u = [i \in 1 .. k |-> m[p[i]]]
    BY <1>1, DecreasingIs
  <1>3. PICK p : IsPermutation(p, k) /\ u = [i \in 1 .. k |-> m[p[i]]]
    BY <1>2
  <1>. HIDE DEF u
  <1>4. \A i \in 1 .. k : p[i] \in 1 .. k /\ u[i] = m[p[i]]
    BY <1>3 DEF IsPermutation
  <1>5. \A i, j \in 1 .. k : i # j => p[i] # p[j]
    BY <1>3 DEF IsPermutation
  <1>6. \A r \in 1 .. k : \E i \in 1 .. k : p[i] = r
    BY <1>3 DEF IsPermutation
  <1>7. GoodSets(u, work, k)
    <2>1. u \in [1 .. k -> SomeSet]
      BY <1>2 DEF IsState
    <2>2. \A i \in 1 .. k : /\ Lists(u[i].items, ToSet(u[i].items))
                            /\ ToSet(u[i].items) \subseteq 1 .. Len(work)
                            /\ u[i].sum = Weight(work, ToSet(u[i].items))
      BY <1>4 DEF Fit, GoodSets
    <2>3. \A i, j \in 1 .. k : i # j => ToSet(u[i].items) \cap ToSet(u[j].items) = {}
      <3>. SUFFICES ASSUME NEW i \in 1 .. k, NEW j \in 1 .. k, i # j
           PROVE  ToSet(u[i].items) \cap ToSet(u[j].items) = {}
        OBVIOUS
      <3>1. p[i] \in 1 .. k /\ p[j] \in 1 .. k /\ p[i] # p[j]
        BY <1>4, <1>5
      <3>2. ToSet(m[p[i]].items) \cap ToSet(m[p[j]].items) = {}
        BY <3>1 DEF Fit, GoodSets
      <3>. QED BY <1>4, <3>2
    <2>. QED BY <2>1, <2>2, <2>3 DEF GoodSets
  <1>8. Shaped(u, k, equalSize)
    BY <1>4 DEF Fit, Shaped
  <1>9. SumsWithin(u, k, D)
    BY <1>4 DEF Fit, SumsWithin
  <1>10. RowsIn(u, k) = RowsIn(m, k)
    <2>1. {ToSet(u[i].items) : i \in 1 .. k} = {ToSet(m[i].items) : i \in 1 .. k}
      <3>1. \A i \in 1 .. k : \E j \in 1 .. k : ToSet(u[i].items) = ToSet(m[j].items)
        BY <1>4
      <3>2. \A j \in 1 .. k : \E i \in 1 .. k : ToSet(u[i].items) = ToSet(m[j].items)
        BY <1>4, <1>6
      <3>. QED BY <3>1, <3>2
    <2>. QED BY <2>1 DEF RowsIn
  <1>. QED BY <1>2, <1>7, <1>8, <1>9, <1>10 DEF Fit, u

\* SumsWithin a state that is in order the sets with rows come first.
LEMMA RowsComeFirst ==
    ASSUME NEW n \in Nat, NEW work \in [1 .. n -> Nat \ {0}], NEW k \in Nat, NEW s,
           GoodSets(s, work, k), IsState(s, k),
           NEW i \in 1 .. k, NEW j \in 1 .. k, i <= j, ToSet(s[j].items) # {}
    PROVE  ToSet(s[i].items) # {}
  <1>1. Len(work) = n
    BY LengthOfFunction
  <1>2. \A l \in 1 .. k : s[l].sum > 0 <=> ToSet(s[l].items) # {}
    <2>. SUFFICES ASSUME NEW l \in 1 .. k PROVE s[l].sum > 0 <=> ToSet(s[l].items) # {}
      OBVIOUS
    <2>1. ToSet(s[l].items) \in SUBSET (1 .. n) /\ s[l].sum = Weight(work, ToSet(s[l].items))
      BY <1>1 DEF GoodSets
    <2>. QED BY <2>1, WeightPositive
  <1>3. s[i].sum >= s[j].sum /\ s[i] \in SomeSet /\ s[j] \in SomeSet
    BY DEF IsState
  <1>4. s[i].sum \in Nat /\ s[j].sum \in Nat
    BY <1>3 DEF SomeSet
  <1>. QED BY <1>2, <1>3, <1>4

\* The large sets of one state take the small sets of the other.
LEMMA FitMerged ==
    ASSUME NEW n \in Nat, NEW work \in [1 .. n -> Nat \ {0}], NEW k \in Nat \ {0},
           NEW equalSize, NEW D \in Nat,
           NEW s, Fit(s, work, k, equalSize, D), IsState(s, k),
           NEW t, Fit(t, work, k, equalSize, D), IsState(t, k),
           RowsIn(s, k) \cap RowsIn(t, k) = {}
    PROVE  LET m == [i \in 1 .. k |-> MergeSets(s[i], t[k + 1 - i])]
           IN /\ Fit(m, work, k, equalSize, D)
              /\ RowsIn(m, k) = RowsIn(s, k) \cup RowsIn(t, k)
  <1>. DEFINE m == [i \in 1 .. k |-> MergeSets(s[i], t[k + 1 - i])]
              A(i) == ToSet(s[i].items)
              B(i) == ToSet(t[k + 1 - i].items)
  <1>1. \A i \in 1 .. k : k + 1 - i \in 1 .. k /\ k + 1 - (k + 1 - i) = i
    OBVIOUS
  <1>2. Len(work) = n /\ work \in [1 .. n -> Nat]
    BY LengthOfFunction
  <1>3. \A i \in 1 .. k : /\ s[i] \in SomeSet /\ t[k + 1 - i] \in SomeSet
                          /\ s[i].items \in Seq(Nat) /\ t[k + 1 - i].items \in Seq(Nat)
                          /\ s[i].sum \in Nat /\ t[k + 1 - i].sum \in Nat
    BY <1>1 DEF IsState, SomeSet
  <1>4. \A i \in 1 .. k : /\ Lists(s[i].items, A(i)) /\ Lists(t[k + 1 - i].items, B(i))
                          /\ A(i) \subseteq 1 .. n /\ B(i) \subseteq 1 .. n
                          /\ s[i].sum = Weight(work, A(i))
                          /\ t[k + 1 - i].sum = Weight(work, B(i))
    BY <1>1, <1>2 DEF Fit, GoodSets
  <1>5. \A i, j \in 1 .. k : A(i) \cap B(j) = {}
    <2>1. \A i \in 1 .. k : A(i) \subseteq RowsIn(s, k)
      BY DEF RowsIn
    <2>2. \A i \in 1 .. k : B(i) \subseteq RowsIn(t, k)
      BY <1>1 DEF RowsIn
    <2>. HIDE DEF A, B
    <2>. QED BY <2>1, <2>2
  <1>6. \A i, j \in 1 .. k : i # j => A(i) \cap A(j) = {} /\ B(i) \cap B(j) = {}
    <2>. SUFFICES ASSUME NEW i \in 1 .. k, NEW j \in 1 .. k, i # j
         PROVE  A(i) \cap A(j) = {} /\ B(i) \cap B(j) = {}
      OBVIOUS
    <2>1. k + 1 - i \in 1 .. k /\ k + 1 - j \in 1 .. k /\ k + 1 - i # k + 1 - j
      OBVIOUS
    <2>. QED BY <2>1 DEF Fit, GoodSets
  <1>7. \A i \in 1 .. k : /\ m[i].sum = s[i].sum + t[k + 1 - i].sum
                          /\ m[i].items = s[i].items \o t[k + 1 - i].items
    BY DEF MergeSets
  <1>8. m \in [1 .. k -> SomeSet]
    <2>. SUFFICES ASSUME NEW i \in 1 .. k PROVE MergeSets(s[i], t[k + 1 - i]) \in SomeSet
      OBVIOUS
    <2>1. s[i].items \o t[k + 1 - i].items \in Seq(Nat)
      BY <1>3, ConcatProperties
    <2>2. s[i].sum + t[k + 1 - i].sum \in Nat
      BY <1>3
    <2>. QED BY <2>1, <2>2 DEF MergeSets, SomeSet
  <1>. DEFINE C(i) == ToSet(m[i].items)
  <1>9. ASSUME NEW i \in 1 .. k, NEW j \in 1 .. k
        PROVE  m[i].sum - m[j].sum <= D
    <2>1. Spread(s) <= D /\ Spread(t) <= D
      <3>1. 1 \in 1 .. k /\ k \in 1 .. k
        OBVIOUS
      <3>2. Len(s) = k /\ Len(t) = k
        BY LengthOfFunction DEF IsState
      <3>. QED BY <3>1, <3>2 DEF Fit, SumsWithin, Spread
    <2>2. MergeSets(s[i], t[k + 1 - i]).sum - MergeSets(s[j], t[k + 1 - j]).sum
             <= LargerOf(Spread(s), Spread(t))
      BY MergeKeepsSpread
    <2>3. LargerOf(Spread(s), Spread(t)) \in {Spread(s), Spread(t)}
      BY DEF LargerOf
    <2>4. m[i].sum = MergeSets(s[i], t[k + 1 - i]).sum
          /\ m[j].sum = MergeSets(s[j], t[k + 1 - j]).sum
      OBVIOUS
    <2>5. Spread(s) \in Int /\ Spread(t) \in Int
      <3>1. 1 \in 1 .. k /\ k \in 1 .. k
        OBVIOUS
      <3>2. Len(s) = k /\ Len(t) = k
        BY LengthOfFunction DEF IsState
      <3>3. s[1].sum \in Nat /\ s[k].sum \in Nat /\ t[1].sum \in Nat /\ t[k].sum \in Nat
        BY <3>1 DEF IsState, SomeSet
      <3>. QED BY <3>2, <3>3 DEF Spread
    <2>6. m[i].sum \in Nat /\ m[j].sum \in Nat
      BY <1>8 DEF SomeSet
    <2>. HIDE DEF m
    <2>. QED BY <2>1, <2>2, <2>3, <2>4, <2>5, <2>6
  <1>. HIDE DEF m
  <1>10. \A i \in 1 .. k : /\ Lists(m[i].items, A(i) \cup B(i))
                           /\ C(i) = A(i) \cup B(i)
    <2>. SUFFICES ASSUME NEW i \in 1 .. k
         PROVE  /\ Lists(m[i].items, A(i) \cup B(i))
                /\ C(i) = A(i) \cup B(i)
      OBVIOUS
    <2>1. Lists(s[i].items, A(i)) /\ Lists(t[k + 1 - i].items, B(i)) /\ A(i) \cap B(i) = {}
      BY <1>4, <1>5
    <2>. HIDE DEF A, B
    <2>2. Lists(s[i].items \o t[k + 1 - i].items, A(i) \cup B(i))
      BY <2>1, ListsConcatenated
    <2>3. Lists(m[i].items, A(i) \cup B(i))
      BY <1>7, <2>2
    <2>. QED BY <2>3, ElementsOf
  <1>. HIDE DEF A, B
  <1>11. GoodSets(m, work, k)
    <2>1. \A i \in 1 .. k : /\ Lists(m[i].items, C(i)) /\ C(i) \subseteq 1 .. n
      BY <1>4, <1>10
    <2>2. \A i \in 1 .. k : m[i].sum = Weight(work, C(i))
      <3>. SUFFICES ASSUME NEW i \in 1 .. k PROVE m[i].sum = Weight(work, A(i) \cup B(i))
        BY <1>10
      <3>1. A(i) \cap B(i) = {}
        BY <1>5
      <3>2. Weight(work, A(i) \cup B(i)) = Weight(work, A(i)) + Weight(work, B(i))
        BY <1>2, <3>1, WeightAdds
      <3>. QED BY <1>4, <1>7, <3>2
    <2>3. \A i, j \in 1 .. k : i # j => C(i) \cap C(j) = {}
      BY <1>5, <1>6, <1>10
    <2>. QED BY <1>2, <1>8, <2>1, <2>2, <2>3 DEF GoodSets
  <1>12. RowsIn(m, k) = RowsIn(s, k) \cup RowsIn(t, k)
    <2>1. RowsIn(m, k) = UNION {C(i) : i \in 1 .. k}
      BY DEF RowsIn
    <2>. HIDE DEF C
    <2>2. UNION {C(i) : i \in 1 .. k} =
             (UNION {A(i) : i \in 1 .. k}) \cup (UNION {B(i) : i \in 1 .. k})
      <3>1. \A i \in 1 .. k : C(i) = A(i) \cup B(i)
        BY <1>10 DEF C
      <3>. QED BY <3>1
    <2>3. UNION {A(i) : i \in 1 .. k} = RowsIn(s, k)
      BY DEF A, RowsIn
    <2>4. UNION {B(i) : i \in 1 .. k} = RowsIn(t, k)
      <3>1. {B(i) : i \in 1 .. k} = {ToSet(t[i].items) : i \in 1 .. k}
        BY <1>1 DEF B
      <3>. QED BY <3>1 DEF RowsIn
    <2>. QED BY <2>1, <2>2, <2>3, <2>4
  <1>13. Shaped(m, k, equalSize)
    <2>1. \A i \in 1 .. k : /\ Len(s[i].items) \in Nat /\ Len(t[k + 1 - i].items) \in Nat
                            /\ Len(m[i].items) =
                                  Len(s[i].items) + Len(t[k + 1 - i].items)
      <3>. SUFFICES ASSUME NEW i \in 1 .. k
           PROVE  /\ Len(s[i].items) \in Nat /\ Len(t[k + 1 - i].items) \in Nat
                  /\ Len(m[i].items) = Len(s[i].items) + Len(t[k + 1 - i].items)
        OBVIOUS
      <3>1. /\ s[i].items \in Seq(Nat) /\ t[k + 1 - i].items \in Seq(Nat)
            /\ m[i].items = s[i].items \o t[k + 1 - i].items
        BY <1>3, <1>7
      <3>. QED BY <3>1, ConcatProperties, LenProperties
    <2>2. CASE equalSize
      <3>1. PICK a \in Nat \ {0} : \A i \in 1 .. k : Len(s[i].items) = a
        BY <2>2 DEF Fit, Shaped
      <3>2. PICK b \in Nat \ {0} : \A i \in 1 .. k : Len(t[i].items) = b
        BY <2>2 DEF Fit, Shaped
      <3>3. \A i \in 1 .. k : Len(m[i].items) = a + b
        <4>. SUFFICES ASSUME NEW i \in 1 .. k PROVE Len(m[i].items) = a + b
          OBVIOUS
        <4>1. Len(s[i].items) = a /\ Len(t[k + 1 - i].items) = b
          BY <1>1, <3>1, <3>2
        <4>. QED BY <2>1, <4>1
      <3>4. a + b \in Nat \ {0}
        OBVIOUS
      <3>. QED BY <2>2, <3>3, <3>4 DEF Shaped
    <2>3. CASE ~ equalSize
      <3>1. CASE \A i \in 1 .. k : C(i) # {}
        BY <2>3, <3>1 DEF Shaped
      <3>2. CASE \E i \in 1 .. k : A(i) # {} /\ B(i) # {}
        <4>1. PICK i \in 1 .. k : A(i) # {} /\ B(i) # {}
          BY <3>2
        <4>2. ASSUME NEW j \in 1 .. k PROVE C(j) # {}
          <5>1. CASE j <= i
            <6>1. A(j) # {}
              BY <4>1, <5>1, RowsComeFirst DEF Fit, A
            <6>. QED BY <1>10, <6>1
          <5>2. CASE j > i
            <6>1. k + 1 - j <= k + 1 - i /\ k + 1 - j \in 1 .. k /\ k + 1 - i \in 1 .. k
              BY <5>2
            <6>2. B(j) # {}
              BY <4>1, <6>1, RowsComeFirst DEF Fit, B
            <6>. QED BY <1>10, <6>2
          <5>. QED BY <5>1, <5>2
        <4>. QED BY <2>3, <4>2 DEF Shaped
      <3>3. CASE /\ \A i \in 1 .. k : A(i) = {} \/ B(i) = {}
                 /\ \E i \in 1 .. k : C(i) = {}
        <4>1. PICK i \in 1 .. k : A(i) = {} /\ B(i) = {}
          BY <1>10, <3>3
        <4>2. \A j \in 1 .. k : Len(s[j].items) <= 1
          BY <2>3, <4>1 DEF Fit, Shaped, A
        <4>3. \A j \in 1 .. k : Len(t[j].items) <= 1
          BY <1>1, <2>3, <4>1 DEF Fit, Shaped, B
        <4>4. ASSUME NEW j \in 1 .. k PROVE Len(m[j].items) <= 1
          <5>. DEFINE a == Len(s[j].items)
                      b == Len(t[k + 1 - j].items)
          <5>0. a \in Nat /\ b \in Nat /\ Len(m[j].items) = a + b
            BY <2>1
          <5>1. ASSUME A(j) = {} PROVE a = 0
            <6>1. \A l \in 1 .. a : s[j].items[l] \in A(j)
              BY <1>4, ElementOfSeq DEF Lists
            <6>2. 1 \notin 1 .. a
              BY <5>1, <6>1
            <6>. QED BY <5>0, <6>2
          <5>2. ASSUME B(j) = {} PROVE b = 0
            <6>1. \A l \in 1 .. b : t[k + 1 - j].items[l] \in B(j)
              BY <1>4, ElementOfSeq DEF Lists
            <6>2. 1 \notin 1 .. b
              BY <5>2, <6>1
            <6>. QED BY <5>0, <6>2
          <5>3. a <= 1 /\ b <= 1
            BY <1>1, <4>2, <4>3
          <5>4. A(j) = {} \/ B(j) = {}
            BY <3>3
          <5>. HIDE DEF a, b
          <5>. QED BY <5>0, <5>1, <5>2, <5>3, <5>4
        <4>. QED BY <2>3, <4>4 DEF Shaped
      <3>. QED BY <3>1, <3>2, <3>3
    <2>. QED BY <2>2, <2>3
  <1>14. SumsWithin(m, k, D)
    BY <1>9 DEF SumsWithin
  <1>15. /\ Fit(m, work, k, equalSize, D)
         /\ RowsIn(m, k) = RowsIn(s, k) \cup RowsIn(t, k)
    BY <1>11, <1>12, <1>13, <1>14 DEF Fit
  <1>. QED BY <1>15 DEF m

-----------------------------------------------------------------------------
(***************************************************************************)
(* The heap.                                                               *)
(***************************************************************************)
HeapState(s, work, k, equalSize, D) ==
    /\ Fit(s, work, k, equalSize, D)
    /\ IsState(s, k)
    /\ RowsIn(s, k) # {}

\* The states of the heap divide the rows.
HeapInv(H, work, k, equalSize, D) ==
    /\ IsFiniteSet(H) /\ H # {}
    /\ \A s \in H : HeapState(s, work, k, equalSize, D)
    /\ \A s, t \in H : s # t => RowsIn(s, k) \cap RowsIn(t, k) = {}
    /\ UNION {RowsIn(s, k) : s \in H} = 1 .. Len(work)

LEMMA FirstIsInHeap ==
    ASSUME NEW n \in Nat, NEW work \in [1 .. n -> Nat \ {0}], NEW k \in Nat \ {0},
           NEW equalSize, NEW D, NEW H, IsFiniteSet(H), H # {},
           \A s \in H : HeapState(s, work, k, equalSize, D),
           \A s, t \in H : s # t => RowsIn(s, k) \cap RowsIn(t, k) = {}
    PROVE  FirstState(H) \in H
  <1>1. 1 \in 1 .. k
    OBVIOUS
  <1>2. \A s \in H : ToSet(s[1].items) # {} /\ ToSet(s[1].items) \subseteq RowsIn(s, k)
    <2>. SUFFICES ASSUME NEW s \in H
         PROVE  ToSet(s[1].items) # {} /\ ToSet(s[1].items) \subseteq RowsIn(s, k)
      OBVIOUS
    <2>1. HeapState(s, work, k, equalSize, D)
      OBVIOUS
    <2>2. PICK j \in 1 .. k : ToSet(s[j].items) # {}
      <3>1. RowsIn(s, k) # {}
        BY <2>1 DEF HeapState
      <3>2. PICK r : r \in RowsIn(s, k)
        BY <3>1
      <3>3. \E j \in 1 .. k : r \in ToSet(s[j].items)
        BY <3>2 DEF RowsIn
      <3>. QED BY <3>3
    <2>3. GoodSets(s, work, k) /\ IsState(s, k) /\ 1 <= j
      BY <2>1 DEF HeapState, Fit
    <2>4. ToSet(s[1].items) # {}
      BY <1>1, <2>2, <2>3, RowsComeFirst
    <2>. QED BY <1>1, <2>4 DEF RowsIn
  <1>3. \A s, t \in H : s # t => s[1].items # t[1].items
    <2>. SUFFICES ASSUME NEW s \in H, NEW t \in H, s # t, s[1].items = t[1].items
         PROVE  FALSE
      OBVIOUS
    <2>1. RowsIn(s, k) \cap RowsIn(t, k) = {}
      OBVIOUS
    <2>2. ToSet(s[1].items) \subseteq RowsIn(s, k) /\ ToSet(t[1].items) \subseteq RowsIn(t, k)
          /\ ToSet(s[1].items) # {}
      BY <1>2
    <2>. QED BY <2>1, <2>2
  <1>4. \A s \in H : IsState(s, k)
    BY DEF HeapState
  <1>. QED BY <1>3, <1>4, FirstStateExists

\* One turn of the loop keeps the heap a division and makes it smaller by one.
LEMMA HeapStep ==
    ASSUME NEW n \in Nat, NEW work \in [1 .. n -> Nat \ {0}], NEW k \in Nat \ {0},
           NEW equalSize, NEW D \in Nat, NEW H, HeapInv(H, work, k, equalSize, D),
           Cardinality(H) > 1
    PROVE  /\ HeapInv(MergeFirstTwo(H), work, k, equalSize, D)
           /\ Cardinality(MergeFirstTwo(H)) = Cardinality(H) - 1
  <1>. DEFINE s == FirstState(H)
              H1 == H \ {s}
              t == FirstState(H1)
              H2 == H \ {s, t}
              u == MergeStates(s, t)
  <1>1. /\ IsFiniteSet(H) /\ H # {}
        /\ \A v \in H : HeapState(v, work, k, equalSize, D)
        /\ \A v, w \in H : v # w => RowsIn(v, k) \cap RowsIn(w, k) = {}
        /\ UNION {RowsIn(v, k) : v \in H} = 1 .. Len(work)
    BY DEF HeapInv
  <1>2. Cardinality(H) \in Nat
    BY <1>1, FS_CardinalityType
  <1>3. s \in H
    BY <1>1, FirstIsInHeap
  <1>. HIDE DEF s
  <1>4. IsFiniteSet(H1) /\ Cardinality(H1) = Cardinality(H) - 1
    BY <1>1, <1>3, FS_RemoveElement
  <1>5. H1 # {}
    BY <1>2, <1>4, FS_EmptySet
  <1>6. t \in H1
    <2>1. /\ \A v \in H1 : HeapState(v, work, k, equalSize, D)
          /\ \A v, w \in H1 : v # w => RowsIn(v, k) \cap RowsIn(w, k) = {}
      BY <1>1
    <2>. HIDE DEF H1
    <2>. QED BY <1>4, <1>5, <2>1, FirstIsInHeap
  <1>. HIDE DEF t
  <1>7. t \in H /\ t # s
    BY <1>6
  <1>8. HeapState(s, work, k, equalSize, D) /\ HeapState(t, work, k, equalSize, D)
        /\ RowsIn(s, k) \cap RowsIn(t, k) = {}
    BY <1>1, <1>3, <1>7
  <1>9. HeapState(u, work, k, equalSize, D) /\ RowsIn(u, k) = RowsIn(s, k) \cup RowsIn(t, k)
    <2>. DEFINE m == [i \in 1 .. k |-> MergeSets(s[i], t[k + 1 - i])]
    <2>1. /\ Fit(s, work, k, equalSize, D) /\ IsState(s, k)
          /\ Fit(t, work, k, equalSize, D) /\ IsState(t, k)
          /\ RowsIn(s, k) # {}
      BY <1>8 DEF HeapState
    <2>2. /\ Fit(m, work, k, equalSize, D)
          /\ RowsIn(m, k) = RowsIn(s, k) \cup RowsIn(t, k)
      BY <1>8, <2>1, FitMerged
    <2>3. Len(s) = k
      BY <2>1, LengthOfFunction DEF IsState
    <2>4. u = Decreasing(m)
      BY <2>3 DEF MergeStates
    <2>. HIDE DEF m
    <2>5. /\ Fit(Decreasing(m), work, k, equalSize, D) /\ IsState(Decreasing(m), k)
          /\ RowsIn(Decreasing(m), k) = RowsIn(m, k)
      BY <2>2, FitInOrder
    <2>. QED BY <2>1, <2>2, <2>4, <2>5 DEF HeapState
  <1>10. MergeFirstTwo(H) = H2 \cup {u}
    BY DEF MergeFirstTwo, s, t
  <1>. HIDE DEF u
  <1>11. H2 = H1 \ {t}
    OBVIOUS
  <1>12. IsFiniteSet(H2) /\ Cardinality(H2) = Cardinality(H) - 2
    <2>1. IsFiniteSet(H1 \ {t}) /\ Cardinality(H1 \ {t}) = Cardinality(H1) - 1
      BY <1>4, <1>6, FS_RemoveElement
    <2>2. IsFiniteSet(H2) /\ Cardinality(H2) = Cardinality(H1) - 1
      BY <1>11, <2>1, Zenon
    <2>3. Cardinality(H1) = Cardinality(H) - 1
      BY <1>4
    <2>. HIDE DEF H1, H2
    <2>. QED BY <1>2, <2>2, <2>3
  <1>13. \A v \in H2 : RowsIn(v, k) \cap RowsIn(u, k) = {}
    BY <1>1, <1>3, <1>7, <1>9
  <1>14. u \notin H2
    BY <1>9, <1>13 DEF HeapState
  <1>15. IsFiniteSet(H2 \cup {u}) /\ Cardinality(H2 \cup {u}) = Cardinality(H) - 1
    <2>. HIDE DEF H2
    <2>1. IsFiniteSet(H2 \cup {u}) /\ Cardinality(H2 \cup {u}) = Cardinality(H2) + 1
      BY <1>12, <1>14, FS_AddElement
    <2>. QED BY <1>2, <1>12, <2>1
  <1>16. \A v \in H2 \cup {u} : HeapState(v, work, k, equalSize, D)
    BY <1>1, <1>9
  <1>17. \A v, w \in H2 \cup {u} : v # w => RowsIn(v, k) \cap RowsIn(w, k) = {}
    BY <1>1, <1>13
  <1>18. UNION {RowsIn(v, k) : v \in H2 \cup {u}} = 1 .. Len(work)
    <2>1. H = H2 \cup {s, t}
      BY <1>3, <1>7
    <2>. HIDE DEF H2
    <2>2. UNION {RowsIn(v, k) : v \in H2 \cup {u}}
             = (UNION {RowsIn(v, k) : v \in H2}) \cup RowsIn(u, k)
      OBVIOUS
    <2>3. UNION {RowsIn(v, k) : v \in H}
             = (UNION {RowsIn(v, k) : v \in H2}) \cup RowsIn(s, k) \cup RowsIn(t, k)
      BY <2>1
    <2>. QED BY <1>1, <1>9, <2>2, <2>3
  <1>. QED BY <1>10, <1>15, <1>16, <1>17, <1>18 DEF HeapInv

\* A heap of states that are numbered.
LEMMA SizeOfImage ==
    ASSUME NEW I, IsFiniteSet(I), NEW b, DOMAIN b = I, NEW n \in Nat, Cardinality(I) \in 0 .. n
    PROVE  IsFiniteSet({b[i] : i \in I}) /\ Cardinality({b[i] : i \in I}) \in 0 .. n
  <1>. DEFINE H == {b[i] : i \in I}
              c == [i \in I |-> b[i]]
  <1>1. c \in Surjection(I, H)
    BY DEF Surjection
  <1>. HIDE DEF c, H
  <1>2. IsFiniteSet(H) /\ Cardinality(H) <= Cardinality(I)
    BY <1>1, FS_Surjection
  <1>3. Cardinality(H) \in Nat /\ Cardinality(I) \in Nat
    BY <1>2, FS_CardinalityType
  <1>4. Cardinality(H) \in 0 .. n
    BY <1>2, <1>3
  <1>. QED BY <1>2, <1>4 DEF H

LEMMA FiniteImage ==
    ASSUME NEW I, IsFiniteSet(I), NEW b, DOMAIN b = I
    PROVE  IsFiniteSet({b[i] : i \in I})
  <1>. DEFINE c == Cardinality(I)
  <1>1. c \in Nat
    BY FS_CardinalityType
  <1>2. Cardinality(I) = c
    OBVIOUS
  <1>. HIDE DEF c
  <1>3. c \in 0 .. c
    BY <1>1
  <1>4. IsFiniteSet({b[i] : i \in I}) /\ Cardinality({b[i] : i \in I}) \in 0 .. c
    BY <1>1, <1>2, <1>3, SizeOfImage
  <1>. QED BY <1>4

LEMMA HeapOf ==
    ASSUME NEW work, NEW k, NEW equalSize, NEW D,
           NEW I, IsFiniteSet(I), I # {}, NEW b, DOMAIN b = I,
           \A i \in I : HeapState(b[i], work, k, equalSize, D),
           \A i, j \in I : i # j => RowsIn(b[i], k) \cap RowsIn(b[j], k) = {},
           UNION {RowsIn(b[i], k) : i \in I} = 1 .. Len(work)
    PROVE  HeapInv({b[i] : i \in I}, work, k, equalSize, D)
  <1>. DEFINE H == {b[i] : i \in I}
  <1>1. H # {} /\ \A s \in H : HeapState(s, work, k, equalSize, D)
    OBVIOUS
  <1>2. \A s, t \in H : s # t => RowsIn(s, k) \cap RowsIn(t, k) = {}
    OBVIOUS
  <1>3. {RowsIn(s, k) : s \in H} = {RowsIn(b[i], k) : i \in I}
    OBVIOUS
  <1>4. UNION {RowsIn(s, k) : s \in H} = 1 .. Len(work)
    BY <1>3
  <1>5. IsFiniteSet(H)
    BY FiniteImage
  <1>. HIDE DEF H
  <1>6. HeapInv(H, work, k, equalSize, D)
    BY <1>1, <1>2, <1>4, <1>5 DEF HeapInv
  <1>. QED BY <1>6 DEF H

-----------------------------------------------------------------------------
(***************************************************************************)
(* The loop ends with one state, whose sets divide the rows.               *)
(***************************************************************************)
LEMMA OneStateIsLeft ==
    ASSUME NEW n \in Nat, NEW work \in [1 .. n -> Nat \ {0}], NEW k \in Nat \ {0},
           NEW equalSize, NEW D \in Nat,
           HeapInv(InitialHeap(work, k, equalSize), work, k, equalSize, D),
           Cardinality(InitialHeap(work, k, equalSize)) \in 0 .. n
    PROVE  \E s : /\ HeapState(s, work, k, equalSize, D)
                  /\ RowsIn(s, k) = 1 .. n
                  /\ KarmarkarKarp(work, k, equalSize) = [i \in 1 .. k |-> s[i].items]
  <1>. DEFINE first == InitialHeap(work, k, equalSize)
              Inv(H) == HeapInv(H, work, k, equalSize, D)
              next(H) == IF Cardinality(H) > 1 THEN MergeFirstTwo(H) ELSE H
              Heaps == {H \in SUBSET [1 .. k -> SomeSet] : Inv(H)}
              g == [p \in (1 .. n) \X Heaps |-> next(p[2])]
              Loop(f) == f = [m \in 0 .. Len(work) |->
                                IF m = 0 THEN first
                                ELSE LET before == f[m - 1]
                                     IN IF Cardinality(before) > 1
                                        THEN MergeFirstTwo(before) ELSE before]
              heap == CHOOSE f : Loop(f)
  <1>1. Len(work) = n
    BY LengthOfFunction
  <1>2. \A H : Inv(H) => H \in Heaps
    BY DEF HeapInv, HeapState, IsState
  <1>3. \A H \in Heaps : next(H) \in Heaps
    <2>. SUFFICES ASSUME NEW H \in Heaps PROVE next(H) \in Heaps
      OBVIOUS
    <2>1. CASE Cardinality(H) > 1
      <3>1. Inv(MergeFirstTwo(H))
        BY <2>1, HeapStep
      <3>. QED BY <1>2, <2>1, <3>1
    <2>2. CASE ~ (Cardinality(H) > 1)
      BY <2>2
    <2>. QED BY <2>1, <2>2
  <1>4. first \in Heaps
    BY <1>2
  <1>. HIDE DEF first, Heaps, next
  <1>5. g \in [(1 .. n) \X Heaps -> Heaps]
    BY <1>3
  <1>6. \A m \in 1 .. n, H \in Heaps : g[<<m, H>>] = next(H)
    OBVIOUS
  <1>. HIDE DEF g
  <1>7. PICK h : Recursive(h, Heaps, first, n, g)
    BY <1>4, <1>5, RecursionUpTo, Zenon
  <1>8. Loop(h)
    <2>1. h \in [0 .. n -> Heaps] /\ h[0] = first
      BY <1>7 DEF Recursive
    <2>2. ASSUME NEW m \in 1 .. n PROVE h[m] = next(h[m - 1])
      <3>1. h[m] = g[<<m, h[m - 1]>>] /\ m - 1 \in 0 .. n
        BY <1>7 DEF Recursive
      <3>. QED BY <1>6, <2>1, <3>1
    <2>3. \A m \in 0 .. n : h[m] = IF m = 0 THEN first ELSE next(h[m - 1])
      BY <2>1, <2>2
    <2>. QED BY <1>1, <2>1, <2>3 DEF next
  <1>9. Loop(heap)
    <2>. HIDE DEF Loop
    <2>. QED BY <1>8
  <1>10. KarmarkarKarp(work, k, equalSize) =
            [i \in 1 .. k |-> (CHOOSE s \in heap[n] : TRUE)[i].items]
    BY <1>1 DEF KarmarkarKarp, first
  <1>11. \A m \in 0 .. n : heap[m] = IF m = 0 THEN first ELSE next(heap[m - 1])
    <2>. HIDE DEF heap
    <2>. QED BY <1>1, <1>9 DEF next
  <1>. HIDE DEF heap
  <1>. DEFINE Small(m) == Cardinality(heap[m]) = 1 \/ Cardinality(heap[m]) + m <= n
              T == {m \in 0 .. n : Inv(heap[m]) /\ Small(m)}
  <1>12. 0 \in T
    <2>1. Cardinality(first) \in Nat
      BY FS_CardinalityType DEF HeapInv, first
    <2>. QED BY <1>11, <2>1 DEF first
  <1>13. ASSUME NEW m \in 0 .. n - 1, m \in T
         PROVE  m + 1 \in T
    <2>1. Inv(heap[m]) /\ Small(m)
      BY <1>13
    <2>2. Cardinality(heap[m]) \in Nat
      BY <2>1, FS_CardinalityType DEF HeapInv
    <2>3. heap[m + 1] = next(heap[m])
      <3>1. m + 1 \in 0 .. n /\ m + 1 # 0 /\ (m + 1) - 1 = m
        OBVIOUS
      <3>. QED BY <1>11, <3>1
    <2>4. CASE Cardinality(heap[m]) > 1
      <3>1. Inv(heap[m + 1]) /\ Cardinality(heap[m + 1]) = Cardinality(heap[m]) - 1
        BY <2>1, <2>3, <2>4, HeapStep DEF next
      <3>. HIDE DEF Inv
      <3>. QED BY <2>1, <2>2, <2>4, <3>1
    <2>5. CASE ~ (Cardinality(heap[m]) > 1)
      <3>1. heap[m + 1] = heap[m]
        BY <2>3, <2>5 DEF next
      <3>2. Cardinality(heap[m]) # 0
        BY <2>1, FS_EmptySet DEF HeapInv
      <3>. HIDE DEF Inv
      <3>. QED BY <2>1, <2>2, <2>5, <3>1, <3>2
    <2>. QED BY <2>4, <2>5
  <1>. HIDE DEF T
  <1>14. \A m \in 0 .. n : m \in T
    BY <1>12, <1>13, UpTo
  <1>15. Inv(heap[n]) /\ Small(n)
    BY <1>14 DEF T
  <1>16. Cardinality(heap[n]) = 1
    <2>1. Cardinality(heap[n]) \in Nat /\ Cardinality(heap[n]) # 0
      BY <1>15, FS_CardinalityType, FS_EmptySet DEF HeapInv
    <2>. QED BY <1>15, <2>1
  <1>17. PICK s : heap[n] = {s}
    BY <1>15, <1>16, FS_Singleton DEF HeapInv
  <1>18. (CHOOSE v \in heap[n] : TRUE) = s
    BY <1>17
  <1>19. HeapState(s, work, k, equalSize, D)
    BY <1>15, <1>17 DEF HeapInv
  <1>20. RowsIn(s, k) = 1 .. n
    <2>1. UNION {RowsIn(v, k) : v \in {s}} = 1 .. n
      BY <1>1, <1>15, <1>17 DEF HeapInv
    <2>2. UNION {RowsIn(v, k) : v \in {s}} = RowsIn(s, k)
      OBVIOUS
    <2>. QED BY <2>1, <2>2
  <1>21. KarmarkarKarp(work, k, equalSize) = [i \in 1 .. k |-> s[i].items]
    BY <1>10, <1>18
  <1>. QED BY <1>19, <1>20, <1>21

(***************************************************************************)
(* What the algorithm promises.                                            *)
(***************************************************************************)
\* k lists divide the rows 1 .. n; none is empty; their workloads differ by no
\* more than D.
Divides(parts, k, n) ==
    /\ parts \in [1 .. k -> Seq(Nat)]
    /\ \A i \in 1 .. k : Lists(parts[i], ToSet(parts[i])) /\ ToSet(parts[i]) # {}
    /\ \A i, j \in 1 .. k : i # j => ToSet(parts[i]) \cap ToSet(parts[j]) = {}
    /\ UNION {ToSet(parts[i]) : i \in 1 .. k} = 1 .. n

Balanced(parts, work, k, D) ==
    \A i, j \in 1 .. k : SumOver(work, parts[i]) - SumOver(work, parts[j]) <= D

\* As long as there are enough rows, no set of the state that is left is empty.
LEMMA NoneIsEmpty ==
    ASSUME NEW n \in Nat, NEW work \in [1 .. n -> Nat \ {0}], NEW k \in 1 .. n,
           NEW equalSize, NEW D, NEW s, HeapState(s, work, k, equalSize, D),
           RowsIn(s, k) = 1 .. n
    PROVE  \A i \in 1 .. k : ToSet(s[i].items) # {}
  <1>1. /\ \A i \in 1 .. k : Lists(s[i].items, ToSet(s[i].items))
        /\ \A i, j \in 1 .. k : i # j => ToSet(s[i].items) \cap ToSet(s[j].items) = {}
        /\ Shaped(s, k, equalSize)
    BY DEF HeapState, Fit, GoodSets
  <1>2. \A i \in 1 .. k : s[i].items \in Seq(Nat)
    BY DEF HeapState, IsState, SomeSet
  <1>3. CASE equalSize
    <2>. SUFFICES ASSUME NEW i \in 1 .. k PROVE ToSet(s[i].items) # {}
      OBVIOUS
    <2>1. PICK l \in Nat \ {0} : Len(s[i].items) = l
      BY <1>1, <1>3 DEF Shaped
    <2>2. 1 \in 1 .. Len(s[i].items)
      BY <2>1
    <2>3. s[i].items[1] \in ToSet(s[i].items)
      BY <1>1, <2>2, ElementOfSeq DEF Lists
    <2>. QED BY <2>3
  <1>4. CASE ~ equalSize /\ \E j \in 1 .. k : ToSet(s[j].items) = {}
    <2>1. PICK j \in 1 .. k : ToSet(s[j].items) = {}
      BY <1>4
    <2>2. \A i \in 1 .. k : Len(s[i].items) <= 1
      BY <1>1, <1>4 DEF Shaped
    <2>. DEFINE U == (1 .. k) \ {j}
                c == [r \in 1 .. n |-> CHOOSE i \in U : r \in ToSet(s[i].items)]
    <2>3. \A r \in 1 .. n : \E i \in U : r \in ToSet(s[i].items)
      <3>. SUFFICES ASSUME NEW r \in 1 .. n PROVE \E i \in U : r \in ToSet(s[i].items)
        OBVIOUS
      <3>1. PICK i \in 1 .. k : r \in ToSet(s[i].items)
        BY DEF RowsIn
      <3>. QED BY <2>1, <3>1
    <2>4. \A r \in 1 .. n : c[r] \in U /\ r \in ToSet(s[c[r]].items)
      BY <2>3
    <2>. HIDE DEF c
    <2>5. ASSUME NEW i \in 1 .. k, NEW x \in ToSet(s[i].items), NEW y \in ToSet(s[i].items)
          PROVE  x = y
      <3>1. PICK a \in 1 .. Len(s[i].items) : s[i].items[a] = x
        BY <1>1 DEF Lists
      <3>2. PICK b \in 1 .. Len(s[i].items) : s[i].items[b] = y
        BY <1>1 DEF Lists
      <3>3. Len(s[i].items) \in Nat /\ Len(s[i].items) <= 1
        BY <1>2, <2>2, LenProperties
      <3>4. a = 1 /\ b = 1
        BY <3>3
      <3>. QED BY <3>1, <3>2, <3>4
    <2>6. c \in Injection(1 .. n, U)
      <3>1. c \in [1 .. n -> U]
        BY <2>4 DEF c
      <3>2. ASSUME NEW r \in 1 .. n, NEW q \in 1 .. n, c[r] = c[q]
            PROVE  r = q
        BY <2>4, <2>5, <3>2
      <3>. QED BY <3>1, <3>2 DEF Injection, IsInjective
    <2>7. /\ IsFiniteSet(1 .. k) /\ Cardinality(1 .. k) = k /\ Cardinality(1 .. n) = n
      BY SizeOfInterval
    <2>8. IsFiniteSet(U) /\ Cardinality(U) = k - 1
      BY <2>7, FS_RemoveElement
    <2>9. Cardinality(1 .. n) <= Cardinality(U)
      <3>. HIDE DEF U
      <3>. QED BY <2>6, <2>8, FS_Injection
    <2>. HIDE DEF U
    <2>. QED BY <2>7, <2>8, <2>9
  <1>. QED BY <1>3, <1>4

SameLength(parts, k, l) == l \in Nat \ {0} /\ \A i \in 1 .. k : Len(parts[i]) = l

SetsOf(s, k) == [i \in 1 .. k |-> s[i].items]

LEMMA LeftIsBalanced ==
    ASSUME NEW n \in Nat, NEW work \in [1 .. n -> Nat \ {0}], NEW k \in 1 .. n,
           NEW equalSize, NEW D \in Nat, NEW s, HeapState(s, work, k, equalSize, D),
           RowsIn(s, k) = 1 .. n
    PROVE  /\ Divides(SetsOf(s, k), k, n)
           /\ Balanced(SetsOf(s, k), work, k, D)
           /\ equalSize => \E l : SameLength(SetsOf(s, k), k, l)
  <1>. DEFINE parts == [i \in 1 .. k |-> s[i].items]
  <1>1. \A i \in 1 .. k : ToSet(s[i].items) # {}
    BY NoneIsEmpty
  <1>2. /\ \A i \in 1 .. k : /\ Lists(s[i].items, ToSet(s[i].items))
                             /\ s[i].sum = Weight(work, ToSet(s[i].items))
        /\ \A i, j \in 1 .. k : i # j => ToSet(s[i].items) \cap ToSet(s[j].items) = {}
        /\ Shaped(s, k, equalSize) /\ SumsWithin(s, k, D)
    BY DEF HeapState, Fit, GoodSets
  <1>3. \A i \in 1 .. k : parts[i] = s[i].items /\ s[i].items \in Seq(Nat)
    BY DEF HeapState, IsState, SomeSet
  <1>4. parts \in [1 .. k -> Seq(Nat)]
    BY <1>3
  <1>5. UNION {ToSet(parts[i]) : i \in 1 .. k} = 1 .. n
    BY DEF RowsIn
  <1>. HIDE DEF parts
  <1>6. Divides(parts, k, n)
    BY <1>1, <1>2, <1>3, <1>4, <1>5 DEF Divides
  <1>7. Balanced(parts, work, k, D)
    BY <1>2, <1>3, SumIsWeight DEF Balanced, SumsWithin
  <1>8. ASSUME equalSize PROVE \E l : SameLength(parts, k, l)
    <2>1. PICK l \in Nat \ {0} : \A i \in 1 .. k : Len(s[i].items) = l
      BY <1>2, <1>8 DEF Shaped
    <2>2. SameLength(parts, k, l)
      BY <1>3, <2>1 DEF SameLength
    <2>. QED BY <2>2
  <1>9. SetsOf(s, k) = parts
    BY DEF SetsOf, parts
  <1>. QED BY <1>6, <1>7, <1>8, <1>9

-----------------------------------------------------------------------------
(***************************************************************************)
(* The heap the loop starts with.                                          *)
(***************************************************************************)
LEMMA SingleList ==
    ASSUME NEW n \in Nat, NEW r \in 1 .. n, NEW items, items = <<r>>
    PROVE  /\ items \in Seq(Nat) /\ Len(items) = 1
           /\ Lists(items, {r}) /\ ToSet(items) = {r}
  <1>1. items \in Seq(Nat) /\ Len(items) = 1
    OBVIOUS
  <1>2. Lists(<<r>>, {r}) /\ ToSet(<<r>>) = {r}
    BY ListsOne, ElementsOf
  <1>. QED BY <1>1, <1>2

LEMMA SingleWeight ==
    ASSUME NEW n \in Nat, NEW work \in [1 .. n -> Nat \ {0}], NEW r \in 1 .. n
    PROVE  work[r] \in Nat /\ work[r] = Weight(work, {r})
  <1>1. work \in [1 .. n -> Nat] /\ work[r] \in Nat
    OBVIOUS
  <1>. QED BY <1>1, WeightOfOne

RowsAtMost(work, n, D) == \A i \in 1 .. n : work[i] <= D

\* A state with one row, in its first set.
OneRow(r, work, k) ==
    [i \in 1 .. k |-> IF i = 1 THEN [sum |-> work[r], items |-> <<r>>] ELSE EmptySet]

LEMMA OneRowState ==
    ASSUME NEW n \in Nat, NEW work \in [1 .. n -> Nat \ {0}], NEW k \in Nat \ {0},
           NEW D \in Nat, NEW r \in 1 .. n, RowsAtMost(work, n, D)
    PROVE  /\ GoodSets(OneRow(r, work, k), work, k)
           /\ SumsWithin(OneRow(r, work, k), k, D)
           /\ IsState(OneRow(r, work, k), k)
           /\ \A i \in 1 .. k : Len(OneRow(r, work, k)[i].items) <= 1
           /\ RowsIn(OneRow(r, work, k), k) = {r}
  <1>. DEFINE a == [sum |-> work[r], items |-> <<r>>]
              s == [i \in 1 .. k |-> IF i = 1 THEN a ELSE EmptySet]
  <1>1. /\ a \in SomeSet /\ Lists(a.items, {r}) /\ ToSet(a.items) = {r}
        /\ Len(a.items) = 1 /\ a.sum = Weight(work, {r})
    <2>. DEFINE items == <<r>>
    <2>1. a.sum = work[r] /\ a.items = items /\ a = [sum |-> work[r], items |-> items]
      OBVIOUS
    <2>2. /\ items \in Seq(Nat) /\ Lists(items, {r}) /\ ToSet(items) = {r}
          /\ Len(items) = 1 /\ work[r] \in Nat /\ work[r] = Weight(work, {r})
      <3>1. items = <<r>>
        OBVIOUS
      <3>. HIDE DEF items
      <3>2. items \in Seq(Nat) /\ Len(items) = 1
        BY <3>1
      <3>3. Lists(items, {r}) /\ ToSet(items) = {r}
        BY <3>1, SingleList
      <3>4. work[r] \in Nat /\ work[r] = Weight(work, {r})
        BY SingleWeight
      <3>. QED BY <3>2, <3>3, <3>4
    <2>. HIDE DEF items, a
    <2>3. a \in SomeSet
      BY <2>1, <2>2 DEF SomeSet
    <2>. QED BY <2>1, <2>2, <2>3
  <1>2. a.sum \in Nat /\ a.sum <= D
    <2>1. work[r] \in Nat /\ work[r] <= D
      BY DEF RowsAtMost
    <2>. QED BY <2>1
  <1>3. /\ EmptySet \in SomeSet /\ Lists(EmptySet.items, {}) /\ ToSet(EmptySet.items) = {}
        /\ Len(EmptySet.items) = 0 /\ EmptySet.sum = 0 /\ Weight(work, {}) = 0
    <2>1. <<>> \in Seq(Nat) /\ Len(<<>>) = 0
      OBVIOUS
    <2>2. ToSet(<<>>) = {} /\ Lists(<<>>, {})
      BY ListsNothing, ElementsOf
    <2>3. work \in [1 .. n -> Nat]
      OBVIOUS
    <2>. QED BY <2>1, <2>2, <2>3, WeightOfNone DEF EmptySet, SomeSet
  <1>. HIDE DEF a
  <1>0. s = OneRow(r, work, k)
    BY DEF OneRow, a
  <1>4. s \in [1 .. k -> SomeSet]
    BY <1>1, <1>3
  <1>5. \A i \in 1 .. k : s[i] = IF i = 1 THEN a ELSE EmptySet
    OBVIOUS
  <1>6. 1 \in 1 .. k /\ Len(work) = n
    BY LengthOfFunction
  <1>. HIDE DEF s
  <1>7. GoodSets(s, work, k)
    <2>1. \A i \in 1 .. k : /\ Lists(s[i].items, ToSet(s[i].items))
                            /\ ToSet(s[i].items) \subseteq 1 .. n
                            /\ s[i].sum = Weight(work, ToSet(s[i].items))
      <3>. SUFFICES ASSUME NEW i \in 1 .. k
           PROVE  /\ Lists(s[i].items, ToSet(s[i].items))
                  /\ ToSet(s[i].items) \subseteq 1 .. n
                  /\ s[i].sum = Weight(work, ToSet(s[i].items))
        OBVIOUS
      <3>1. CASE i = 1
        <4>1. s[i] = a
          BY <1>5, <3>1
        <4>2. ToSet(s[i].items) = {r}
          BY <1>1, <4>1
        <4>3. Lists(s[i].items, ToSet(s[i].items))
              /\ s[i].sum = Weight(work, ToSet(s[i].items))
          BY <1>1, <4>1
        <4>. QED BY <4>2, <4>3
      <3>2. CASE i # 1
        BY <1>3, <1>5, <3>2
      <3>. QED BY <3>1, <3>2
    <2>2. \A i, j \in 1 .. k : i # j => ToSet(s[i].items) \cap ToSet(s[j].items) = {}
      BY <1>3, <1>5
    <2>. QED BY <1>4, <1>6, <2>1, <2>2 DEF GoodSets
  <1>8. \A i \in 1 .. k : Len(s[i].items) <= 1
    <2>. SUFFICES ASSUME NEW i \in 1 .. k PROVE Len(s[i].items) <= 1
      OBVIOUS
    <2>1. s[i] = a \/ s[i] = EmptySet
      BY <1>5
    <2>. DEFINE l == Len(s[i].items)
    <2>2. l \in {0, 1}
      BY <1>1, <1>3, <2>1
    <2>. HIDE DEF l
    <2>3. l <= 1
      BY <2>2
    <2>. QED BY <2>3 DEF l
  <1>9. SumsWithin(s, k, D)
    <2>1. \A i \in 1 .. k : s[i].sum \in Nat /\ s[i].sum <= D
      BY <1>2, <1>3, <1>5
    <2>. QED BY <2>1 DEF SumsWithin
  <1>10. IsState(s, k)
    <2>1. \A i, j \in 1 .. k : i <= j => s[i].sum >= s[j].sum
      <3>. SUFFICES ASSUME NEW i \in 1 .. k, NEW j \in 1 .. k, i <= j
           PROVE  s[i].sum >= s[j].sum
        OBVIOUS
      <3>1. CASE j = 1
        BY <1>2, <1>5, <3>1
      <3>2. CASE j # 1
        <4>1. s[j].sum = 0 /\ s[i].sum \in Nat
          BY <1>2, <1>3, <1>5, <3>2
        <4>. QED BY <4>1
      <3>. QED BY <3>1, <3>2
    <2>. QED BY <1>4, <2>1 DEF IsState
  <1>11. RowsIn(s, k) = {r}
    <2>1. \A i \in 1 .. k : ToSet(s[i].items) = IF i = 1 THEN {r} ELSE {}
      BY <1>1, <1>3, <1>5
    <2>. QED BY <1>6, <2>1 DEF RowsIn
  <1>. QED BY <1>0, <1>7, <1>8, <1>9, <1>10, <1>11, Zenon

\* Sets with one row each, q[i] in the one of number i.
OneRowEach(m, q, work, k) ==
    /\ m \in [1 .. k -> SomeSet]
    /\ \A i \in 1 .. k : m[i].sum = work[q[i]] /\ m[i].items = <<q[i]>>
    /\ \A i, j \in 1 .. k : q[i] = q[j] => i = j

Picked(q, k) == {q[i] : i \in 1 .. k}

Block(m, q, work, k, D) ==
    /\ GoodSets(m, work, k) /\ SumsWithin(m, k, D)
    /\ \A i \in 1 .. k : Len(m[i].items) = 1
    /\ RowsIn(m, k) = Picked(q, k)

\* Rows whose workloads are no further apart than D.
Near(q, work, k, D) == \A i, j \in 1 .. k : work[q[i]] - work[q[j]] <= D

LEMMA OneRowEachState ==
    ASSUME NEW n \in Nat, NEW work \in [1 .. n -> Nat \ {0}], NEW k \in Nat \ {0},
           NEW D, NEW q \in [1 .. k -> 1 .. n],
           Near(q, work, k, D), NEW m, OneRowEach(m, q, work, k)
    PROVE  Block(m, q, work, k, D)
  <1>0. \A i, j \in 1 .. k : q[i] = q[j] => i = j
    BY DEF OneRowEach
  <1>1. 1 \in 1 .. k /\ Len(work) = n
    BY LengthOfFunction
  <1>2. \A i \in 1 .. k : /\ Lists(m[i].items, {q[i]})
                          /\ ToSet(m[i].items) = {q[i]} /\ Len(m[i].items) = 1
                          /\ m[i].sum = Weight(work, {q[i]}) /\ m[i].sum = work[q[i]]
    <2>. SUFFICES ASSUME NEW i \in 1 .. k
         PROVE  /\ Lists(m[i].items, {q[i]})
                /\ ToSet(m[i].items) = {q[i]} /\ Len(m[i].items) = 1
                /\ m[i].sum = Weight(work, {q[i]}) /\ m[i].sum = work[q[i]]
      OBVIOUS
    <2>1. q[i] \in 1 .. n /\ m[i].sum = work[q[i]] /\ m[i].items = <<q[i]>>
      BY DEF OneRowEach
    <2>. DEFINE x == q[i]
                items == m[i].items
    <2>2. x \in 1 .. n /\ items = <<x>>
      BY <2>1
    <2>. HIDE DEF x, items
    <2>3. Lists(items, {x}) /\ ToSet(items) = {x} /\ Len(items) = 1
      BY <2>2, SingleList
    <2>4. work[x] = Weight(work, {x})
      BY <2>2, SingleWeight
    <2>. QED BY <2>1, <2>3, <2>4 DEF x, items
  <1>3. m \in [1 .. k -> SomeSet]
    BY DEF OneRowEach
  <1>4. GoodSets(m, work, k)
    <2>1. \A i \in 1 .. k : /\ Lists(m[i].items, ToSet(m[i].items))
                            /\ ToSet(m[i].items) \subseteq 1 .. n
                            /\ m[i].sum = Weight(work, ToSet(m[i].items))
      <3>. SUFFICES ASSUME NEW i \in 1 .. k
           PROVE  /\ Lists(m[i].items, ToSet(m[i].items))
                  /\ ToSet(m[i].items) \subseteq 1 .. n
                  /\ m[i].sum = Weight(work, ToSet(m[i].items))
        OBVIOUS
      <3>1. ToSet(m[i].items) = {q[i]} /\ q[i] \in 1 .. n
        BY <1>2
      <3>2. Lists(m[i].items, {q[i]}) /\ m[i].sum = Weight(work, {q[i]})
        BY <1>2
      <3>. QED BY <3>1, <3>2
    <2>2. ASSUME NEW i \in 1 .. k, NEW j \in 1 .. k, i # j
          PROVE  ToSet(m[i].items) \cap ToSet(m[j].items) = {}
      <3>1. ToSet(m[i].items) = {q[i]} /\ ToSet(m[j].items) = {q[j]}
        BY <1>2
      <3>. QED BY <1>0, <2>2, <3>1
    <2>. QED BY <1>1, <1>3, <2>1, <2>2 DEF GoodSets
  <1>6. SumsWithin(m, k, D)
    <2>. SUFFICES ASSUME NEW i \in 1 .. k, NEW j \in 1 .. k
         PROVE  m[i].sum - m[j].sum <= D
      BY DEF SumsWithin
    <2>2. work[q[i]] - work[q[j]] <= D
      BY DEF Near
    <2>3. m[i].sum = work[q[i]] /\ m[j].sum = work[q[j]]
      BY <1>2
    <2>. QED BY <2>2, <2>3
  <1>7. RowsIn(m, k) = {q[i] : i \in 1 .. k}
    <2>1. \A i \in 1 .. k : ToSet(m[i].items) = {q[i]}
      BY <1>2
    <2>2. ASSUME NEW x \in RowsIn(m, k) PROVE x \in {q[i] : i \in 1 .. k}
      <3>1. PICK i \in 1 .. k : x \in ToSet(m[i].items)
        BY DEF RowsIn
      <3>2. x = q[i]
        BY <2>1, <3>1
      <3>. QED BY <3>2
    <2>3. ASSUME NEW i \in 1 .. k PROVE q[i] \in RowsIn(m, k)
      <3>1. q[i] \in ToSet(m[i].items)
        BY <2>1
      <3>. QED BY <3>1 DEF RowsIn
    <2>. QED BY <2>2, <2>3
  <1>8. RowsIn(m, k) = Picked(q, k)
    BY <1>7 DEF Picked
  <1>. QED BY <1>2, <1>4, <1>6, <1>8 DEF Block

\* sorted_seqlen_list: every row once.
LEMMA AscendingIs ==
    ASSUME NEW n \in Nat, NEW work, Len(work) = n, \A i \in 1 .. n : work[i] \in Int
    PROVE  IsPermutation(Ascending(work), n)
  <1>. DEFINE s == [i \in 1 .. n |-> i]
  <1>1. s \in [1 .. n -> 1 .. n]
    OBVIOUS
  <1>2. \A i, j \in 1 .. n : s[i] = s[j] => i = j
    OBVIOUS
  <1>3. Len(s) = n /\ Ascending(work) = Sort(s, SmallerFirst(work))
    BY LengthOfFunction DEF Ascending
  <1>. HIDE DEF s
  <1>4. Lists(s, 1 .. n)
    BY <1>1, <1>2, OneToOneIsPermutation, PermutationLists
  <1>5. WeakOrder(SmallerFirst(work), n)
    <2>1. \A i, j \in 1 .. n : <<i, j>> \in SmallerFirst(work) <=> work[i] < work[j]
      BY DEF SmallerFirst, Pairs
    <2>2. SmallerFirst(work) \subseteq Pairs(n)
      BY DEF SmallerFirst
    <2>. QED BY <2>1, <2>2 DEF WeakOrder
  <1>6. Lists(Sort(s, SmallerFirst(work)), 1 .. n)
    BY <1>3, <1>4, <1>5, ListsSorted
  <1>. QED BY <1>3, <1>6, ListsInterval
\* A list of c * k rows, cut into blocks of k.
LEMMA Blocks ==
    ASSUME NEW k \in Nat \ {0}, NEW c \in Nat
    PROVE  /\ \A x \in 0 .. c - 1, i \in 1 .. k : x * k + i \in 1 .. c * k
           /\ \A x, y \in 0 .. c - 1, i, j \in 1 .. k :
                 x * k + i = y * k + j => x = y /\ i = j
           /\ \A r \in 1 .. c * k : \E x \in 0 .. c - 1, i \in 1 .. k : r = x * k + i
  <1>1. ASSUME NEW x \in Nat, NEW y \in Nat, x < y
        PROVE  x * k + k <= y * k
    <2>1. x + 1 \in Nat /\ x + 1 <= y
      BY <1>1
    <2>2. (x + 1) * k <= y * k
      BY <2>1, Times
    <2>3. (x + 1) * k = x * k + k
      OBVIOUS
    <2>. QED BY <2>2, <2>3
  <1>2. \A x \in Nat : x * k \in Nat
    OBVIOUS
  <1>3. ASSUME NEW x \in 0 .. c - 1, NEW i \in 1 .. k
        PROVE  x * k + i \in 1 .. c * k
    <2>. DEFINE a == x * k
                b == c * k
    <2>1. a + k <= b /\ a \in Nat /\ b \in Nat
      BY <1>1, <1>2
    <2>. HIDE DEF a, b
    <2>2. a + i \in 1 .. b
      BY <2>1
    <2>. QED BY <2>2 DEF a, b
  <1>4. ASSUME NEW x \in 0 .. c - 1, NEW y \in 0 .. c - 1, NEW i \in 1 .. k, NEW j \in 1 .. k,
               x * k + i = y * k + j
        PROVE  x = y /\ i = j
    <2>. DEFINE a == x * k
                b == y * k
    <2>1. a \in Nat /\ b \in Nat /\ a + i = b + j
      BY <1>2, <1>4
    <2>2. x < y => a + k <= b
      BY <1>1
    <2>3. y < x => b + k <= a
      BY <1>1
    <2>4. x = y => a = b
      OBVIOUS
    <2>. HIDE DEF a, b
    <2>. QED BY <2>1, <2>2, <2>3, <2>4
  <1>. DEFINE T == {r \in 0 .. c * k - 1 : \E x \in 0 .. c - 1, i \in 1 .. k :
                                             r + 1 = x * k + i}
  <1>5. ASSUME NEW r \in 1 .. c * k
        PROVE  \E x \in 0 .. c - 1, i \in 1 .. k : r = x * k + i
    <2>. DEFINE b == c * k
    <2>1. b \in Nat
      BY <1>2
    <2>2. c # 0
      <3>1. c = 0 => b = 0
        OBVIOUS
      <3>2. b # 0
        BY <2>1
      <3>. QED BY <3>1, <3>2
    <2>3. 0 \in T
      <3>1. 0 \in 0 .. c - 1 /\ 1 \in 1 .. k /\ 0 + 1 = 0 * k + 1
        BY <2>2
      <3>2. 0 \in 0 .. b - 1
        BY <2>1
      <3>. QED BY <3>1, <3>2
    <2>4. ASSUME NEW q \in 0 .. (b - 1) - 1, q \in T
          PROVE  q + 1 \in T
      <3>1. PICK x \in 0 .. c - 1, i \in 1 .. k : q + 1 = x * k + i
        BY <2>4
      <3>. DEFINE a == x * k
      <3>2. a \in Nat /\ q + 1 = a + i
        BY <1>2, <3>1
      <3>3. q + 1 \in 0 .. b - 1
        BY <2>1
      <3>4. CASE i < k
        <4>1. i + 1 \in 1 .. k /\ (q + 1) + 1 = a + (i + 1)
          BY <3>2, <3>4
        <4>. QED BY <3>3, <4>1
      <3>5. CASE i = k
        <4>1. (x + 1) * k = a + k
          OBVIOUS
        <4>2. (q + 1) + 1 = (x + 1) * k + 1
          BY <3>2, <3>5, <4>1
        <4>3. x + 1 # c
          <5>. SUFFICES ASSUME x + 1 = c PROVE FALSE
            OBVIOUS
          <5>1. b = a + k
            BY <4>1
          <5>. HIDE DEF a, b
          <5>. QED BY <2>1, <3>2, <3>3, <3>5, <5>1
        <4>4. x + 1 \in 0 .. c - 1 /\ 1 \in 1 .. k
          BY <4>3
        <4>. QED BY <3>3, <4>2, <4>4
      <3>. QED BY <3>4, <3>5
    <2>5. b - 1 \in Nat /\ r - 1 \in 0 .. b - 1
      <3>1. r \in 1 .. b
        OBVIOUS
      <3>. HIDE DEF b
      <3>. QED BY <2>1, <3>1
    <2>. HIDE DEF T, b
    <2>6. \A q \in 0 .. b - 1 : q \in T
      BY <2>3, <2>4, <2>5, UpTo
    <2>7. r - 1 \in T
      BY <2>5, <2>6
    <2>8. (r - 1) + 1 = r
      OBVIOUS
    <2>. QED BY <2>7, <2>8 DEF T
  <1>. HIDE DEF T
  <1>. QED BY <1>3, <1>4, <1>5

\* Without equal sizes every row is a state.
LEMMA HeapOfRows ==
    ASSUME NEW n \in Nat \ {0}, NEW work \in [1 .. n -> Nat \ {0}], NEW k \in Nat \ {0},
           NEW D \in Nat, RowsAtMost(work, n, D), NEW equalSize
    PROVE  ~ equalSize => /\ HeapInv(InitialHeap(work, k, equalSize), work, k, equalSize, D)
                          /\ Cardinality(InitialHeap(work, k, equalSize)) \in 0 .. n
  <1>0. SUFFICES ASSUME ~ equalSize
        PROVE  /\ HeapInv(InitialHeap(work, k, equalSize), work, k, equalSize, D)
               /\ Cardinality(InitialHeap(work, k, equalSize)) \in 0 .. n
    OBVIOUS
  <1>. DEFINE I == 1 .. n
              b == [r \in I |-> OneRow(r, work, k)]
  <1>1. Len(work) = n
    BY LengthOfFunction
  <1>2. InitialHeap(work, k, equalSize) = {b[r] : r \in I}
    <2>1. InitialHeap(work, k, equalSize) = {OneRow(r, work, k) : r \in 1 .. Len(work)}
      BY <1>0 DEF InitialHeap, OneRow
    <2>2. \A r \in I : b[r] = OneRow(r, work, k)
      OBVIOUS
    <2>. HIDE DEF b
    <2>. QED BY <1>1, <2>1, <2>2
  <1>3. \A r \in I : HeapState(b[r], work, k, equalSize, D) /\ RowsIn(b[r], k) = {r}
    <2>. SUFFICES ASSUME NEW r \in I
         PROVE  HeapState(b[r], work, k, equalSize, D) /\ RowsIn(b[r], k) = {r}
      OBVIOUS
    <2>1. /\ GoodSets(OneRow(r, work, k), work, k) /\ SumsWithin(OneRow(r, work, k), k, D)
          /\ IsState(OneRow(r, work, k), k)
          /\ RowsIn(OneRow(r, work, k), k) = {r}
      BY OneRowState
    <2>4. \A i \in 1 .. k : Len(OneRow(r, work, k)[i].items) <= 1
      BY OneRowState
    <2>2. b[r] = OneRow(r, work, k)
      OBVIOUS
    <2>. HIDE DEF b
    <2>3. Shaped(b[r], k, equalSize)
      BY <1>0, <2>2, <2>4 DEF Shaped
    <2>. QED BY <2>1, <2>2, <2>3 DEF HeapState, Fit
  <1>4. IsFiniteSet(I) /\ Cardinality(I) = n /\ I # {}
    <2>1. 1 \in I
      OBVIOUS
    <2>. QED BY <2>1, SizeOfInterval
  <1>5. UNION {RowsIn(b[r], k) : r \in I} = 1 .. Len(work)
    <2>. HIDE DEF b, I
    <2>1. \A r \in I : RowsIn(b[r], k) = {r}
      BY <1>3
    <2>2. \A r \in I : r \in RowsIn(b[r], k) /\ RowsIn(b[r], k) \subseteq I
      BY <2>1
    <2>3. UNION {RowsIn(b[r], k) : r \in I} = I
      BY <2>2
    <2>. QED BY <1>1, <2>3 DEF I
  <1>6. DOMAIN b = I
    OBVIOUS
  <1>7. \A i, j \in I : i # j => RowsIn(b[i], k) \cap RowsIn(b[j], k) = {}
    BY <1>3
  <1>. HIDE DEF b, I
  <1>9. IsFiniteSet({b[r] : r \in I}) /\ Cardinality({b[r] : r \in I}) \in 0 .. n
    <2>1. Cardinality(I) \in 0 .. n
      BY <1>4
    <2>. QED BY <1>4, <1>6, <2>1, SizeOfImage
  <1>8. HeapInv({b[r] : r \in I}, work, k, equalSize, D)
    BY <1>3, <1>4, <1>5, <1>6, <1>7, HeapOf
  <1>. QED BY <1>2, <1>8, <1>9

\* The workloads of k neighbours of the sorted list are no further apart than D.
NeighboursWithin(work, n, k, D) ==
    \A x \in 0 .. n \div k - 1 :
        Near([i \in 1 .. k |-> Ascending(work)[x * k + i]], work, k, D)

\* With equal sizes k neighbours of the sorted list are one.
LEMMA HeapOfBlocks ==
    ASSUME NEW c \in Nat \ {0}, NEW k \in Nat \ {0}, NEW n \in Nat, n = c * k,
           NEW work \in [1 .. n -> Nat \ {0}],
           NEW D \in Nat, NeighboursWithin(work, n, k, D), NEW equalSize
    PROVE  equalSize => /\ HeapInv(InitialHeap(work, k, equalSize), work, k, equalSize, D)
                        /\ Cardinality(InitialHeap(work, k, equalSize)) \in 0 .. n
  <1>0. SUFFICES ASSUME equalSize
        PROVE  /\ HeapInv(InitialHeap(work, k, equalSize), work, k, equalSize, D)
               /\ Cardinality(InitialHeap(work, k, equalSize)) \in 0 .. n
    OBVIOUS
  <1>. DEFINE I == 0 .. c - 1
              sorted == Ascending(work)
              q(x) == [i \in 1 .. k |-> sorted[x * k + i]]
              m(x) == [i \in 1 .. k |-> [sum |-> work[sorted[x * k + i]],
                                         items |-> <<sorted[x * k + i]>>]]
              b == [x \in I |-> Decreasing(m(x))]
  <1>1. Len(work) = n /\ n \div k = c /\ c <= n
    <2>1. (c * k) \div k = c
      OBVIOUS
    <2>2. 1 * c <= k * c /\ k * c = c * k /\ 1 * c = c
      <3>1. 1 <= k
        OBVIOUS
      <3>. QED BY <3>1, Times
    <2>. QED BY <2>1, <2>2, LengthOfFunction
  <1>2. InitialHeap(work, k, equalSize) = {b[x] : x \in I}
    <2>1. InitialHeap(work, k, equalSize) =
             {Decreasing(m(x)) : x \in 0 .. Len(work) \div k - 1}
      BY <1>0 DEF InitialHeap
    <2>2. \A x \in I : b[x] = Decreasing(m(x))
      OBVIOUS
    <2>. HIDE DEF m, b
    <2>. QED BY <1>1, <2>1, <2>2
  <1>19. \A x \in I : Near(q(x), work, k, D)
    <2>1. \A x \in 0 .. n \div k - 1 : Near(q(x), work, k, D)
      BY DEF NeighboursWithin
    <2>. HIDE DEF q
    <2>. QED BY <1>1, <2>1
  <1>3. IsPermutation(sorted, n)
    <2>1. \A i \in 1 .. n : work[i] \in Int
      OBVIOUS
    <2>. QED BY <1>1, <2>1, AscendingIs
  <1>. HIDE DEF sorted
  <1>4. /\ \A x \in I, i \in 1 .. k : x * k + i \in 1 .. n
        /\ \A x, y \in I, i, j \in 1 .. k : x * k + i = y * k + j => x = y /\ i = j
        /\ \A r \in 1 .. n : \E x \in I, i \in 1 .. k : r = x * k + i
    BY Blocks
  <1>5. \A x \in I, i \in 1 .. k : q(x)[i] = sorted[x * k + i]
    OBVIOUS
  <1>6. \A x \in I : q(x) \in [1 .. k -> 1 .. n]
    BY <1>3, <1>4 DEF IsPermutation
  <1>7. \A x, y \in I, i, j \in 1 .. k : q(x)[i] = q(y)[j] => x = y /\ i = j
    <2>. SUFFICES ASSUME NEW x \in I, NEW y \in I, NEW i \in 1 .. k, NEW j \in 1 .. k,
                         q(x)[i] = q(y)[j]
         PROVE  x = y /\ i = j
      OBVIOUS
    <2>. DEFINE a == x * k + i
                d == y * k + j
    <2>1. a \in 1 .. n /\ d \in 1 .. n /\ sorted[a] = sorted[d]
      BY <1>4, <1>5
    <2>2. a = d => x = y /\ i = j
      <3>. HIDE DEF q, I
      <3>. QED BY <1>4 DEF a, d
    <2>. HIDE DEF q, I, a, d
    <2>3. a = d
      BY <1>3, <2>1 DEF IsPermutation
    <2>. QED BY <2>2, <2>3
  <1>8. \A r \in 1 .. n : \E x \in I, i \in 1 .. k : r = q(x)[i]
    <2>. SUFFICES ASSUME NEW r \in 1 .. n PROVE \E x \in I, i \in 1 .. k : r = q(x)[i]
      OBVIOUS
    <2>1. PICK a \in 1 .. n : sorted[a] = r
      BY <1>3 DEF IsPermutation
    <2>2. PICK x \in I, i \in 1 .. k : a = x * k + i
      BY <1>4
    <2>. HIDE DEF q, I
    <2>. QED BY <1>5, <2>1, <2>2
  <1>9. \A x \in I : OneRowEach(m(x), q(x), work, k)
    <2>. SUFFICES ASSUME NEW x \in I PROVE OneRowEach(m(x), q(x), work, k)
      OBVIOUS
    <2>1. ASSUME NEW i \in 1 .. k
          PROVE  /\ m(x)[i] = [sum |-> work[q(x)[i]], items |-> <<q(x)[i]>>]
                 /\ work[q(x)[i]] \in Nat /\ <<q(x)[i]>> \in Seq(Nat)
      <3>1. m(x)[i] = [sum |-> work[q(x)[i]], items |-> <<q(x)[i]>>]
        OBVIOUS
      <3>2. q(x)[i] \in 1 .. n
        BY <1>6
      <3>. HIDE DEF q, m
      <3>. QED BY <3>1, <3>2
    <2>2. m(x) = [i \in 1 .. k |-> [sum |-> work[q(x)[i]], items |-> <<q(x)[i]>>]]
      OBVIOUS
    <2>. HIDE DEF q, m
    <2>3. \A i \in 1 .. k : [sum |-> work[q(x)[i]], items |-> <<q(x)[i]>>] \in SomeSet
      BY <2>1 DEF SomeSet
    <2>4. m(x) \in [1 .. k -> SomeSet]
      BY <2>2, <2>3
    <2>5. \A i \in 1 .. k : m(x)[i].sum = work[q(x)[i]] /\ m(x)[i].items = <<q(x)[i]>>
      <3>. SUFFICES ASSUME NEW i \in 1 .. k
           PROVE  m(x)[i].sum = work[q(x)[i]] /\ m(x)[i].items = <<q(x)[i]>>
        OBVIOUS
      <3>1. m(x)[i] = [sum |-> work[q(x)[i]], items |-> <<q(x)[i]>>]
        BY <2>1
      <3>. QED BY <3>1
    <2>6. \A i, j \in 1 .. k : q(x)[i] = q(x)[j] => i = j
      BY <1>7
    <2>. QED BY <2>4, <2>5, <2>6 DEF OneRowEach
  <1>10. \A x \in I : b[x] = Decreasing(m(x))
    OBVIOUS
  <1>11. DOMAIN b = I
    OBVIOUS
  <1>12. IsFiniteSet(I) /\ Cardinality(I) = c /\ I # {}
    <2>1. 0 \in I
      OBVIOUS
    <2>2. IsFiniteSet(0 .. c - 1)
      BY FS_Interval
    <2>3. Cardinality(0 .. c - 1) = c
      <3>1. 0 \in Int /\ c - 1 \in Int /\ ~ (0 > c - 1) /\ (c - 1) - 0 + 1 = c
        OBVIOUS
      <3>. QED BY <3>1, FS_Interval
    <2>. QED BY <2>1, <2>2, <2>3
  <1>. HIDE DEF m, q, b, I
  <1>13. ASSUME NEW x \in I
         PROVE  /\ HeapState(b[x], work, k, equalSize, D)
                /\ RowsIn(b[x], k) = {q(x)[i] : i \in 1 .. k}
    <2>0. /\ q(x) \in [1 .. k -> 1 .. n] /\ Near(q(x), work, k, D)
          /\ OneRowEach(m(x), q(x), work, k)
      BY <1>6, <1>9, <1>19
    <2>8. Block(m(x), q(x), work, k, D)
      BY <2>0, OneRowEachState
    <2>1. GoodSets(m(x), work, k) /\ SumsWithin(m(x), k, D)
      BY <2>8 DEF Block
    <2>7. RowsIn(m(x), k) = {q(x)[i] : i \in 1 .. k}
      <3>1. RowsIn(m(x), k) = Picked(q(x), k)
        BY <2>8 DEF Block
      <3>. QED BY <3>1 DEF Picked
    <2>6. \A i \in 1 .. k : Len(m(x)[i].items) = 1
      BY <2>8 DEF Block
    <2>2. Shaped(m(x), k, equalSize)
      <3>1. 1 \in Nat \ {0}
        OBVIOUS
      <3>. QED BY <1>0, <2>6, <3>1 DEF Shaped
    <2>3. Fit(m(x), work, k, equalSize, D)
      BY <2>1, <2>2 DEF Fit
    <2>4. /\ Fit(Decreasing(m(x)), work, k, equalSize, D)
          /\ IsState(Decreasing(m(x)), k)
          /\ RowsIn(Decreasing(m(x)), k) = RowsIn(m(x), k)
      BY <2>3, FitInOrder
    <2>5. q(x)[1] \in {q(x)[i] : i \in 1 .. k}
      OBVIOUS
    <2>. QED BY <1>10, <2>4, <2>5, <2>7 DEF HeapState
  <1>14. ASSUME NEW x \in I, NEW y \in I, x # y
         PROVE  RowsIn(b[x], k) \cap RowsIn(b[y], k) = {}
    <2>1. RowsIn(b[x], k) = {q(x)[i] : i \in 1 .. k}
          /\ RowsIn(b[y], k) = {q(y)[i] : i \in 1 .. k}
      BY <1>13
    <2>2. \A i, j \in 1 .. k : q(x)[i] # q(y)[j]
      BY <1>7, <1>14
    <2>. QED BY <2>1, <2>2
  <1>15. UNION {RowsIn(b[x], k) : x \in I} = 1 .. Len(work)
    <2>1. ASSUME NEW x \in I PROVE RowsIn(b[x], k) \subseteq 1 .. n
      <3>1. \A i \in 1 .. k : q(x)[i] \in 1 .. n
        BY <1>6
      <3>2. RowsIn(b[x], k) = {q(x)[i] : i \in 1 .. k}
        BY <1>13
      <3>. QED BY <3>1, <3>2
    <2>2. ASSUME NEW r \in 1 .. n PROVE \E x \in I : r \in RowsIn(b[x], k)
      <3>1. PICK x \in I, i \in 1 .. k : r = q(x)[i]
        BY <1>8
      <3>. QED BY <1>13, <3>1
    <2>. QED BY <1>1, <2>1, <2>2
  <1>16. IsFiniteSet({b[x] : x \in I}) /\ Cardinality({b[x] : x \in I}) \in 0 .. n
    <2>1. Cardinality(I) \in 0 .. n
      BY <1>1, <1>12
    <2>. QED BY <1>11, <1>12, <2>1, SizeOfImage
  <1>17. \A x \in I : HeapState(b[x], work, k, equalSize, D)
    BY <1>13
  <1>18. HeapInv({b[x] : x \in I}, work, k, equalSize, D)
    BY <1>11, <1>12, <1>14, <1>15, <1>17, HeapOf
  <1>. QED BY <1>2, <1>16, <1>18
-----------------------------------------------------------------------------
(***************************************************************************)
(* The partitions.                                                         *)
(***************************************************************************)
\* One after the other, the parts are an order of the rows.
LEMMA DivisionIsOrder ==
    ASSUME NEW n \in Nat, NEW k \in Nat, NEW parts, Divides(parts, k, n)
    PROVE  Lists(FlattenSeq(parts), 1 .. n)
  <1>. DEFINE T == [i \in 1 .. k |-> ToSet(parts[i])]
  <1>1. /\ parts \in [1 .. k -> Seq(Nat)]
        /\ \A i \in 1 .. k : Lists(parts[i], ToSet(parts[i]))
        /\ \A i, j \in 1 .. k : i # j => ToSet(parts[i]) \cap ToSet(parts[j]) = {}
        /\ UNION {ToSet(parts[i]) : i \in 1 .. k} = 1 .. n
    BY DEF Divides
  <1>2. \A i \in 1 .. k : T[i] = ToSet(parts[i])
    OBVIOUS
  <1>3. T \in [1 .. k -> SUBSET Nat]
    <2>1. \A i \in 1 .. k : ToSet(parts[i]) \subseteq 1 .. n
      BY <1>1
    <2>2. 1 .. n \subseteq Nat
      OBVIOUS
    <2>3. \A i \in 1 .. k : ToSet(parts[i]) \in SUBSET Nat
      BY <2>1, <2>2
    <2>. QED BY <2>3
  <1>4. UnionOf(T, k) = 1 .. n
    <2>1. UnionOf(T, k) = UNION {ToSet(parts[i]) : i \in 1 .. k}
      BY <1>2 DEF UnionOf
    <2>. QED BY <1>1, <2>1
  <1>. HIDE DEF T
  <1>5. \A i \in 1 .. k : Lists(parts[i], T[i])
    BY <1>1, <1>2
  <1>6. \A i, j \in 1 .. k : i # j => T[i] \cap T[j] = {}
    BY <1>1, <1>2
  <1>7. Lists(FlattenSeq(parts), UnionOf(T, k))
    BY <1>1, <1>3, <1>5, <1>6, ListsFlattened
  <1>. QED BY <1>4, <1>7

LEMMA SizeOfEqualParts ==
    ASSUME NEW n \in Nat, NEW k \in Nat, NEW parts, Divides(parts, k, n),
           NEW l, SameLength(parts, k, l)
    PROVE  k * l = n /\ EquallySized(parts, n)
  <1>1. Lists(FlattenSeq(parts), 1 .. n)
    BY DivisionIsOrder
  <1>2. Len(FlattenSeq(parts)) = n
    BY <1>1, ListsInterval
  <1>3. parts \in [1 .. k -> Seq(Nat)] /\ l \in Nat \ {0}
        /\ \A i \in 1 .. k : Len(parts[i]) = l
    BY DEF Divides, SameLength
  <1>4. Len(FlattenSeq(parts)) = k * l
    BY <1>3, EqualParts
  <1>5. k * l = n /\ l * k = n
    BY <1>2, <1>3, <1>4
  <1>6. Len(parts) = k /\ DOMAIN parts = 1 .. k
    BY <1>3, LengthOfFunction
  <1>. QED BY <1>3, <1>5, <1>6 DEF EquallySized

\* What karmarkar_karp asserts of its arguments.
Accepted(n, k, equalSize) == equalSize => n % k = 0

\* How far apart the workloads are that the parts begin with: those of k neighbours
\* of the sorted list when the parts are of equal size, of a row and no row otherwise.
Apart(work, n, k, equalSize, D) ==
    IF equalSize THEN NeighboursWithin(work, n, k, D) ELSE RowsAtMost(work, n, D)

\* The sets of the last state.
LEMMA LastState ==
    ASSUME NEW n \in Nat, NEW work \in [1 .. n -> Nat \ {0}], NEW k \in 1 .. n,
           NEW equalSize, Accepted(n, k, equalSize),
           NEW D \in Nat, Apart(work, n, k, equalSize, D)
    PROVE  /\ Divides(KarmarkarKarp(work, k, equalSize), k, n)
           /\ Balanced(KarmarkarKarp(work, k, equalSize), work, k, D)
           /\ equalSize => \E l : SameLength(KarmarkarKarp(work, k, equalSize), k, l)
  <1>1. n \in Nat \ {0} /\ k \in Nat \ {0} /\ n \in Nat /\ k \in Nat
    OBVIOUS
  <1>2. /\ HeapInv(InitialHeap(work, k, equalSize), work, k, equalSize, D)
        /\ Cardinality(InitialHeap(work, k, equalSize)) \in 0 .. n
    <2>1. CASE equalSize
      <3>1. n % k = 0 /\ NeighboursWithin(work, n, k, D)
        BY <2>1 DEF Accepted, Apart
      <3>. DEFINE c == n \div k
                  d == n % k
      <3>2. c \in Nat
        BY <1>1
      <3>3. n = c * k + d
        BY <1>1, SMTT(30)
      <3>4. d = 0
        BY <3>1
      <3>. HIDE DEF c, d
      <3>5. n = c * k
        BY <3>2, <3>3, <3>4
      <3>6. c # 0
        BY <1>1, <3>2, <3>5
      <3>7. c \in Nat \ {0}
        BY <3>2, <3>6
      <3>. QED BY <1>1, <2>1, <3>1, <3>5, <3>7, HeapOfBlocks
    <2>2. CASE ~ equalSize
      <3>1. RowsAtMost(work, n, D)
        BY <2>2 DEF Apart
      <3>. QED BY <1>1, <2>2, <3>1, HeapOfRows
    <2>. QED BY <2>1, <2>2
  <1>3. PICK s : /\ HeapState(s, work, k, equalSize, D)
                 /\ RowsIn(s, k) = 1 .. n
                 /\ KarmarkarKarp(work, k, equalSize) = [i \in 1 .. k |-> s[i].items]
    BY <1>1, <1>2, OneStateIsLeft
  <1>4. /\ Divides(SetsOf(s, k), k, n)
        /\ Balanced(SetsOf(s, k), work, k, D)
        /\ equalSize => \E l : SameLength(SetsOf(s, k), k, l)
    BY <1>3, LeftIsBalanced
  <1>5. KarmarkarKarp(work, k, equalSize) = SetsOf(s, k)
    BY <1>3 DEF SetsOf
  <1>. QED BY <1>4, <1>5

\* What the partitions are.
FairParts(parts, work, n, k, equalSize, D) ==
    /\ Divides(parts, k, n)
    /\ Balanced(parts, work, k, D)
    /\ equalSize => EquallySized(parts, n)

\* karmarkar_karp divides the rows, whatever their workloads: every row is in one
\* part, no part is empty, parts of equal size are that, and the workloads of two
\* parts differ by no more than those they began with.
THEOREM KarmarkarKarpDivides ==
    ASSUME NEW n \in Nat, NEW work \in [1 .. n -> Nat \ {0}], NEW k \in 1 .. n,
           NEW equalSize, Accepted(n, k, equalSize),
           NEW D \in Nat, Apart(work, n, k, equalSize, D)
    PROVE  FairParts(KarmarkarKarp(work, k, equalSize), work, n, k, equalSize, D)
  <1>. DEFINE parts == KarmarkarKarp(work, k, equalSize)
  <1>1. /\ Divides(parts, k, n) /\ Balanced(parts, work, k, D)
        /\ equalSize => \E l : SameLength(parts, k, l)
    BY LastState
  <1>. HIDE DEF parts
  <1>2. equalSize => EquallySized(parts, n)
    BY <1>1, SizeOfEqualParts
  <1>3. FairParts(parts, work, n, k, equalSize, D)
    BY <1>1, <1>2 DEF FairParts
  <1>. QED BY <1>3 DEF parts

LEMMA SmallerIsOrder ==
    ASSUME NEW n \in Nat, NEW s, Len(s) = n, \A i \in 1 .. n : s[i] \in Int
    PROVE  WeakOrder(SmallerFirst(s), n)
  <1>1. \A i, j \in 1 .. n : <<i, j>> \in SmallerFirst(s) <=> s[i] < s[j]
    BY DEF SmallerFirst, Pairs
  <1>2. SmallerFirst(s) \subseteq Pairs(n)
    BY DEF SmallerFirst
  <1>. QED BY <1>1, <1>2 DEF WeakOrder

\* sorted(part) lists the same rows.
LEMMA PartSorted ==
    ASSUME NEW part \in Seq(Nat), Lists(part, ToSet(part))
    PROVE  LET u == Sort(part, SmallerFirst(part))
           IN /\ Lists(u, ToSet(part)) /\ ToSet(u) = ToSet(part)
              /\ Len(u) = Len(part) /\ u \in Seq(Nat)
  <1>. DEFINE u == Sort(part, SmallerFirst(part))
  <1>1. Len(part) \in Nat /\ \A i \in 1 .. Len(part) : part[i] \in Int
    BY LenProperties, ElementOfSeq
  <1>2. WeakOrder(SmallerFirst(part), Len(part))
    BY <1>1, SmallerIsOrder
  <1>3. Lists(u, ToSet(part)) /\ Len(u) = Len(part)
    BY <1>2, ListsSorted
  <1>. HIDE DEF u
  <1>4. ToSet(u) = ToSet(part)
    BY <1>3, ElementsOf
  <1>5. u \in Seq(Nat)
    <2>1. ToSet(part) \subseteq Nat
      <3>1. \A x \in ToSet(part) : \E i \in 1 .. Len(part) : part[i] = x
        BY DEF Lists
      <3>. QED BY <3>1, ElementOfSeq
    <2>2. u \in Seq(ToSet(part))
      BY <1>3 DEF Lists
    <2>. QED BY <2>1, <2>2, SeqMonotonic
  <1>. QED BY <1>3, <1>4, <1>5 DEF u

LEMMA PartsSorted ==
    ASSUME NEW n \in Nat, NEW work, NEW k \in Nat, NEW D, NEW equalSize,
           NEW parts, FairParts(parts, work, n, k, equalSize, D)
    PROVE  FairParts([i \in 1 .. k |-> Sort(parts[i], SmallerFirst(parts[i]))],
                      work, n, k, equalSize, D)
  <1>. DEFINE u == [i \in 1 .. k |-> Sort(parts[i], SmallerFirst(parts[i]))]
  <1>1. /\ parts \in [1 .. k -> Seq(Nat)]
        /\ \A i \in 1 .. k : Lists(parts[i], ToSet(parts[i])) /\ ToSet(parts[i]) # {}
        /\ \A i, j \in 1 .. k : i # j => ToSet(parts[i]) \cap ToSet(parts[j]) = {}
        /\ UNION {ToSet(parts[i]) : i \in 1 .. k} = 1 .. n
        /\ Balanced(parts, work, k, D)
        /\ equalSize => EquallySized(parts, n)
    BY DEF FairParts, Divides
  <1>2. ASSUME NEW i \in 1 .. k
        PROVE  /\ Lists(u[i], ToSet(parts[i])) /\ ToSet(u[i]) = ToSet(parts[i])
               /\ Len(u[i]) = Len(parts[i]) /\ u[i] \in Seq(Nat)
    <2>. DEFINE p == parts[i]
    <2>1. p \in Seq(Nat) /\ Lists(p, ToSet(p))
      BY <1>1
    <2>2. u[i] = Sort(p, SmallerFirst(p))
      OBVIOUS
    <2>. HIDE DEF p, u
    <2>3. /\ Lists(u[i], ToSet(p)) /\ ToSet(u[i]) = ToSet(p)
          /\ Len(u[i]) = Len(p) /\ u[i] \in Seq(Nat)
      BY <2>1, <2>2, PartSorted
    <2>. QED BY <2>3 DEF p
  <1>3. u \in [1 .. k -> Seq(Nat)]
    <2>1. \A i \in 1 .. k : Sort(parts[i], SmallerFirst(parts[i])) \in Seq(Nat)
      BY <1>2
    <2>. QED BY <2>1
  <1>. HIDE DEF u
  <1>4. UNION {ToSet(u[i]) : i \in 1 .. k} = 1 .. n
    <2>1. {ToSet(u[i]) : i \in 1 .. k} = {ToSet(parts[i]) : i \in 1 .. k}
      BY <1>2
    <2>. QED BY <1>1, <2>1
  <1>5. Divides(u, k, n)
    <2>1. \A i \in 1 .. k : Lists(u[i], ToSet(u[i])) /\ ToSet(u[i]) # {}
      BY <1>1, <1>2
    <2>2. \A i, j \in 1 .. k : i # j => ToSet(u[i]) \cap ToSet(u[j]) = {}
      BY <1>1, <1>2
    <2>. QED BY <1>3, <1>4, <2>1, <2>2 DEF Divides
  <1>6. Balanced(u, work, k, D)
    <2>1. \A i \in 1 .. k : SumOver(work, u[i]) = SumOver(work, parts[i])
      BY <1>2, SumIsWeight
    <2>. QED BY <1>1, <2>1 DEF Balanced
  <1>7. ASSUME EquallySized(parts, n) PROVE EquallySized(u, n)
    <2>1. DOMAIN u = 1 .. k /\ DOMAIN parts = 1 .. k /\ Len(u) = k /\ Len(parts) = k
      BY <1>1, <1>3, LengthOfFunction
    <2>2. \A i \in 1 .. k : Len(u[i]) = Len(parts[i])
      BY <1>2
    <2>3. \A i \in 1 .. k : Len(parts[i]) * k = n
      BY <1>7, <2>1 DEF EquallySized
    <2>4. \A i \in 1 .. k : Len(u[i]) * k = n
      BY <2>2, <2>3
    <2>. QED BY <2>1, <2>4 DEF EquallySized
  <1>8. FairParts(u, work, n, k, equalSize, D)
    BY <1>1, <1>5, <1>6, <1>7 DEF FairParts
  <1>. QED BY <1>8 DEF u

\* get_seqlen_balanced_partitions returns such parts, and what it asserts of them
\* holds.
THEOREM BalancedPartitionsDivide ==
    ASSUME NEW n \in Nat, NEW work \in [1 .. n -> Nat \ {0}], NEW k \in 1 .. n,
           NEW equalSize, Accepted(n, k, equalSize),
           NEW D \in Nat, Apart(work, n, k, equalSize, D)
    PROVE  FairParts(BalancedPartitions(work, k, equalSize), work, n, k, equalSize, D)
  <1>. DEFINE parts == KarmarkarKarp(work, k, equalSize)
  <1>1. FairParts(parts, work, n, k, equalSize, D)
    BY KarmarkarKarpDivides
  <1>2. BalancedPartitions(work, k, equalSize)
           = [i \in 1 .. k |-> Sort(parts[i], SmallerFirst(parts[i]))]
    BY DEF BalancedPartitions
  <1>. HIDE DEF parts
  <1>3. k \in Nat
    OBVIOUS
  <1>. QED BY <1>1, <1>2, <1>3, PartsSorted

LEMMA DivisionIsPartition ==
    ASSUME NEW n \in Nat, NEW k \in Nat, NEW parts, Divides(parts, k, n)
    PROVE  IsPartition(parts, n)
  <1>1. /\ parts \in [1 .. k -> Seq(Nat)]
        /\ \A i \in 1 .. k : ToSet(parts[i]) # {}
        /\ UNION {ToSet(parts[i]) : i \in 1 .. k} = 1 .. n
    BY DEF Divides
  <1>2. DOMAIN parts = 1 .. k
    BY <1>1
  <1>3. ToSet(<<>>) = {}
    BY ListsNothing, ElementsOf
  <1>. QED BY <1>1, <1>2, <1>3 DEF IsPartition

\* The parts as a set.
LEMMA DivisionIsSet ==
    ASSUME NEW n \in Nat, NEW k \in Nat, NEW parts, Divides(parts, k, n)
    PROVE  IsDivision(ToSet(parts), 1 .. n) /\ Lists(parts, ToSet(parts)) /\ Len(parts) = k
  <1>1. /\ parts \in [1 .. k -> Seq(Nat)]
        /\ \A i \in 1 .. k : Lists(parts[i], ToSet(parts[i])) /\ ToSet(parts[i]) # {}
        /\ \A i, j \in 1 .. k : i # j => ToSet(parts[i]) \cap ToSet(parts[j]) = {}
        /\ UNION {ToSet(parts[i]) : i \in 1 .. k} = 1 .. n
    BY DEF Divides
  <1>2. parts \in Seq(Seq(Nat)) /\ Len(parts) = k /\ DOMAIN parts = 1 .. k
    BY <1>1, LengthOfFunction
  <1>3. ToSet(parts) = {parts[i] : i \in 1 .. k}
    BY <1>2 DEF ToSet
  <1>. DEFINE P == {parts[i] : i \in 1 .. k}
  <1>4. IsDivision(P, 1 .. n)
    <2>1. UNION {ToSet(p) : p \in P} = UNION {ToSet(parts[i]) : i \in 1 .. k}
      OBVIOUS
    <2>2. \A p \in P : Lists(p, ToSet(p)) /\ ToSet(p) # {}
      BY <1>1
    <2>3. \A p, q \in P : p # q => ToSet(p) \cap ToSet(q) = {}
      BY <1>1
    <2>. HIDE DEF P
    <2>. QED BY <1>1, <2>1, <2>2, <2>3 DEF IsDivision
  <1>5. Lists(parts, P)
    <2>1. \A i, j \in 1 .. k : parts[i] = parts[j] => i = j
      BY <1>1
    <2>2. \A p \in P : \E i \in 1 .. k : parts[i] = p
      OBVIOUS
    <2>3. parts \in [1 .. k -> P]
      BY <1>1
    <2>. HIDE DEF P
    <2>4. parts \in Seq(P)
      BY <2>3, LengthOfFunction
    <2>. QED BY <1>2, <2>1, <2>2, <2>4 DEF Lists
  <1>. HIDE DEF P
  <1>. QED BY <1>2, <1>3, <1>4, <1>5 DEF P
-----------------------------------------------------------------------------
(***************************************************************************)
(* Micro-batches and batches of ranks.                                     *)
(***************************************************************************)
\* Positions ordered by two numbers each.
Lexicographic(R, v, w, n) ==
    /\ v \in [1 .. n -> Int] /\ w \in [1 .. n -> Int]
    /\ R \subseteq Pairs(n)
    /\ \A i, j \in 1 .. n :
          <<i, j>> \in R <=> v[i] < v[j] \/ (v[i] = v[j] /\ w[i] < w[j])

LEMMA LexicographicOrder ==
    ASSUME NEW n \in Nat, NEW R, NEW v, NEW w, Lexicographic(R, v, w, n)
    PROVE  WeakOrder(R, n)
  <1>1. /\ \A i \in 1 .. n : v[i] \in Int /\ w[i] \in Int
        /\ R \subseteq Pairs(n)
        /\ \A i, j \in 1 .. n :
              <<i, j>> \in R <=> v[i] < v[j] \/ (v[i] = v[j] /\ w[i] < w[j])
    BY DEF Lexicographic
  <1>2. \A i, j \in 1 .. n : <<i, j>> \in R => <<j, i>> \notin R
    BY <1>1
  <1>3. \A i, j, l \in 1 .. n : <<i, l>> \in R => <<i, j>> \in R \/ <<j, l>> \in R
    BY <1>1
  <1>. QED BY <1>1, <1>2, <1>3 DEF WeakOrder

\* _balance_batch's order of a part lists the same rows.
LEMMA SmallAtBothEndsOf ==
    ASSUME NEW n \in Nat, NEW work \in [1 .. n -> Nat], NEW part,
           Lists(part, ToSet(part)), ToSet(part) \subseteq 1 .. n
    PROVE  /\ Lists(SmallAtBothEnds(work, part), ToSet(part))
           /\ Len(SmallAtBothEnds(work, part)) = Len(part)
  <1>. DEFINE R == {p \in Pairs(Len(part)) :
                       \/ work[part[p[1]]] < work[part[p[2]]]
                       \/ /\ work[part[p[1]]] = work[part[p[2]]]
                          /\ part[p[1]] < part[p[2]]}
              v == [i \in 1 .. Len(part) |-> work[part[i]]]
              w == [i \in 1 .. Len(part) |-> part[i]]
              sorted == Sort(part, R)
  <1>1. part \in Seq(ToSet(part)) /\ Len(part) \in Nat
    BY DEF Lists
  <1>2. ASSUME NEW i \in 1 .. Len(part)
        PROVE  part[i] \in 1 .. n /\ part[i] \in Int /\ work[part[i]] \in Int
    <2>1. part[i] \in 1 .. n
      BY <1>1, ElementOfSeq
    <2>2. work[part[i]] \in Nat
      BY <2>1
    <2>. QED BY <2>1, <2>2
  <1>3. v \in [1 .. Len(part) -> Int] /\ w \in [1 .. Len(part) -> Int]
    BY <1>2
  <1>4. \A i \in 1 .. Len(part) : v[i] = work[part[i]] /\ w[i] = part[i]
    OBVIOUS
  <1>. HIDE DEF v, w
  <1>5. ASSUME NEW i \in 1 .. Len(part), NEW j \in 1 .. Len(part)
        PROVE  <<i, j>> \in R <=> v[i] < v[j] \/ (v[i] = v[j] /\ w[i] < w[j])
    BY <1>4 DEF Pairs
  <1>6. R \subseteq Pairs(Len(part))
    OBVIOUS
  <1>. HIDE DEF R
  <1>7. Lexicographic(R, v, w, Len(part))
    BY <1>3, <1>5, <1>6 DEF Lexicographic
  <1>8. WeakOrder(R, Len(part))
    BY <1>1, <1>7, LexicographicOrder
  <1>9. Lists(sorted, ToSet(part)) /\ Len(sorted) = Len(part)
    BY <1>8, ListsSorted
  <1>10. SmallAtBothEnds(work, part) = EverySecond(sorted) \o Reverse(EveryOther(sorted))
    BY DEF SmallAtBothEnds, R
  <1>. HIDE DEF sorted
  <1>. QED BY <1>9, <1>10, SmallAtBothEndsLists

\* What a rank needs of its micro-batches: one after the other they are an order of
\* its rows.
Covers(parts, k, n) ==
    /\ parts \in [1 .. k -> Seq(1 .. n)]
    /\ IsPermutation(FlattenSeq(parts), n)

\* Two micro-batches differ by no more than D.
Alike(parts, work, D) ==
    \A p, q \in ToSet(parts) : SumOver(work, p) - SumOver(work, q) <= D

\* rearrange_micro_batches only changes the order of the parts.
LEMMA RearrangedDivides ==
    ASSUME NEW n \in Nat, NEW work \in [1 .. n -> Nat \ {0}], NEW k \in 1 .. n,
           NEW D \in Nat, RowsAtMost(work, n, D)
    PROVE  /\ Covers(RearrangedMicroBatches(work, k), k, n)
           /\ Alike(RearrangedMicroBatches(work, k), work, D)
           /\ IsPartition(BalancedPartitions(work, k, FALSE), n)
  <1>. DEFINE parts == BalancedPartitions(work, k, FALSE)
              R == {p \in Pairs(k) :
                       \/ SumOver(work, parts[p[1]]) > SumOver(work, parts[p[2]])
                       \/ /\ SumOver(work, parts[p[1]]) = SumOver(work, parts[p[2]])
                          /\ parts[p[1]][1] > parts[p[2]][1]}
              v == [i \in 1 .. k |-> 0 - SumOver(work, parts[i])]
              w == [i \in 1 .. k |-> 0 - parts[i][1]]
              sorted == Sort(parts, R)
              micros == Reverse(EverySecond(sorted)) \o EveryOther(sorted)
  <1>0. k \in Nat
    OBVIOUS
  <1>1. FairParts(parts, work, n, k, FALSE, D)
    <2>1. Accepted(n, k, FALSE)
      BY DEF Accepted
    <2>2. Apart(work, n, k, FALSE, D)
      BY DEF Apart
    <2>. QED BY <2>1, <2>2, BalancedPartitionsDivide, Zenon
  <1>2. RearrangedMicroBatches(work, k) = micros
    BY DEF RearrangedMicroBatches
  <1>. HIDE DEF parts
  <1>3. /\ Divides(parts, k, n) /\ Balanced(parts, work, k, D)
    BY <1>1 DEF FairParts
  <1>4. IsDivision(ToSet(parts), 1 .. n) /\ Lists(parts, ToSet(parts)) /\ Len(parts) = k
    BY <1>0, <1>3, DivisionIsSet
  <1>5. ASSUME NEW i \in 1 .. k
        PROVE  SumOver(work, parts[i]) \in Int /\ parts[i][1] \in Int
    <2>1. SumOver(work, parts[i]) \in Nat
      BY SumIsWeight, WeightType
    <2>2. parts[i] \in Seq(Nat) /\ ToSet(parts[i]) # {}
      BY <1>3 DEF Divides
    <2>3. Len(parts[i]) # 0
      <3>1. Len(parts[i]) = 0 => parts[i] = <<>>
        BY <2>2
      <3>2. ToSet(<<>>) = {}
        BY ListsNothing, ElementsOf
      <3>. QED BY <2>2, <3>1, <3>2
    <2>4. parts[i][1] \in Nat
      BY <2>2, <2>3, ElementOfSeq
    <2>. QED BY <2>1, <2>4
  <1>6. v \in [1 .. k -> Int] /\ w \in [1 .. k -> Int]
    BY <1>5
  <1>7. \A i \in 1 .. k : v[i] = 0 - SumOver(work, parts[i]) /\ w[i] = 0 - parts[i][1]
    OBVIOUS
  <1>. HIDE DEF v, w
  <1>8. ASSUME NEW i \in 1 .. k, NEW j \in 1 .. k
        PROVE  <<i, j>> \in R <=> v[i] < v[j] \/ (v[i] = v[j] /\ w[i] < w[j])
    <2>. DEFINE a == SumOver(work, parts[i])
                b == SumOver(work, parts[j])
                c == parts[i][1]
                d == parts[j][1]
    <2>1. <<i, j>> \in R <=> a > b \/ (a = b /\ c > d)
      BY DEF Pairs
    <2>2. a \in Int /\ b \in Int /\ c \in Int /\ d \in Int
      BY <1>5
    <2>3. v[i] = 0 - a /\ v[j] = 0 - b /\ w[i] = 0 - c /\ w[j] = 0 - d
      BY <1>7
    <2>. HIDE DEF a, b, c, d, R
    <2>. QED BY <2>1, <2>2, <2>3
  <1>9. R \subseteq Pairs(k)
    OBVIOUS
  <1>. HIDE DEF R
  <1>10. Lexicographic(R, v, w, k)
    BY <1>6, <1>8, <1>9 DEF Lexicographic
  <1>11. WeakOrder(R, Len(parts))
    BY <1>0, <1>4, <1>10, LexicographicOrder
  <1>12. Lists(sorted, ToSet(parts)) /\ Len(sorted) = k
    BY <1>4, <1>11, ListsSorted
  <1>. HIDE DEF sorted
  <1>13. Lists(micros, ToSet(parts)) /\ Len(micros) = k
    BY <1>12, SmallestAtBothEndsLists
  <1>. HIDE DEF micros
  <1>14. IsPermutation(FlattenSeq(micros), n)
    BY <1>4, <1>13, DivisionFlattened, ListsInterval
  <1>15. micros \in [1 .. k -> Seq(1 .. n)]
    <2>1. micros \in Seq(ToSet(parts))
      BY <1>13 DEF Lists
    <2>2. ToSet(parts) \subseteq Seq(1 .. n)
      <3>. SUFFICES ASSUME NEW p \in ToSet(parts) PROVE p \in Seq(1 .. n)
        OBVIOUS
      <3>1. Lists(p, ToSet(p)) /\ ToSet(p) \subseteq 1 .. n
        BY <1>4 DEF IsDivision
      <3>2. p \in Seq(ToSet(p))
        BY <3>1 DEF Lists
      <3>. QED BY <3>1, <3>2, SeqMonotonic
    <2>3. micros \in Seq(Seq(1 .. n))
      BY <2>1, <2>2, SeqMonotonic
    <2>. QED BY <1>13, <2>3, LenProperties
  <1>16. Alike(micros, work, D)
    <2>1. ToSet(micros) = ToSet(parts)
      BY <1>13, ElementsOf
    <2>2. ASSUME NEW p \in ToSet(parts) PROVE \E i \in 1 .. k : parts[i] = p
      BY <1>4 DEF Lists
    <2>. QED BY <1>3, <2>1, <2>2 DEF Alike, Balanced
  <1>17. IsPartition(parts, n)
    BY <1>0, <1>3, DivisionIsPartition
  <1>. QED BY <1>2, <1>14, <1>15, <1>16, <1>17 DEF Covers, parts
\* DataProto.split cuts rows into parts that, one after the other, are the rows.
LEMMA SplitCovers ==
    ASSUME NEW n \in Nat \ {0}, NEW size \in Nat \ {0}
    PROVE  /\ CeilDiv(n, size) \in Nat
           /\ Covers(Split(n, size), CeilDiv(n, size), n)
           /\ FlattenSeq(Split(n, size)) = [i \in 1 .. n |-> i]
  <1>. DEFINE k == CeilDiv(n, size)
              parts == Split(n, size)
              upTo(m) == Min({m * size, n})
              f == [m \in 0 .. k |-> [i \in 1 .. upTo(m) |-> i]]
  <1>0. n \in Nat /\ size \in Nat /\ n >= 1 /\ size >= 1
    OBVIOUS
  <1>1. k \in Nat /\ k * size >= n /\ (k - 1) * size < n
    <2>. DEFINE q == (n + size - 1) \div size
                r == (n + size - 1) % size
    <2>1. q \in Nat /\ r \in 0 .. size - 1 /\ n + size - 1 = q * size + r
      BY <1>0, SMTT(30)
    <2>2. k = q
      BY DEF CeilDiv
    <2>. HIDE DEF q, r, k
    <2>3. q * size >= n /\ (q - 1) * size = q * size - size
      BY <1>0, <2>1
    <2>4. (q - 1) * size < n
      BY <1>0, <2>1, <2>3
    <2>. QED BY <2>1, <2>2, <2>3, <2>4
  <1>. HIDE DEF k
  <1>2. ASSUME NEW m \in 0 .. k
        PROVE  /\ m * size \in Nat
               /\ upTo(m) = IF m * size <= n THEN m * size ELSE n
               /\ upTo(m) \in 0 .. n
    <2>1. m \in Nat /\ m * size \in Nat
      BY <1>0, <1>1
    <2>2. upTo(m) = IF m * size <= n THEN m * size ELSE n
      BY <1>0, <2>1, LessOfTwo
    <2>. HIDE DEF upTo
    <2>. QED BY <1>0, <2>1, <2>2
  <1>3. upTo(0) = 0 /\ upTo(k) = n
    <2>1. 0 \in 0 .. k /\ k \in 0 .. k /\ 0 * size = 0
      BY <1>0, <1>1
    <2>2. upTo(0) = IF 0 * size <= n THEN 0 * size ELSE n
      BY <1>2, <2>1
    <2>3. upTo(k) = IF k * size <= n THEN k * size ELSE n
      BY <1>2, <2>1
    <2>. HIDE DEF upTo
    <2>. QED BY <1>0, <1>1, <2>1, <2>2, <2>3
  \* Part m goes on where the parts before it end.
  <1>4. ASSUME NEW m \in 1 .. k
        PROVE  /\ m - 1 \in 0 .. k /\ m \in 0 .. k
               /\ (m - 1) * size = upTo(m - 1)
               /\ parts[m] = [i \in 1 .. upTo(m) - upTo(m - 1) |-> upTo(m - 1) + i]
               /\ upTo(m - 1) <= upTo(m)
    <2>1. m \in Nat /\ m - 1 \in Nat /\ k - 1 \in Nat /\ m - 1 <= k - 1
          /\ m - 1 \in 0 .. k /\ m \in 0 .. k
      BY <1>1
    <2>. DEFINE a == (m - 1) * size
    <2>2. a \in Nat /\ a < n /\ m * size = a + size
      <3>1. a <= (k - 1) * size /\ a \in Nat /\ (k - 1) * size \in Nat
        BY <1>0, <2>1, Times
      <3>2. m * size = a + size
        BY <1>0, <2>1
      <3>. HIDE DEF a
      <3>. QED BY <1>0, <1>1, <3>1, <3>2
    <2>3. upTo(m - 1) = IF a <= n THEN a ELSE n
      BY <1>2, <2>1
    <2>4. upTo(m) = IF m * size <= n THEN m * size ELSE n
      BY <1>2, <2>1
    <2>5. Min({size, n - a}) = IF size <= n - a THEN size ELSE n - a
      BY <1>0, <2>2, LessOfTwo
    <2>6. parts[m] = [i \in 1 .. Min({size, n - a}) |-> a + i]
      BY DEF Split, k
    <2>. HIDE DEF a, parts, upTo
    <2>7. upTo(m - 1) = a /\ upTo(m) - a = Min({size, n - a}) /\ a <= upTo(m)
      BY <1>0, <2>2, <2>3, <2>4, <2>5
    <2>8. upTo(m) - upTo(m - 1) = Min({size, n - a})
      BY <2>7
    <2>. QED BY <2>1, <2>6, <2>7, <2>8 DEF a
  <1>5. \A m \in 0 .. k : f[m] = [i \in 1 .. upTo(m) |-> i]
    OBVIOUS
  <1>6. DOMAIN parts = 1 .. k /\ f \in [0 .. k -> Seq(1 .. n)]
    <2>1. ASSUME NEW m \in 0 .. k PROVE [i \in 1 .. upTo(m) |-> i] \in Seq(1 .. n)
      <3>1. upTo(m) \in 0 .. n /\ upTo(m) \in Nat
        BY <1>2
      <3>. HIDE DEF upTo
      <3>2. [i \in 1 .. upTo(m) |-> i] \in [1 .. upTo(m) -> 1 .. n]
        BY <3>1
      <3>. QED BY <3>1, <3>2, LengthOfFunction
    <2>2. f \in [0 .. k -> Seq(1 .. n)]
      BY <2>1
    <2>3. DOMAIN parts = 1 .. k
      BY DEF Split, k
    <2>. QED BY <2>2, <2>3
  <1>7. ASSUME NEW m \in 1 .. k
        PROVE  parts[m] \in Seq(1 .. n) /\ f[m] = f[m - 1] \o parts[m]
    <2>. DEFINE a == upTo(m - 1)
                b == upTo(m)
                g == [i \in 1 .. b - a |-> a + i]
    <2>1. a \in 0 .. n /\ b \in 0 .. n /\ a <= b /\ parts[m] = g
      BY <1>2, <1>4
    <2>2. f[m] = [i \in 1 .. b |-> i] /\ f[m - 1] = [i \in 1 .. a |-> i]
      BY <1>4, <1>5
    <2>. HIDE DEF a, b, f, parts
    <2>3. a \in Nat /\ b \in Nat /\ b - a \in Nat
      BY <2>1
    <2>4. g \in [1 .. b - a -> 1 .. n]
      BY <2>1, <2>3
    <2>5. g \in Seq(1 .. n) /\ Len(g) = b - a
      BY <2>3, <2>4, LengthOfFunction
    <2>6. f[m] \in Seq(1 .. n) /\ Len(f[m]) = b /\ f[m - 1] \in Seq(1 .. n) /\ Len(f[m - 1]) = a
      <3>1. [i \in 1 .. b |-> i] \in [1 .. b -> 1 .. n] /\ [i \in 1 .. a |-> i] \in [1 .. a -> 1 .. n]
        BY <2>1, <2>3
      <3>. QED BY <2>2, <2>3, <3>1, LengthOfFunction
    <2>7. \A i \in 1 .. b - a : g[i] = a + i
      OBVIOUS
    <2>8. \A i \in 1 .. b : f[m][i] = i
      BY <2>2
    <2>9. \A i \in 1 .. a : f[m - 1][i] = i
      BY <2>2
    <2>. HIDE DEF g
    <2>. DEFINE h == f[m - 1] \o g
    <2>a. /\ h \in Seq(1 .. n)
          /\ Len(h) = Len(f[m - 1]) + Len(g)
          /\ \A i \in 1 .. Len(f[m - 1]) + Len(g) :
                h[i] = IF i <= Len(f[m - 1]) THEN f[m - 1][i] ELSE g[i - Len(f[m - 1])]
      BY <2>5, <2>6, ConcatProperties
    <2>10. h \in Seq(1 .. n) /\ Len(h) = b
      BY <2>3, <2>5, <2>6, <2>a
    <2>b. ASSUME NEW i \in 1 .. b
          PROVE  h[i] = IF i <= a THEN f[m - 1][i] ELSE g[i - a]
      <3>1. i \in 1 .. Len(f[m - 1]) + Len(g)
        BY <2>3, <2>5, <2>6
      <3>2. h[i] = IF i <= Len(f[m - 1]) THEN f[m - 1][i] ELSE g[i - Len(f[m - 1])]
        BY <2>a, <3>1
      <3>. HIDE DEF h
      <3>. QED BY <2>6, <3>2
    <2>. HIDE DEF h
    <2>11. ASSUME NEW i \in 1 .. b PROVE h[i] = f[m][i]
      <3>0. i \in Nat /\ h[i] = (IF i <= a THEN f[m - 1][i] ELSE g[i - a]) /\ f[m][i] = i
        BY <2>b, <2>8
      <3>1. CASE i <= a
        <4>1. i \in 1 .. a
          BY <2>3, <3>0, <3>1
        <4>2. f[m - 1][i] = i
          BY <2>9, <4>1
        <4>. QED BY <3>0, <3>1, <4>2
      <3>2. CASE ~ i <= a
        <4>1. h[i] = g[i - a] /\ i - a \in 1 .. b - a
          BY <2>3, <3>0, <3>2
        <4>2. g[i - a] = a + (i - a)
          BY <2>7, <4>1
        <4>3. a + (i - a) = i
          BY <2>3, <3>0
        <4>. QED BY <3>0, <4>1, <4>2, <4>3
      <3>. QED BY <3>1, <3>2
    <2>12. h = f[m]
      BY <2>6, <2>10, <2>11, SeqEqual
    <2>. QED BY <2>1, <2>5, <2>12 DEF h
  <1>8. parts \in [1 .. k -> Seq(1 .. n)]
    <2>1. parts = [m \in 1 .. k |-> parts[m]]
      BY DEF Split, k
    <2>. HIDE DEF parts
    <2>. QED BY <1>7, <2>1
  <1>9. f[0] = <<>> /\ f[k] = [i \in 1 .. n |-> i]
    <2>1. 0 \in 0 .. k /\ k \in 0 .. k
      BY <1>1
    <2>2. f[0] = [i \in 1 .. 0 |-> i] /\ f[k] = [i \in 1 .. n |-> i]
      BY <1>3, <1>5, <2>1
    <2>3. [i \in 1 .. 0 |-> i] = <<>>
      OBVIOUS
    <2>. HIDE DEF f
    <2>. QED BY <2>2, <2>3
  <1>. HIDE DEF parts, f, upTo
  <1>10. FlattenSeq(parts) = f[k]
    <2>1. k \in Nat /\ f \in [0 .. k -> Seq(1 .. n)] /\ f[0] = <<>>
      BY <1>1, <1>6, <1>9
    <2>2. \A i \in 1 .. k : f[i] = f[i - 1] \o parts[i]
      BY <1>7
    <2>. QED BY <1>8, <2>1, <2>2, FlattenIs
  <1>11. IsPermutation(f[k], n)
    BY <1>9 DEF IsPermutation
  <1>12. Covers(parts, k, n)
    BY <1>8, <1>10, <1>11 DEF Covers
  <1>13. FlattenSeq(parts) = [i \in 1 .. n |-> i]
    BY <1>9, <1>10
  <1>. QED BY <1>1, <1>12, <1>13 DEF parts, k
\* The first r parts one after the other.
LEMMA FlattenFirst ==
    ASSUME NEW S, NEW n \in Nat, NEW parts \in [1 .. n -> Seq(S)], NEW r \in 0 .. n,
           NEW f, Concatenations(f, parts, S, n)
    PROVE  FlattenSeq(SubSeq(parts, 1, r)) = f[r]
  <1>. DEFINE u == SubSeq(parts, 1, r)
              g == [i \in 0 .. r |-> f[i]]
  <1>1. r \in Nat /\ r <= n /\ 1 \in Int /\ r \in Int
    OBVIOUS
  <1>2. /\ f \in [0 .. n -> Seq(S)] /\ f[0] = <<>>
        /\ \A i \in 1 .. n : f[i] = f[i - 1] \o parts[i]
    BY DEF Concatenations
  <1>3. u \in [1 .. r -> Seq(S)] /\ \A i \in 1 .. r : u[i] = parts[i]
    <2>1. \A i \in 1 .. r : parts[i] \in Seq(S)
      BY <1>1
    <2>2. /\ u \in Seq(Seq(S))
          /\ Len(u) = IF 1 <= r THEN r - 1 + 1 ELSE 0
          /\ \A i \in 1 .. r - 1 + 1 : u[i] = parts[1 + i - 1]
      BY <1>1, <2>1, SubSeqProperties
    <2>. HIDE DEF u
    <2>3. Len(u) = r
      BY <1>1, <2>2
    <2>4. u \in [1 .. r -> Seq(S)]
      BY <2>2, <2>3, LenProperties
    <2>5. ASSUME NEW i \in 1 .. r PROVE u[i] = parts[i]
      <3>1. i \in 1 .. r - 1 + 1 /\ 1 + i - 1 = i
        BY <1>1
      <3>. QED BY <2>2, <3>1
    <2>. QED BY <2>4, <2>5
  <1>. HIDE DEF u
  <1>4. g \in [0 .. r -> Seq(S)] /\ \A i \in 0 .. r : g[i] = f[i]
    BY <1>1, <1>2
  <1>. HIDE DEF g
  <1>5. g[0] = <<>> /\ g[r] = f[r]
    BY <1>1, <1>2, <1>4
  <1>6. ASSUME NEW i \in 1 .. r PROVE g[i] = g[i - 1] \o u[i]
    <2>1. i \in 1 .. n /\ i \in 0 .. r /\ i - 1 \in 0 .. r
      BY <1>1
    <2>2. g[i] = f[i] /\ g[i - 1] = f[i - 1] /\ u[i] = parts[i] /\ f[i] = f[i - 1] \o parts[i]
      BY <1>2, <1>3, <1>4, <2>1
    <2>. QED BY <2>2
  <1>7. FlattenSeq(u) = g[r]
    BY <1>1, <1>3, <1>4, <1>5, <1>6, FlattenIs
  <1>. QED BY <1>5, <1>7 DEF u

\* The results of the first micro-batches, and of one more.
LEMMA FlattenMore ==
    ASSUME NEW S, NEW n \in Nat, NEW parts \in [1 .. n -> Seq(S)]
    PROVE  /\ FlattenSeq(SubSeq(parts, 1, 0)) = <<>>
           /\ FlattenSeq(SubSeq(parts, 1, n)) = FlattenSeq(parts)
           /\ \A r \in 1 .. n :
                 /\ FlattenSeq(SubSeq(parts, 1, r - 1)) \in Seq(S)
                 /\ FlattenSeq(SubSeq(parts, 1, r))
                       = FlattenSeq(SubSeq(parts, 1, r - 1)) \o parts[r]
  <1>1. PICK f : Concatenations(f, parts, S, n)
    BY PartialConcatenations
  <1>2. /\ f \in [0 .. n -> Seq(S)] /\ f[0] = <<>>
        /\ \A i \in 1 .. n : f[i] = f[i - 1] \o parts[i]
        /\ FlattenSeq(parts) = f[n]
    BY <1>1 DEF Concatenations
  <1>3. \A r \in 0 .. n : FlattenSeq(SubSeq(parts, 1, r)) = f[r]
    BY <1>1, FlattenFirst
  <1>4. 0 \in 0 .. n /\ n \in 0 .. n
    OBVIOUS
  <1>5. ASSUME NEW r \in 1 .. n
        PROVE  /\ FlattenSeq(SubSeq(parts, 1, r - 1)) \in Seq(S)
               /\ FlattenSeq(SubSeq(parts, 1, r))
                     = FlattenSeq(SubSeq(parts, 1, r - 1)) \o parts[r]
    <2>1. r - 1 \in 0 .. n /\ r \in 0 .. n
      OBVIOUS
    <2>2. FlattenSeq(SubSeq(parts, 1, r - 1)) = f[r - 1] /\ FlattenSeq(SubSeq(parts, 1, r)) = f[r]
      BY <1>3, <2>1
    <2>3. f[r - 1] \in Seq(S) /\ f[r] = f[r - 1] \o parts[r]
      BY <1>2, <2>1
    <2>. QED BY <2>2, <2>3
  <1>6. FlattenSeq(SubSeq(parts, 1, 0)) = <<>> /\ FlattenSeq(SubSeq(parts, 1, n)) = FlattenSeq(parts)
    BY <1>2, <1>3, <1>4
  <1>. QED BY <1>5, <1>6

\* A rank needs a micro-batch, and no more than it has rows.
LEMMA MicroBatchesNeeded ==
    ASSUME NEW n \in Nat \ {0}, NEW lens \in [1 .. n -> Nat \ {0}], NEW m \in Nat \ {0}
    PROVE  MicroBatchesFor(lens, m) \in 1 .. n
  <1>1. n \in Nat /\ lens \in [1 .. n -> Nat] /\ n \in 1 .. n /\ n - 1 \in 0 .. n
    OBVIOUS
  <1>2. PICK f \in [0 .. n -> Nat] : /\ f[0] = 0
                                     /\ \A i \in 1 .. n : f[i] = f[i - 1] + lens[i]
                                     /\ TotalOf(lens) = f[n]
    BY <1>1, PartialSums
  <1>. DEFINE t == TotalOf(lens)
              c == CeilDiv(t, m)
  <1>3. t \in Nat \ {0}
    <2>1. f[n - 1] \in Nat /\ lens[n] \in Nat \ {0} /\ t = f[n - 1] + lens[n]
      BY <1>1, <1>2
    <2>. HIDE DEF t
    <2>. QED BY <2>1
  <1>4. c \in Nat \ {0}
    <2>. HIDE DEF t
    <2>. DEFINE a == t + m - 1
                q == a \div m
                d == a % m
    <2>1. m <= a /\ a \in Nat /\ m \in Nat
      BY <1>3
    <2>2. q = c
      BY DEF CeilDiv
    <2>. HIDE DEF a, c
    <2>3. q \in Nat /\ d \in 0 .. m - 1 /\ a = q * m + d
      BY <2>1, SMTT(30)
    <2>. HIDE DEF q, d
    <2>4. q # 0
      BY <2>1, <2>3
    <2>. QED BY <2>2, <2>3, <2>4
  <1>5. Len(lens) = n
    BY <1>1, LengthOfFunction
  <1>6. MicroBatchesFor(lens, m) = Min({n, c})
    BY <1>5 DEF MicroBatchesFor
  <1>. HIDE DEF c
  <1>7. Min({n, c}) = IF n <= c THEN n ELSE c
    BY <1>4, LessOfTwo
  <1>. QED BY <1>4, <1>6, <1>7

\* No row weighs more than all of them, and one of them the most.
LEMMA LargestRow ==
    ASSUME NEW n \in Nat \ {0}, NEW work \in [1 .. n -> Nat \ {0}]
    PROVE  /\ Max(ToSet(work)) \in Nat
           /\ RowsAtMost(work, n, Max(ToSet(work)))
  <1>. DEFINE all == Weight(work, 1 .. n)
              T == ToSet(work)
  <1>1. n \in Nat /\ work \in [1 .. n -> Nat] /\ DOMAIN work = 1 .. n
    OBVIOUS
  <1>2. all \in Nat
    BY <1>1, WeightType
  <1>3. ASSUME NEW r \in 1 .. n PROVE work[r] \in 0 .. all
    <2>1. /\ Weight(work, {r}) = work[r]
          /\ Weight(work, (1 .. n) \ {r}) \in Nat
      BY <1>1, WeightType, WeightOfOne
    <2>2. {r} \cap ((1 .. n) \ {r}) = {} /\ {r} \cup ((1 .. n) \ {r}) = 1 .. n
      OBVIOUS
    <2>3. Weight(work, {r} \cup ((1 .. n) \ {r}))
             = Weight(work, {r}) + Weight(work, (1 .. n) \ {r})
      BY <1>1, <2>2, WeightAdds
    <2>4. all = work[r] + Weight(work, (1 .. n) \ {r})
      BY <2>1, <2>2, <2>3
    <2>5. work[r] \in Nat
      BY <1>1
    <2>. HIDE DEF all
    <2>. QED BY <1>2, <2>1, <2>4, <2>5
  <1>4. T = {work[r] : r \in 1 .. n}
    BY <1>1 DEF ToSet
  <1>5. T \subseteq 0 .. all
    BY <1>3, <1>4
  <1>6. T # {}
    <2>1. 1 \in 1 .. n
      BY <1>1
    <2>. HIDE DEF T
    <2>. QED BY <1>4, <2>1
  <1>. HIDE DEF T, all
  <1>7. Max(T) \in T /\ \A x \in T : x <= Max(T)
    BY <1>2, <1>5, <1>6, GreatestElement
  <1>8. Max(T) \in Nat
    <2>1. Max(T) \in 0 .. all
      BY <1>5, <1>7
    <2>. QED BY <1>2, <2>1
  <1>9. \A r \in 1 .. n : work[r] <= Max(T)
    BY <1>4, <1>7
  <1>10. RowsAtMost(work, n, Max(T))
    BY <1>9 DEF RowsAtMost
  <1>. QED BY <1>8, <1>10 DEF T
\* The sorted list goes up.
LEMMA AscendingAscends ==
    ASSUME NEW n \in Nat, NEW work \in [1 .. n -> Int]
    PROVE  /\ IsPermutation(Ascending(work), n)
           /\ \A i, j \in 1 .. n :
                 i < j => work[Ascending(work)[i]] <= work[Ascending(work)[j]]
  <1>. DEFINE id == [i \in 1 .. n |-> i]
  <1>1. /\ Len(work) = n /\ Len(id) = n
        /\ \A i \in 1 .. n : work[i] \in Int
    BY LengthOfFunction
  <1>2. WeakOrder(SmallerFirst(work), n)
    BY <1>1, SmallerIsOrder
  <1>3. Ascending(work) = Sort(id, SmallerFirst(work))
    BY <1>1 DEF Ascending
  <1>4. PICK p : SortedBy(Ascending(work), id, n, SmallerFirst(work), p)
    BY <1>1, <1>2, <1>3, SortSorts
  <1>5. /\ IsPermutation(p, n)
        /\ Ascending(work) = [k \in 1 .. n |-> id[p[k]]]
        /\ \A k, l \in 1 .. n : k < l => <<p[l], p[k]>> \notin SmallerFirst(work)
    BY <1>4 DEF SortedBy
  <1>6. p \in [1 .. n -> 1 .. n]
    BY <1>5 DEF IsPermutation
  <1>7. Ascending(work) = p
    <2>1. \A k \in 1 .. n : id[p[k]] = p[k]
      BY <1>6
    <2>2. [k \in 1 .. n |-> id[p[k]]] = p
      BY <1>6, <2>1
    <2>. QED BY <1>5, <2>2
  <1>8. ASSUME NEW i \in 1 .. n, NEW j \in 1 .. n, i < j
        PROVE  work[p[i]] <= work[p[j]]
    <2>1. <<p[j], p[i]>> \notin SmallerFirst(work)
      BY <1>5, <1>8
    <2>2. p[i] \in 1 .. n /\ p[j] \in 1 .. n
      BY <1>6
    <2>3. ~ (work[p[j]] < work[p[i]])
      BY <1>1, <2>1, <2>2 DEF SmallerFirst, Pairs
    <2>4. work[p[j]] \in Int /\ work[p[i]] \in Int
      BY <1>1, <2>2
    <2>. QED BY <2>3, <2>4
  <1>. HIDE DEF id
  <1>. QED BY <1>5, <1>7, <1>8

\* The most that k neighbours of the sorted list differ by, which are the rows that
\* parts of equal size begin with.
BlockSpread(work, k, c) ==
    Max({work[Ascending(work)[i * k]] - work[Ascending(work)[(i - 1) * k + 1]] : i \in 1 .. c})

LEMMA LargestSpread ==
    ASSUME NEW c \in Nat \ {0}, NEW k \in Nat \ {0}, NEW n \in Nat, n = c * k,
           NEW work \in [1 .. n -> Nat \ {0}]
    PROVE  /\ BlockSpread(work, k, c) \in Nat
           /\ NeighboursWithin(work, n, k, BlockSpread(work, k, c))
  <1>. DEFINE A == Ascending(work)
              w(i) == work[A[i]]
              T == {w(i * k) - w((i - 1) * k + 1) : i \in 1 .. c}
              b == Max(ToSet(work))
  <1>1. c \in Nat /\ k \in Nat /\ work \in [1 .. n -> Int] /\ k >= 1
    OBVIOUS
  <1>2. IsPermutation(A, n)
    BY <1>1, AscendingAscends
  <1>3. \A i, j \in 1 .. n : i < j => w(i) <= w(j)
    BY <1>1, AscendingAscends
  <1>0. n \in Nat \ {0}
    BY <1>1
  <1>4. b \in Nat /\ RowsAtMost(work, n, b)
    BY <1>0, LargestRow
  <1>. HIDE DEF b
  <1>5. ASSUME NEW i \in 1 .. n PROVE w(i) \in 0 .. b
    <2>1. A[i] \in 1 .. n
      BY <1>2 DEF IsPermutation
    <2>2. work[A[i]] \in Nat /\ work[A[i]] <= b
      BY <1>4, <2>1 DEF RowsAtMost
    <2>. HIDE DEF A
    <2>. QED BY <1>4, <2>2
  <1>. HIDE DEF w, A
  \* The places of a block.
  <1>6. ASSUME NEW x \in 0 .. c - 1, NEW i \in 1 .. k
        PROVE  x * k + i \in 1 .. n
    BY <1>1, Blocks
  <1>7. ASSUME NEW x \in 0 .. c - 1
        PROVE  /\ x + 1 \in 1 .. c
               /\ (x + 1) * k = x * k + k /\ (x + 1 - 1) * k + 1 = x * k + 1
               /\ x * k + k \in 1 .. n /\ x * k + 1 \in 1 .. n
    <2>1. k \in 1 .. k /\ 1 \in 1 .. k
      BY <1>1
    <2>2. x * k + k \in 1 .. n /\ x * k + 1 \in 1 .. n
      BY <1>6, <2>1
    <2>3. x + 1 \in 1 .. c /\ x \in Nat
      BY <1>1
    <2>4. (x + 1) * k = x * k + k /\ (x + 1 - 1) * k + 1 = x * k + 1
      BY <1>1, <2>3
    <2>. QED BY <2>2, <2>3, <2>4
  <1>8. ASSUME NEW x \in 0 .. c - 1, NEW i \in 1 .. k
        PROVE  w(x * k + 1) <= w(x * k + i) /\ w(x * k + i) <= w(x * k + k)
    <2>. DEFINE y == x * k
    <2>1. /\ y + 1 \in 1 .. n /\ y + i \in 1 .. n /\ y + k \in 1 .. n
          /\ y \in Nat /\ i \in Nat /\ i >= 1 /\ i <= k
      BY <1>1, <1>6, <1>7
    <2>. HIDE DEF y
    <2>2. w(y + 1) \in Nat /\ w(y + i) \in Nat /\ w(y + k) \in Nat
      BY <1>4, <1>5, <2>1
    <2>3. w(y + 1) <= w(y + i)
      <3>1. CASE i = 1
        BY <2>2, <3>1
      <3>2. CASE i # 1
        <4>1. y + 1 < y + i
          BY <2>1, <3>2
        <4>. QED BY <1>3, <2>1, <4>1
      <3>. QED BY <3>1, <3>2
    <2>4. w(y + i) <= w(y + k)
      <3>1. CASE i = k
        BY <2>2, <3>1
      <3>2. CASE i # k
        <4>1. y + i < y + k
          BY <1>1, <2>1, <3>2
        <4>. QED BY <1>3, <2>1, <4>1
      <3>. QED BY <3>1, <3>2
    <2>. QED BY <2>3, <2>4 DEF y
  <1>9. ASSUME NEW i \in 1 .. c
        PROVE  w(i * k) - w((i - 1) * k + 1) \in 0 .. b
    <2>. DEFINE x == i - 1
                y == x * k
    <2>1. x \in 0 .. c - 1 /\ x + 1 = i
      BY <1>1
    <2>2. i * k = y + k /\ (i - 1) * k + 1 = y + 1 /\ y + k \in 1 .. n /\ y + 1 \in 1 .. n
      BY <1>7, <2>1
    <2>3. k \in 1 .. k
      BY <1>1
    <2>4. w(y + 1) <= w(y + k)
      BY <1>8, <2>1, <2>3
    <2>5. w(y + k) \in 0 .. b /\ w(y + 1) \in 0 .. b
      BY <1>5, <2>2
    <2>. HIDE DEF x, y
    <2>6. w(y + k) - w(y + 1) \in 0 .. b
      BY <1>4, <2>4, <2>5
    <2>. QED BY <2>2, <2>6
  <1>10. T \subseteq 0 .. b
    BY <1>9
  <1>11. T # {}
    <2>1. 1 \in 1 .. c
      BY <1>1
    <2>. QED BY <2>1
  <1>12. \A x \in 0 .. c - 1 : w(x * k + k) - w(x * k + 1) \in T
    <2>. SUFFICES ASSUME NEW x \in 0 .. c - 1 PROVE w(x * k + k) - w(x * k + 1) \in T
      OBVIOUS
    <2>. DEFINE i == x + 1
    <2>1. i \in 1 .. c
      BY <1>7
    <2>3. i * k = x * k + k /\ (i - 1) * k + 1 = x * k + 1
      BY <1>7
    <2>. HIDE DEF i
    <2>2. w(i * k) - w((i - 1) * k + 1) \in T
      BY <2>1
    <2>. HIDE DEF T
    <2>. QED BY <2>2, <2>3
  <1>13. BlockSpread(work, k, c) = Max(T)
    BY DEF BlockSpread, w, A
  <1>. HIDE DEF T
  <1>. DEFINE D == Max(T)
  <1>14. D \in T /\ \A x \in T : x <= D
    BY <1>4, <1>10, <1>11, GreatestElement
  <1>. HIDE DEF D
  <1>15. D \in Nat
    <2>1. D \in 0 .. b
      BY <1>10, <1>14
    <2>. QED BY <1>4, <2>1
  <1>16. ASSUME NEW x \in 0 .. c - 1, NEW i \in 1 .. k, NEW j \in 1 .. k
         PROVE  w(x * k + i) - w(x * k + j) <= D
    <2>. DEFINE y == x * k
    <2>1. /\ w(y + 1) <= w(y + j) /\ w(y + i) <= w(y + k)
      BY <1>8
    <2>2. w(y + k) - w(y + 1) <= D
      BY <1>12, <1>14
    <2>3. /\ w(y + 1) \in 0 .. b /\ w(y + j) \in 0 .. b /\ w(y + i) \in 0 .. b
          /\ w(y + k) \in 0 .. b
      BY <1>5, <1>6, <1>7
    <2>. HIDE DEF y
    <2>4. w(y + i) - w(y + j) <= D
      BY <1>4, <1>15, <2>1, <2>2, <2>3
    <2>. QED BY <2>4 DEF y
  <1>17. n \div k = c
    BY <1>1, SMTT(30)
  <1>18. NeighboursWithin(work, n, k, D)
    <2>. SUFFICES ASSUME NEW x \in 0 .. c - 1
                  PROVE  Near([i \in 1 .. k |-> A[x * k + i]], work, k, D)
      BY <1>17 DEF NeighboursWithin, A
    <2>. DEFINE q == [i \in 1 .. k |-> A[x * k + i]]
    <2>1. ASSUME NEW i \in 1 .. k, NEW j \in 1 .. k PROVE work[q[i]] - work[q[j]] <= D
      <3>1. work[q[i]] = w(x * k + i) /\ work[q[j]] = w(x * k + j)
        BY DEF w
      <3>2. w(x * k + i) - w(x * k + j) <= D
        BY <1>16
      <3>. HIDE DEF q
      <3>. QED BY <3>1, <3>2
    <2>. HIDE DEF q
    <2>2. Near(q, work, k, D)
      BY <2>1 DEF Near
    <2>. QED BY <2>2 DEF q
  <1>. QED BY <1>13, <1>15, <1>18 DEF D
-----------------------------------------------------------------------------
(***************************************************************************)
(* Groups of rows.                                                         *)
(***************************************************************************)
\* The m rows of group g.
GroupRows(g, m) == [i \in 1 .. m |-> (g - 1) * m + i]

LEMMA GroupsOfRows ==
    ASSUME NEW c \in Nat, NEW m \in Nat \ {0}
    PROVE  /\ \A g \in 1 .. c : /\ GroupRows(g, m) \in Seq(Nat)
                                /\ Len(GroupRows(g, m)) = m
                                /\ Lists(GroupRows(g, m), ToSet(GroupRows(g, m)))
                                /\ ToSet(GroupRows(g, m)) # {}
           /\ \A g, h \in 1 .. c :
                 g # h => ToSet(GroupRows(g, m)) \cap ToSet(GroupRows(h, m)) = {}
           /\ UNION {ToSet(GroupRows(g, m)) : g \in 1 .. c} = 1 .. c * m
  <1>0. m \in Nat /\ 1 \in 1 .. m
    OBVIOUS
  <1>1. /\ \A x \in 0 .. c - 1, i \in 1 .. m : x * m + i \in 1 .. c * m
        /\ \A x, y \in 0 .. c - 1, i, j \in 1 .. m :
              x * m + i = y * m + j => x = y /\ i = j
        /\ \A r \in 1 .. c * m : \E x \in 0 .. c - 1, i \in 1 .. m : r = x * m + i
    BY Blocks
  <1>2. ASSUME NEW g \in 1 .. c, NEW i \in 1 .. m
        PROVE  g - 1 \in 0 .. c - 1 /\ GroupRows(g, m)[i] \in Nat
               /\ GroupRows(g, m)[i] = (g - 1) * m + i
    <2>1. g - 1 \in 0 .. c - 1 /\ i \in Nat
      OBVIOUS
    <2>2. GroupRows(g, m)[i] = (g - 1) * m + i
      BY DEF GroupRows
    <2>3. (g - 1) * m + i \in 1 .. c * m
      BY <1>1, <2>1
    <2>4. (g - 1) * m + i \in Nat
      BY <2>3
    <2>. QED BY <2>1, <2>2, <2>4
  <1>3. ASSUME NEW g \in 1 .. c
        PROVE  /\ GroupRows(g, m) \in Seq(Nat) /\ Len(GroupRows(g, m)) = m
               /\ DOMAIN GroupRows(g, m) = 1 .. m
    <2>1. GroupRows(g, m) = [i \in 1 .. m |-> GroupRows(g, m)[i]]
      BY DEF GroupRows
    <2>2. \A i \in 1 .. m : GroupRows(g, m)[i] \in Nat
      BY <1>2
    <2>3. GroupRows(g, m) \in [1 .. m -> Nat]
      BY <2>1, <2>2
    <2>. QED BY <1>0, <2>3, LengthOfFunction
  <1>4. ASSUME NEW g \in 1 .. c
        PROVE  ToSet(GroupRows(g, m)) = {GroupRows(g, m)[i] : i \in 1 .. m}
    BY <1>3 DEF ToSet
  <1>5. ASSUME NEW g \in 1 .. c
        PROVE  Lists(GroupRows(g, m), ToSet(GroupRows(g, m)))
               /\ ToSet(GroupRows(g, m)) # {}
    <2>. DEFINE s == GroupRows(g, m)
                T == ToSet(s)
    <2>1. s \in Seq(Nat) /\ Len(s) = m /\ DOMAIN s = 1 .. m /\ T = {s[i] : i \in 1 .. m}
      BY <1>3, <1>4
    <2>2. ASSUME NEW i \in 1 .. m, NEW j \in 1 .. m, s[i] = s[j] PROVE i = j
      <3>1. (g - 1) * m + i = (g - 1) * m + j /\ g - 1 \in 0 .. c - 1
        BY <1>2, <2>2
      <3>. HIDE DEF s
      <3>. QED BY <1>1, <3>1
    <2>. HIDE DEF s
    <2>3. s \in [1 .. m -> T]
      BY <2>1
    <2>4. s \in Seq(T)
      BY <1>0, <2>3, LengthOfFunction
    <2>5. \A x \in T : \E i \in 1 .. m : s[i] = x
      BY <2>1
    <2>6. T # {}
      BY <1>0, <2>1
    <2>. HIDE DEF T
    <2>7. Lists(s, T)
      BY <2>1, <2>2, <2>4, <2>5 DEF Lists
    <2>. QED BY <2>6, <2>7 DEF s, T
  <1>6. ASSUME NEW g \in 1 .. c, NEW h \in 1 .. c, g # h
        PROVE  ToSet(GroupRows(g, m)) \cap ToSet(GroupRows(h, m)) = {}
    <2>. SUFFICES ASSUME NEW i \in 1 .. m, NEW j \in 1 .. m,
                         GroupRows(g, m)[i] = GroupRows(h, m)[j]
                  PROVE  FALSE
      BY <1>4
    <2>1. /\ g - 1 \in 0 .. c - 1 /\ h - 1 \in 0 .. c - 1
          /\ (g - 1) * m + i = (h - 1) * m + j
      BY <1>2
    <2>2. g - 1 = h - 1
      BY <1>1, <2>1
    <2>. QED BY <1>6, <2>2
  <1>7. UNION {ToSet(GroupRows(g, m)) : g \in 1 .. c} = 1 .. c * m
    <2>1. ASSUME NEW g \in 1 .. c, NEW i \in 1 .. m PROVE GroupRows(g, m)[i] \in 1 .. c * m
      <3>1. g - 1 \in 0 .. c - 1 /\ GroupRows(g, m)[i] = (g - 1) * m + i
        BY <1>2
      <3>2. (g - 1) * m + i \in 1 .. c * m
        BY <1>1, <3>1
      <3>. QED BY <3>1, <3>2
    <2>2. ASSUME NEW r \in 1 .. c * m PROVE \E g \in 1 .. c, i \in 1 .. m : GroupRows(g, m)[i] = r
      <3>1. PICK x \in 0 .. c - 1, i \in 1 .. m : r = x * m + i
        BY <1>1
      <3>. DEFINE g == x + 1
      <3>2. g \in 1 .. c /\ g - 1 = x
        OBVIOUS
      <3>. HIDE DEF g
      <3>3. GroupRows(g, m)[i] = (g - 1) * m + i
        BY <1>2, <3>2
      <3>4. GroupRows(g, m)[i] = r
        BY <3>1, <3>2, <3>3
      <3>. QED BY <3>2, <3>4
    <2>. DEFINE U == UNION {ToSet(GroupRows(g, m)) : g \in 1 .. c}
                N == 1 .. c * m
    <2>3. ASSUME NEW r PROVE r \in U <=> \E g \in 1 .. c, i \in 1 .. m : GroupRows(g, m)[i] = r
      BY <1>4
    <2>. HIDE DEF U
    <2>4. ASSUME NEW r \in U PROVE r \in N
      BY <2>1, <2>3
    <2>5. ASSUME NEW r \in N PROVE r \in U
      BY <2>2, <2>3
    <2>6. U = N
      BY <2>4, <2>5
    <2>. QED BY <2>6 DEF U
  <1>. QED BY <1>3, <1>5, <1>6, <1>7

\* The rows of the groups of a part.
RowsOfGroups(part, m) == FlattenSeq([j \in 1 .. Len(part) |-> GroupRows(part[j], m)])

LEMMA RowsOfPart ==
    ASSUME NEW c \in Nat, NEW m \in Nat \ {0}, NEW part \in Seq(Nat),
           Lists(part, ToSet(part)), ToSet(part) \subseteq 1 .. c
    PROVE  /\ RowsOfGroups(part, m) \in Seq(Nat)
           /\ Lists(RowsOfGroups(part, m), ToSet(RowsOfGroups(part, m)))
           /\ Len(RowsOfGroups(part, m)) = Len(part) * m
           /\ ToSet(RowsOfGroups(part, m)) = UNION {ToSet(GroupRows(g, m)) : g \in ToSet(part)}
  <1>. DEFINE n == Len(part)
              blocks == [j \in 1 .. n |-> GroupRows(part[j], m)]
              T == [j \in 1 .. n |-> ToSet(GroupRows(part[j], m))]
              U == UNION {ToSet(GroupRows(g, m)) : g \in ToSet(part)}
  <1>1. n \in Nat /\ \A j \in 1 .. n : part[j] \in 1 .. c
    <2>1. part \in Seq(ToSet(part))
      BY DEF Lists
    <2>. QED BY <2>1, ElementOfSeq, LenProperties
  <1>2. /\ \A j \in 1 .. n : GroupRows(part[j], m) \in Seq(Nat) /\ Len(GroupRows(part[j], m)) = m
                             /\ Lists(GroupRows(part[j], m), ToSet(GroupRows(part[j], m)))
        /\ \A g, h \in 1 .. c :
              g # h => ToSet(GroupRows(g, m)) \cap ToSet(GroupRows(h, m)) = {}
    BY <1>1, GroupsOfRows
  <1>3. \A i, j \in 1 .. n : part[i] = part[j] => i = j
    BY DEF Lists
  <1>4. \A j \in 1 .. n : blocks[j] = GroupRows(part[j], m) /\ T[j] = ToSet(GroupRows(part[j], m))
    OBVIOUS
  <1>5. blocks \in [1 .. n -> Seq(Nat)]
    BY <1>2
  <1>6. T \in [1 .. n -> SUBSET Nat]
    <2>. SUFFICES ASSUME NEW j \in 1 .. n PROVE ToSet(GroupRows(part[j], m)) \in SUBSET Nat
      OBVIOUS
    <2>. DEFINE s == GroupRows(part[j], m)
    <2>1. s \in Seq(Nat) /\ Lists(s, ToSet(s))
      BY <1>2
    <2>. HIDE DEF s
    <2>2. \A x \in ToSet(s) : \E i \in 1 .. Len(s) : s[i] = x
      BY <2>1 DEF Lists
    <2>3. \A i \in 1 .. Len(s) : s[i] \in Nat
      BY <2>1, ElementOfSeq
    <2>. QED BY <2>2, <2>3 DEF s
  <1>7. UnionOf(T, n) = U
    <2>1. \A g \in ToSet(part) : \E i \in 1 .. n : part[i] = g
      BY DEF Lists
    <2>2. \A i \in 1 .. n : part[i] \in ToSet(part)
      <3>1. part \in Seq(ToSet(part))
        BY DEF Lists
      <3>. QED BY <3>1, ElementOfSeq
    <2>3. ASSUME NEW x PROVE x \in UnionOf(T, n) <=> \E i \in 1 .. n : x \in ToSet(GroupRows(part[i], m))
      BY <1>4 DEF UnionOf
    <2>4. ASSUME NEW x PROVE x \in U <=> \E g \in ToSet(part) : x \in ToSet(GroupRows(g, m))
      OBVIOUS
    <2>. HIDE DEF U, T
    <2>. QED BY <2>1, <2>2, <2>3, <2>4
  <1>8. RowsOfGroups(part, m) = FlattenSeq(blocks)
    BY DEF RowsOfGroups
  <1>. HIDE DEF blocks, T, n, U
  <1>9. \A j \in 1 .. n : Lists(blocks[j], T[j])
    BY <1>2, <1>4
  <1>10. \A i, j \in 1 .. n : i # j => T[i] \cap T[j] = {}
    BY <1>1, <1>2, <1>3, <1>4
  <1>11. Lists(FlattenSeq(blocks), U)
    BY <1>1, <1>5, <1>6, <1>7, <1>9, <1>10, ListsFlattened
  <1>12. \A j \in 1 .. n : Len(blocks[j]) = m
    BY <1>2, <1>4
  <1>13. Len(FlattenSeq(blocks)) = n * m
    BY <1>1, <1>5, <1>12, EqualParts
  <1>14. ToSet(FlattenSeq(blocks)) = U
    BY <1>11, ElementsOf
  <1>15. FlattenSeq(blocks) \in Seq(Nat)
    <2>1. PICK f : Concatenations(f, blocks, Nat, n)
      BY <1>1, <1>5, PartialConcatenations
    <2>2. f \in [0 .. n -> Seq(Nat)] /\ FlattenSeq(blocks) = f[n]
      BY <2>1 DEF Concatenations
    <2>3. n \in 0 .. n
      BY <1>1
    <2>. QED BY <2>2, <2>3
  <1>. QED BY <1>8, <1>11, <1>13, <1>14, <1>15 DEF n, U
\* Dividing the groups divides the rows.
LEMMA GroupsDivide ==
    ASSUME NEW c \in Nat, NEW m \in Nat \ {0}, NEW k \in Nat, NEW parts,
           Divides(parts, k, c), EquallySized(parts, c)
    PROVE  LET u == [i \in 1 .. k |-> RowsOfGroups(parts[i], m)]
           IN Divides(u, k, c * m) /\ EquallySized(u, c * m)
  <1>. DEFINE u == [i \in 1 .. k |-> RowsOfGroups(parts[i], m)]
  <1>1. /\ parts \in [1 .. k -> Seq(Nat)]
        /\ \A i \in 1 .. k : Lists(parts[i], ToSet(parts[i])) /\ ToSet(parts[i]) # {}
        /\ \A i, j \in 1 .. k : i # j => ToSet(parts[i]) \cap ToSet(parts[j]) = {}
        /\ UNION {ToSet(parts[i]) : i \in 1 .. k} = 1 .. c
    BY DEF Divides
  <1>2. \A i \in 1 .. k : ToSet(parts[i]) \subseteq 1 .. c
    BY <1>1
  <1>3. ASSUME NEW i \in 1 .. k
        PROVE  /\ u[i] = RowsOfGroups(parts[i], m) /\ u[i] \in Seq(Nat)
               /\ Lists(u[i], ToSet(u[i]))
               /\ Len(u[i]) = Len(parts[i]) * m
               /\ ToSet(u[i]) = UNION {ToSet(GroupRows(g, m)) : g \in ToSet(parts[i])}
    <2>. DEFINE p == parts[i]
                v == RowsOfGroups(p, m)
    <2>1. p \in Seq(Nat) /\ Lists(p, ToSet(p)) /\ ToSet(p) \subseteq 1 .. c
      BY <1>1, <1>2
    <2>2. u[i] = v
      OBVIOUS
    <2>. HIDE DEF p, u
    <2>3. /\ v \in Seq(Nat) /\ Lists(v, ToSet(v)) /\ Len(v) = Len(p) * m
          /\ ToSet(v) = UNION {ToSet(GroupRows(g, m)) : g \in ToSet(p)}
      BY <2>1, RowsOfPart
    <2>. HIDE DEF v
    <2>4. /\ u[i] \in Seq(Nat) /\ Lists(u[i], ToSet(u[i])) /\ Len(u[i]) = Len(p) * m
          /\ ToSet(u[i]) = UNION {ToSet(GroupRows(g, m)) : g \in ToSet(p)}
      BY <2>2, <2>3
    <2>. QED BY <2>2, <2>4 DEF p, v
  <1>a. ASSUME NEW i \in 1 .. k, NEW r
        PROVE  r \in ToSet(u[i]) <=> \E g \in ToSet(parts[i]) : r \in ToSet(GroupRows(g, m))
    <2>1. ToSet(u[i]) = UNION {ToSet(GroupRows(g, m)) : g \in ToSet(parts[i])}
      BY <1>3
    <2>. HIDE DEF u
    <2>. QED BY <2>1
  <1>b. \A g \in 1 .. c : \E i \in 1 .. k : g \in ToSet(parts[i])
    <2>1. UNION {ToSet(parts[i]) : i \in 1 .. k} = 1 .. c
      BY <1>1
    <2>. HIDE DEF u
    <2>. QED BY <2>1
  <1>4. u \in [1 .. k -> Seq(Nat)]
    <2>1. \A i \in 1 .. k : RowsOfGroups(parts[i], m) \in Seq(Nat)
      BY <1>3
    <2>. QED BY <2>1
  <1>. HIDE DEF u
  <1>5. /\ \A g \in 1 .. c : ToSet(GroupRows(g, m)) # {}
        /\ \A g, h \in 1 .. c :
              g # h => ToSet(GroupRows(g, m)) \cap ToSet(GroupRows(h, m)) = {}
        /\ UNION {ToSet(GroupRows(g, m)) : g \in 1 .. c} = 1 .. c * m
    BY GroupsOfRows
  <1>6. ASSUME NEW i \in 1 .. k PROVE Lists(u[i], ToSet(u[i])) /\ ToSet(u[i]) # {}
    <2>1. PICK g : g \in ToSet(parts[i])
      BY <1>1
    <2>2. g \in 1 .. c
      BY <1>2, <2>1
    <2>3. PICK r : r \in ToSet(GroupRows(g, m))
      BY <1>5, <2>2
    <2>4. r \in ToSet(u[i])
      BY <1>a, <2>1, <2>3
    <2>. QED BY <1>3, <2>4
  <1>7. ASSUME NEW i \in 1 .. k, NEW j \in 1 .. k, i # j
        PROVE  ToSet(u[i]) \cap ToSet(u[j]) = {}
    <2>. SUFFICES ASSUME NEW r, r \in ToSet(u[i]), r \in ToSet(u[j]) PROVE FALSE
      OBVIOUS
    <2>1. PICK g \in ToSet(parts[i]) : r \in ToSet(GroupRows(g, m))
      BY <1>a
    <2>2. PICK h \in ToSet(parts[j]) : r \in ToSet(GroupRows(h, m))
      BY <1>a
    <2>3. g \in 1 .. c /\ h \in 1 .. c /\ g # h
      BY <1>1, <1>2, <1>7
    <2>. QED BY <1>5, <2>1, <2>2, <2>3
  <1>8. UNION {ToSet(u[i]) : i \in 1 .. k} = 1 .. c * m
    <2>. DEFINE U == UNION {ToSet(u[i]) : i \in 1 .. k}
                Rows == UNION {ToSet(GroupRows(g, m)) : g \in 1 .. c}
    <2>1. ASSUME NEW r \in U PROVE r \in Rows
      <3>1. PICK i \in 1 .. k : r \in ToSet(u[i])
        OBVIOUS
      <3>2. PICK g \in ToSet(parts[i]) : r \in ToSet(GroupRows(g, m))
        BY <1>a, <3>1
      <3>3. g \in 1 .. c
        BY <1>2
      <3>. QED BY <3>2, <3>3
    <2>2. ASSUME NEW r \in Rows PROVE r \in U
      <3>1. PICK g \in 1 .. c : r \in ToSet(GroupRows(g, m))
        OBVIOUS
      <3>2. PICK i \in 1 .. k : g \in ToSet(parts[i])
        BY <1>b
      <3>3. r \in ToSet(u[i])
        BY <1>a, <3>1, <3>2
      <3>. QED BY <3>3
    <2>3. U = Rows
      BY <2>1, <2>2
    <2>. QED BY <1>5, <2>3
  <1>9. Divides(u, k, c * m)
    BY <1>4, <1>6, <1>7, <1>8 DEF Divides
  <1>10. EquallySized(u, c * m)
    <2>1. DOMAIN u = 1 .. k /\ DOMAIN parts = 1 .. k /\ Len(u) = k /\ Len(parts) = k
      BY <1>1, <1>4, LengthOfFunction
    <2>2. ASSUME NEW i \in 1 .. k PROVE Len(u[i]) * k = c * m
      <3>. DEFINE l == Len(parts[i])
      <3>1. l * k = c
        BY <2>1 DEF EquallySized
      <3>2. Len(u[i]) = l * m
        BY <1>3
      <3>3. l \in Nat
        BY <1>1, LenProperties
      <3>. HIDE DEF l
      <3>4. l * m * k = c * m
        BY <3>1, <3>3, SMTT(30)
      <3>. QED BY <3>2, <3>4
    <2>. DEFINE n == c * m
    <2>3. \A i \in 1 .. k : Len(u[i]) * k = n
      BY <2>2
    <2>. HIDE DEF n
    <2>4. EquallySized(u, n)
      BY <2>1, <2>3 DEF EquallySized
    <2>. QED BY <2>4 DEF n
  <1>. QED BY <1>9, <1>10 DEF u

\* The rows of a group of m are in the same part.
GroupsWhole(parts, k, c, m) ==
    \A g \in 1 .. c : \E i \in 1 .. k : ToSet(GroupRows(g, m)) \subseteq ToSet(parts[i])

\* get_group_balanced_partitions: every row is in one part, all parts have as many
\* rows, and the rows of a group are in the same part.
THEOREM GroupPartitionsDivide ==
    ASSUME NEW c \in Nat \ {0}, NEW m \in Nat \ {0}, NEW k \in 1 .. c, c % k = 0,
           NEW work \in [1 .. c * m -> Nat \ {0}]
    PROVE  /\ Divides(GroupBalancedPartitions(work, m, k), k, c * m)
           /\ EquallySized(GroupBalancedPartitions(work, m, k), c * m)
           /\ GroupsWhole(GroupBalancedPartitions(work, m, k), k, c, m)
  <1>. DEFINE n == c * m
              groupWork == [g \in 1 .. c |-> SumOver(work, GroupRows(g, m))]
              d == c \div k
              parts == BalancedPartitions(groupWork, k, TRUE)
  <1>1. n \in Nat /\ k \in Nat \ {0} /\ k \in Nat /\ work \in [1 .. n -> Nat] /\ m \in Nat
        /\ work \in [1 .. n -> Nat \ {0}] /\ c \in Nat
    OBVIOUS
  <1>2. n \div m = c
    BY <1>1, SMTT(30)
  <1>3. Len(work) \div m = c
    BY <1>1, <1>2, LengthOfFunction
  <1>4. GroupBalancedPartitions(work, m, k) = [i \in 1 .. k |-> RowsOfGroups(parts[i], m)]
    BY <1>3 DEF GroupBalancedPartitions, RowsOfGroups, GroupRows
  <1>5. /\ \A g \in 1 .. c : ToSet(GroupRows(g, m)) # {}
        /\ UNION {ToSet(GroupRows(g, m)) : g \in 1 .. c} = 1 .. n
    <2>1. c \in Nat
      BY <1>1
    <2>2. \A g \in 1 .. c : ToSet(GroupRows(g, m)) # {}
      BY <2>1, GroupsOfRows
    <2>3. UNION {ToSet(GroupRows(g, m)) : g \in 1 .. c} = 1 .. n
      BY <2>1, GroupsOfRows
    <2>. QED BY <2>2, <2>3
  <1>. HIDE DEF n, parts
  <1>6. ASSUME NEW g \in 1 .. c PROVE SumOver(work, GroupRows(g, m)) \in Nat \ {0}
    <2>. DEFINE S == ToSet(GroupRows(g, m))
    <2>1. S \in SUBSET (1 .. n) /\ S # {}
      BY <1>5
    <2>2. SumOver(work, GroupRows(g, m)) = Weight(work, S)
      BY SumIsWeight
    <2>. HIDE DEF S
    <2>3. Weight(work, S) \in Nat /\ Weight(work, S) > 0
      BY <1>1, <2>1, WeightType, WeightPositive
    <2>. QED BY <2>2, <2>3
  <1>7. groupWork \in [1 .. c -> Nat \ {0}]
    BY <1>6
  <1>8. d \in Nat \ {0} /\ c = d * k
    <2>. DEFINE e == c % k
    <2>a. c \in Nat /\ k \in Nat \ {0}
      BY <1>1
    <2>1. d \in Nat /\ c = d * k + e
      BY <2>a, SMTT(30)
    <2>b. e = 0
      OBVIOUS
    <2>. HIDE DEF d, e
    <2>2. c = d * k /\ d # 0
      BY <1>1, <2>1, <2>b
    <2>. QED BY <2>1, <2>2
  <1>. HIDE DEF groupWork, d
  <1>. DEFINE D == BlockSpread(groupWork, k, d)
  <1>9. D \in Nat /\ NeighboursWithin(groupWork, c, k, D)
    BY <1>1, <1>7, <1>8, LargestSpread
  <1>. HIDE DEF D
  <1>10. Accepted(c, k, TRUE) /\ Apart(groupWork, c, k, TRUE, D)
    BY <1>9 DEF Accepted, Apart
  <1>11. FairParts(parts, groupWork, c, k, TRUE, D)
    <2>1. c \in Nat /\ D \in Nat
      BY <1>1, <1>9
    <2>. QED BY <1>7, <1>10, <2>1, BalancedPartitionsDivide, Zenon DEF parts
  <1>12. Divides(parts, k, c) /\ EquallySized(parts, c)
    BY <1>11 DEF FairParts
  <1>13. /\ Divides([i \in 1 .. k |-> RowsOfGroups(parts[i], m)], k, c * m)
         /\ EquallySized([i \in 1 .. k |-> RowsOfGroups(parts[i], m)], c * m)
    BY <1>1, <1>12, GroupsDivide
  <1>14. ASSUME NEW g \in 1 .. c
         PROVE  \E i \in 1 .. k :
                   ToSet(GroupRows(g, m)) \subseteq ToSet(GroupBalancedPartitions(work, m, k)[i])
    <2>0. UNION {ToSet(parts[i]) : i \in 1 .. k} = 1 .. c
      BY <1>12 DEF Divides
    <2>1. PICK i \in 1 .. k : g \in ToSet(parts[i])
      BY <2>0
    <2>2. parts[i] \in Seq(Nat) /\ Lists(parts[i], ToSet(parts[i])) /\ ToSet(parts[i]) \subseteq 1 .. c
      BY <1>12 DEF Divides
    <2>3. ToSet(RowsOfGroups(parts[i], m)) = UNION {ToSet(GroupRows(h, m)) : h \in ToSet(parts[i])}
      BY <1>1, <2>2, RowsOfPart
    <2>4. GroupBalancedPartitions(work, m, k)[i] = RowsOfGroups(parts[i], m)
      BY <1>4
    <2>. QED BY <2>1, <2>3, <2>4
  <1>. QED BY <1>4, <1>13, <1>14 DEF GroupsWhole
-----------------------------------------------------------------------------
\* get_reverse_idx: the inverse of a permutation.
LEMMA ReverseIsInverse ==
    ASSUME NEW n \in Nat, NEW idx, IsPermutation(idx, n)
    PROVE  /\ ReverseIdx(idx) = [j \in 1 .. n |-> CHOOSE i \in 1 .. n : idx[i] = j]
           /\ \A j \in 1 .. n : /\ ReverseIdx(idx)[j] \in 1 .. n
                                /\ idx[ReverseIdx(idx)[j]] = j
  <1>1. Len(idx) = n
    BY LengthOfFunction DEF IsPermutation
  <1>2. ReverseIdx(idx) = [j \in 1 .. n |-> CHOOSE i \in 1 .. n : idx[i] = j]
    BY <1>1 DEF ReverseIdx
  <1>3. ASSUME NEW j \in 1 .. n
        PROVE  /\ ReverseIdx(idx)[j] \in 1 .. n
               /\ idx[ReverseIdx(idx)[j]] = j
    <2>1. PICK i \in 1 .. n : idx[i] = j
      BY DEF IsPermutation
    <2>2. ReverseIdx(idx)[j] = CHOOSE k \in 1 .. n : idx[k] = j
      BY <1>2
    <2>. QED BY <2>1, <2>2
  <1>. QED BY <1>2, <1>3

\* restore_dynamic_batch undoes any division of the rows into micro-batches:
\* what was computed for the rows in the order of idx returns in the order of
\* the rows.
THEOREM RestoreUndoesGather ==
    ASSUME NEW n \in Nat, NEW S, NEW values \in [1 .. n -> S],
           NEW idx, IsPermutation(idx, n)
    PROVE  Restored([i \in 1 .. n |-> values[idx[i]]], idx) = values
  <1>. DEFINE gathered == [i \in 1 .. n |-> values[idx[i]]]
  <1>1. gathered \in [1 .. n -> S]
    BY DEF IsPermutation
  <1>2. Len(gathered) = n
    BY <1>1, LengthOfFunction
  <1>3. \A j \in 1 .. n : ReverseIdx(idx)[j] \in 1 .. n /\ idx[ReverseIdx(idx)[j]] = j
    BY ReverseIsInverse
  <1>4. \A j \in 1 .. n : gathered[ReverseIdx(idx)[j]] = values[j]
    BY <1>3
  <1>5. Restored(gathered, idx) = [j \in 1 .. n |-> gathered[ReverseIdx(idx)[j]]]
    BY <1>2 DEF Restored
  <1>. QED BY <1>4, <1>5

-----------------------------------------------------------------------------
(***************************************************************************)
(* Conversations.                                                          *)
(***************************************************************************)
Kinds == {"system", "user", "assistant", "tool", "default", "image", "text", "end", "newline"}
Words == Int \X Kinds \X Int
ToAnswer == V!Open("assistant")

LEMMA WordFacts ==
    /\ V!End \in Words /\ V!End \notin Opens /\ V!End # V!Newline
    /\ V!Newline \in Words /\ V!Newline \notin Opens
    /\ \A role \in Roles :
          /\ V!Open(role) \in Words /\ V!Open(role) \in Opens /\ V!Open(role) # V!Newline
          /\ V!Open(role) = ToAnswer => role = "assistant"
    /\ <<0, "default", 0>> \in Words /\ <<0, "default", 0>> \notin Opens
    /\ ToAnswer \in Words /\ ToAnswer \in Opens
  <1>0. 0 \in Int
    OBVIOUS
  <1>1. \A role \in Roles : role \in {"system", "user", "assistant", "tool"}
    BY DEF Roles
  <1>2. \A x \in Kinds : <<0, x, 0>> \in Words
    BY <1>0, Zenon DEF Words
  <1>3. /\ V!End \in Words /\ V!Newline \in Words /\ ToAnswer \in Words
        /\ <<0, "default", 0>> \in Words
    <2>1. /\ "end" \in Kinds /\ "newline" \in Kinds /\ "assistant" \in Kinds /\ "default" \in Kinds
      BY DEF Kinds
    <2>. QED BY <1>2, <2>1, Zenon DEF V!End, V!Newline, V!Open, ToAnswer
  <1>4. \A role \in Roles : V!Open(role) \in Words
    <2>1. \A role \in Roles : role \in Kinds
      BY DEF Roles, Kinds
    <2>. QED BY <1>2, <2>1, Zenon DEF V!Open
  <1>5. \A role \in Roles : V!Open(role) \in Opens
    BY DEF Roles, Opens
  <1>6. \A role \in Roles : V!Open(role) # V!Newline /\ (V!Open(role) = ToAnswer => role = "assistant")
    BY <1>1 DEF V!Open, V!Newline, ToAnswer
  <1>7. V!End \notin Opens /\ V!Newline \notin Opens /\ <<0, "default", 0>> \notin Opens
    BY DEF Opens, Roles, V!Open, V!End, V!Newline
  <1>8. V!End # V!Newline /\ <<0, "default", 0>> # V!Newline
    BY DEF V!End, V!Newline
  <1>9. ToAnswer \in Opens
    <2>1. "assistant" \in Roles
      BY DEF Roles
    <2>. QED BY <1>5, <2>1 DEF ToAnswer
  <1>. QED BY <1>3, <1>4, <1>5, <1>6, <1>7, <1>8, <1>9

\* The library's concatenation, as the instance of Conversations has it.
LEMMA SameFlatten ==
    ASSUME NEW s PROVE V!FlattenSeq(s) = FlattenSeq(s)
  BY DEF V!FlattenSeq, FlattenSeq

LEMMA FlattenConcatenated ==
    ASSUME NEW S, NEW p \in Seq(Seq(S)), NEW q \in Seq(Seq(S))
    PROVE  /\ FlattenSeq(p) \in Seq(S) /\ FlattenSeq(q) \in Seq(S)
           /\ FlattenSeq(p \o q) = FlattenSeq(p) \o FlattenSeq(q)
  <1>. DEFINE n == Len(p)
              m == Len(q)
  <1>1. /\ n \in Nat /\ m \in Nat /\ p \in [1 .. n -> Seq(S)] /\ q \in [1 .. m -> Seq(S)]
        /\ n + m \in Nat
    BY LenProperties
  <1>2. PICK f : Concatenations(f, p, S, n)
    BY <1>1, PartialConcatenations
  <1>3. PICK g : Concatenations(g, q, S, m)
    BY <1>1, PartialConcatenations
  <1>4. /\ f \in [0 .. n -> Seq(S)] /\ f[0] = <<>> /\ FlattenSeq(p) = f[n]
        /\ \A i \in 1 .. n : f[i] = f[i - 1] \o p[i]
    BY <1>2 DEF Concatenations
  <1>5. /\ g \in [0 .. m -> Seq(S)] /\ g[0] = <<>> /\ FlattenSeq(q) = g[m]
        /\ \A i \in 1 .. m : g[i] = g[i - 1] \o q[i]
    BY <1>3 DEF Concatenations
  <1>6. /\ p \o q \in Seq(Seq(S)) /\ Len(p \o q) = n + m
        /\ \A i \in 1 .. n + m : (p \o q)[i] = IF i <= n THEN p[i] ELSE q[i - n]
    BY ConcatProperties
  <1>. DEFINE pq == p \o q
  <1>7. pq \in [1 .. n + m -> Seq(S)]
    BY <1>6, LenProperties
  <1>8. /\ \A i \in 1 .. n : pq[i] = p[i]
        /\ \A i \in 1 .. m : pq[n + i] = q[i]
    BY <1>1, <1>6
  <1>. HIDE DEF n, m, pq
  <1>. DEFINE At(i) == IF i <= n THEN f[i] ELSE f[n] \o g[i - n]
              h == [i \in 0 .. n + m |-> At(i)]
  <1>9. /\ \A i \in 0 .. n : h[i] = f[i]
        /\ \A i \in 1 .. m : h[n + i] = f[n] \o g[i]
    <2>1. \A i \in 0 .. n : h[i] = f[i]
      BY <1>1
    <2>2. ASSUME NEW i \in 1 .. m PROVE h[n + i] = f[n] \o g[i]
      <3>1. n + i \in 0 .. n + m /\ ~ n + i <= n /\ (n + i) - n = i
        BY <1>1
      <3>2. h[n + i] = At(n + i)
        BY <3>1, Zenon
      <3>3. At(n + i) = f[n] \o g[(n + i) - n]
        BY <3>1, Zenon
      <3>. QED BY <3>1, <3>2, <3>3
    <2>. QED BY <2>1, <2>2
  <1>10. h[n + m] = f[n] \o g[m]
    <2>1. CASE m = 0
      <3>1. f[n] \in Seq(S) /\ n + m = n
        BY <1>1, <1>4, <2>1
      <3>2. f[n] \o <<>> = f[n]
        BY <3>1, ConcatEmptySeq
      <3>. QED BY <1>1, <1>5, <1>9, <2>1, <3>1, <3>2
    <2>2. CASE m # 0
      <3>1. m \in 1 .. m
        BY <1>1, <2>2
      <3>. QED BY <1>9, <3>1
    <2>. QED BY <2>1, <2>2
  <1>11. h \in [0 .. n + m -> Seq(S)]
    <2>. SUFFICES ASSUME NEW i \in 0 .. n + m
                  PROVE  (IF i <= n THEN f[i] ELSE f[n] \o g[i - n]) \in Seq(S)
      OBVIOUS
    <2>1. CASE i <= n
      BY <1>1, <1>4, <2>1
    <2>2. CASE ~ i <= n
      <3>1. i - n \in 0 .. m /\ n \in 0 .. n
        BY <1>1, <2>2
      <3>2. f[n] \in Seq(S) /\ g[i - n] \in Seq(S)
        BY <1>4, <1>5, <3>1
      <3>. QED BY <2>2, <3>2, ConcatProperties
    <2>. QED BY <2>1, <2>2
  <1>12. h[0] = <<>>
    BY <1>1, <1>4, <1>9
  <1>13. ASSUME NEW i \in 1 .. n + m PROVE h[i] = h[i - 1] \o pq[i]
    <2>1. CASE i <= n
      <3>1. i \in 1 .. n /\ i \in 0 .. n /\ i - 1 \in 0 .. n
        BY <1>1, <2>1
      <3>. QED BY <1>4, <1>8, <1>9, <3>1
    <2>2. CASE i = n + 1
      <3>1. 1 \in 1 .. m /\ n \in 0 .. n /\ 0 \in 0 .. m /\ 1 - 1 = 0 /\ i - 1 = n
        BY <1>1, <2>2
      <3>2. h[i] = f[n] \o g[1] /\ h[i - 1] = f[n] /\ pq[i] = q[1]
        BY <1>8, <1>9, <2>2, <3>1
      <3>3. g[1] = <<>> \o q[1] /\ q[1] \in Seq(S)
        BY <1>1, <1>5, <3>1
      <3>4. g[1] = q[1]
        BY <3>3, ConcatEmptySeq
      <3>. QED BY <3>2, <3>4
    <2>3. CASE i > n + 1
      <3>. DEFINE k == i - n
      <3>1. k \in 1 .. m /\ k - 1 \in 1 .. m /\ i = n + k /\ i - 1 = n + (k - 1) /\ k - 1 \in 0 .. m
            /\ n \in 0 .. n
        BY <1>1, <2>3
      <3>. HIDE DEF k
      <3>2. h[i] = f[n] \o g[k] /\ h[i - 1] = f[n] \o g[k - 1] /\ pq[i] = q[k]
        BY <1>8, <1>9, <3>1
      <3>3. g[k] = g[k - 1] \o q[k]
        BY <1>5, <3>1
      <3>4. f[n] \in Seq(S) /\ g[k - 1] \in Seq(S) /\ q[k] \in Seq(S)
        BY <1>1, <1>4, <1>5, <3>1
      <3>5. \A u, v, w \in Seq(S) : (u \o v) \o w = u \o (v \o w)
        BY ConcatAssociative
      <3>6. (f[n] \o g[k - 1]) \o q[k] = f[n] \o (g[k - 1] \o q[k])
        BY <3>4, <3>5
      <3>7. h[i] = f[n] \o (g[k - 1] \o q[k])
        BY <3>2, <3>3, Zenon
      <3>8. h[i - 1] \o pq[i] = (f[n] \o g[k - 1]) \o q[k]
        BY <3>2, Zenon
      <3>. QED BY <3>6, <3>7, <3>8, Zenon
    <2>4. i <= n \/ i = n + 1 \/ i > n + 1
      BY <1>1
    <2>. QED BY <2>1, <2>2, <2>3, <2>4, Zenon
  <1>. HIDE DEF h
  <1>14. FlattenSeq(pq) = h[n + m]
    BY <1>1, <1>7, <1>11, <1>12, <1>13, FlattenIs
  <1>15. f[n] \in Seq(S) /\ g[m] \in Seq(S)
    BY <1>1, <1>4, <1>5
  <1>. QED BY <1>4, <1>5, <1>10, <1>14, <1>15 DEF pq

LEMMA FlattenOne ==
    ASSUME NEW S, NEW s \in Seq(S)
    PROVE  FlattenSeq(<<s>>) = s
  BY DEF FlattenSeq

\* Each element of a sequence replaced by a sequence.
Each(F, s) == [i \in DOMAIN s |-> F[s[i]]]
FlatMap(F, s) == FlattenSeq(Each(F, s))

LEMMA EachIs ==
    ASSUME NEW S, NEW F, NEW u \in Seq(S)
    PROVE  Len(Each(F, u)) = Len(u) /\ \A i \in 1 .. Len(u) : Each(F, u)[i] = F[u[i]]
  <1>. DEFINE each == [i \in DOMAIN u |-> F[u[i]]]
  <1>1. DOMAIN u = 1 .. Len(u) /\ Len(u) \in Nat
    BY LenProperties
  <1>2. each \in [1 .. Len(u) -> {F[u[i]] : i \in 1 .. Len(u)}]
    BY <1>1
  <1>3. Len(each) = Len(u)
    BY <1>1, <1>2, LengthOfFunction
  <1>4. \A i \in 1 .. Len(u) : each[i] = F[u[i]]
    BY <1>1
  <1>5. Each(F, u) = each
    BY DEF Each
  <1>. HIDE DEF each
  <1>. QED BY <1>3, <1>4, <1>5

LEMMA EachType ==
    ASSUME NEW S, NEW T, NEW F \in [S -> Seq(T)]
    PROVE  \A u \in Seq(S) : Each(F, u) \in Seq(Seq(T))
  <1>. SUFFICES ASSUME NEW u \in Seq(S) PROVE Each(F, u) \in Seq(Seq(T))
    OBVIOUS
  <1>1. DOMAIN u = 1 .. Len(u) /\ Len(u) \in Nat /\ \A i \in 1 .. Len(u) : u[i] \in S
    BY LenProperties, ElementOfSeq
  <1>2. \A i \in 1 .. Len(u) : F[u[i]] \in Seq(T)
    BY <1>1
  <1>3. Each(F, u) \in [1 .. Len(u) -> Seq(T)]
    BY <1>1, <1>2 DEF Each
  <1>. QED BY <1>1, <1>3, LengthOfFunction

LEMMA FlatMapType ==
    ASSUME NEW S, NEW T, NEW F \in [S -> Seq(T)]
    PROVE  \A s \in Seq(S) : FlatMap(F, s) \in Seq(T)
  <1>1. \A s \in Seq(S) : Each(F, s) \in Seq(Seq(T))
    BY EachType
  <1>2. \A p \in Seq(Seq(T)) : FlattenSeq(p) \in Seq(T)
    BY FlattenConcatenated
  <1>. QED BY <1>1, <1>2 DEF FlatMap

LEMMA EachConcatenated ==
    ASSUME NEW S, NEW T, NEW F \in [S -> Seq(T)], NEW s \in Seq(S), NEW t \in Seq(S)
    PROVE  Each(F, s \o t) = Each(F, s) \o Each(F, t)
  <1>1. /\ Each(F, s) \in Seq(Seq(T)) /\ Len(Each(F, s)) = Len(s)
        /\ \A i \in 1 .. Len(s) : Each(F, s)[i] = F[s[i]]
    BY EachIs, EachType
  <1>2. /\ Each(F, t) \in Seq(Seq(T)) /\ Len(Each(F, t)) = Len(t)
        /\ \A i \in 1 .. Len(t) : Each(F, t)[i] = F[t[i]]
    BY EachIs, EachType
  <1>3. /\ s \o t \in Seq(S) /\ Len(s \o t) = Len(s) + Len(t)
        /\ \A i \in 1 .. Len(s) + Len(t) :
              (s \o t)[i] = IF i <= Len(s) THEN s[i] ELSE t[i - Len(s)]
    BY ConcatProperties
  <1>4. /\ Each(F, s \o t) \in Seq(Seq(T)) /\ Len(Each(F, s \o t)) = Len(s) + Len(t)
        /\ \A i \in 1 .. Len(s) + Len(t) : Each(F, s \o t)[i] = F[(s \o t)[i]]
    <2>1. /\ Len(Each(F, s \o t)) = Len(s \o t)
          /\ \A i \in 1 .. Len(s \o t) : Each(F, s \o t)[i] = F[(s \o t)[i]]
      <3>. DEFINE u == s \o t
      <3>1. u \in Seq(S)
        BY <1>3
      <3>. HIDE DEF u
      <3>2. /\ Len(Each(F, u)) = Len(u)
            /\ \A i \in 1 .. Len(u) : Each(F, u)[i] = F[u[i]]
        BY <3>1, EachIs
      <3>. QED BY <3>2 DEF u
    <2>2. Each(F, s \o t) \in Seq(Seq(T))
      BY <1>3, EachType
    <2>. QED BY <1>3, <2>1, <2>2, Zenon
  <1>5. /\ Each(F, s) \o Each(F, t) \in Seq(Seq(T))
        /\ Len(Each(F, s) \o Each(F, t)) = Len(s) + Len(t)
        /\ \A i \in 1 .. Len(s) + Len(t) :
              (Each(F, s) \o Each(F, t))[i] = IF i <= Len(s) THEN Each(F, s)[i] ELSE Each(F, t)[i - Len(s)]
    <2>1. \A u, v \in Seq(Seq(T)) :
             /\ u \o v \in Seq(Seq(T)) /\ Len(u \o v) = Len(u) + Len(v)
             /\ \A i \in 1 .. Len(u) + Len(v) :
                   (u \o v)[i] = IF i <= Len(u) THEN u[i] ELSE v[i - Len(u)]
      BY ConcatProperties
    <2>2. /\ Each(F, s) \o Each(F, t) \in Seq(Seq(T))
          /\ Len(Each(F, s) \o Each(F, t)) = Len(Each(F, s)) + Len(Each(F, t))
          /\ \A i \in 1 .. Len(Each(F, s)) + Len(Each(F, t)) :
                (Each(F, s) \o Each(F, t))[i]
                    = IF i <= Len(Each(F, s)) THEN Each(F, s)[i] ELSE Each(F, t)[i - Len(Each(F, s))]
      BY <1>1, <1>2, <2>1, Zenon
    <2>. QED BY <1>1, <1>2, <2>2, Zenon
  <1>6. Len(s) \in Nat /\ Len(t) \in Nat
    BY LenProperties
  <1>7. ASSUME NEW i \in 1 .. Len(s) + Len(t)
        PROVE  Each(F, s \o t)[i] = (Each(F, s) \o Each(F, t))[i]
    <2>1. CASE i <= Len(s)
      <3>1. i \in 1 .. Len(s)
        BY <1>6, <2>1
      <3>. QED BY <1>1, <1>3, <1>4, <1>5, <2>1, <3>1
    <2>2. CASE ~ i <= Len(s)
      <3>1. i - Len(s) \in 1 .. Len(t)
        BY <1>6, <2>2
      <3>2. (Each(F, s) \o Each(F, t))[i] = Each(F, t)[i - Len(s)]
        BY <1>5, <2>2
      <3>3. Each(F, t)[i - Len(s)] = F[t[i - Len(s)]]
        BY <1>2, <3>1
      <3>4. (s \o t)[i] = t[i - Len(s)]
        BY <1>3, <2>2
      <3>. QED BY <1>4, <3>2, <3>3, <3>4
    <2>. QED BY <2>1, <2>2
  <1>. QED BY <1>4, <1>5, <1>7, SeqEqual

LEMMA FlatMapConcatenated ==
    ASSUME NEW S, NEW T, NEW F \in [S -> Seq(T)]
    PROVE  \A s, t \in Seq(S) : FlatMap(F, s \o t) = FlatMap(F, s) \o FlatMap(F, t)
  <1>1. \A s, t \in Seq(S) : Each(F, s \o t) = Each(F, s) \o Each(F, t)
    BY EachConcatenated
  <1>2. \A s \in Seq(S) : Each(F, s) \in Seq(Seq(T))
    BY EachType
  <1>3. \A p, q \in Seq(Seq(T)) : FlattenSeq(p \o q) = FlattenSeq(p) \o FlattenSeq(q)
    BY FlattenConcatenated
  <1>. QED BY <1>1, <1>2, <1>3 DEF FlatMap

LEMMA FlatMapOne ==
    ASSUME NEW S, NEW T, NEW F \in [S -> Seq(T)], NEW x \in S
    PROVE  FlatMap(F, <<x>>) = F[x]
  <1>1. [i \in DOMAIN <<x>> |-> F[<<x>>[i]]] = <<F[x]>>
    OBVIOUS
  <1>2. F[x] \in Seq(T)
    OBVIOUS
  <1>. QED BY <1>1, <1>2, FlattenOne DEF FlatMap, Each

-----------------------------------------------------------------------------
Line == [w \in Words |-> IF w = V!Newline THEN <<>> ELSE <<w>>]
Rendered == [m \in Messages |-> <<V!Open(m.role)>> \o V!Content(m) \o <<V!End, V!Newline>>]
Pictures == [m \in Messages |-> [k \in 1 .. m.images |-> <<m.id, k>>]]

LEMMA LineIs ==
    /\ Line \in [Words -> Seq(Words)]
    /\ \A ids \in Seq(Words) : OnOneLine(ids) = FlatMap(Line, ids) /\ OnOneLine(ids) \in Seq(Words)
    /\ \A ids, more \in Seq(Words) : OnOneLine(ids \o more) = OnOneLine(ids) \o OnOneLine(more)
    /\ \A w \in Words : OnOneLine(<<w>>) = IF w = V!Newline THEN <<>> ELSE <<w>>
  <1>1. Line \in [Words -> Seq(Words)]
    BY DEF Line
  <1>2. ASSUME NEW ids \in Seq(Words) PROVE OnOneLine(ids) = FlatMap(Line, ids)
    <2>1. \A i \in DOMAIN ids : ids[i] \in Words
      BY ElementOfSeq, LenProperties
    <2>2. [t \in DOMAIN ids |-> IF ids[t] = V!Newline THEN <<>> ELSE <<ids[t]>>]
            = [i \in DOMAIN ids |-> Line[ids[i]]]
      BY <2>1 DEF Line
    <2>. QED BY <2>2 DEF OnOneLine, FlatMap, Each
  <1>3. ASSUME NEW ids \in Seq(Words), NEW more \in Seq(Words)
        PROVE  /\ FlatMap(Line, ids) \in Seq(Words)
               /\ FlatMap(Line, ids \o more) = FlatMap(Line, ids) \o FlatMap(Line, more)
               /\ ids \o more \in Seq(Words)
    <2>1. ids \o more \in Seq(Words)
      BY ConcatProperties
    <2>2. \A u \in Seq(Words) : FlatMap(Line, u) \in Seq(Words)
      BY <1>1, FlatMapType
    <2>3. FlatMap(Line, ids \o more) = FlatMap(Line, ids) \o FlatMap(Line, more)
      BY <1>1, FlatMapConcatenated
    <2>. QED BY <2>1, <2>2, <2>3
  <1>4. ASSUME NEW w \in Words PROVE OnOneLine(<<w>>) = IF w = V!Newline THEN <<>> ELSE <<w>>
    <2>1. <<w>> \in Seq(Words)
      OBVIOUS
    <2>2. FlatMap(Line, <<w>>) = Line[w]
      BY <1>1, FlatMapOne
    <2>. QED BY <1>2, <2>1, <2>2 DEF Line
  <1>. QED BY <1>1, <1>2, <1>3, <1>4

LEMMA OneAfterAnother ==
    ASSUME NEW S, NEW a \in S, NEW b \in S
    PROVE  <<a>> \o <<b>> = <<a, b>>
  <1>1. /\ <<a>> \in Seq(S) /\ <<b>> \in Seq(S) /\ Len(<<a>>) = 1 /\ Len(<<b>>) = 1
        /\ <<a, b>> \in Seq(S) /\ Len(<<a, b>>) = 2
    OBVIOUS
  <1>2. /\ <<a>> \o <<b>> \in Seq(S) /\ Len(<<a>> \o <<b>>) = 2
        /\ (<<a>> \o <<b>>)[1] = a /\ (<<a>> \o <<b>>)[2] = b
    BY <1>1, ConcatProperties
  <1>3. \A i \in 1 .. 2 : (<<a>> \o <<b>>)[i] = <<a, b>>[i]
    BY <1>2
  <1>. QED BY <1>1, <1>2, <1>3, SeqEqual

LEMMA EndAndNewline ==
    ASSUME NEW ids \in Seq(Words)
    PROVE  /\ ids \o <<V!End>> \in Seq(Words)
           /\ ids \o <<V!End, V!Newline>> = (ids \o <<V!End>>) \o <<V!Newline>>
           /\ OnOneLine(ids \o <<V!End>>) = Append(OnOneLine(ids), V!End)
           /\ OnOneLine(ids \o <<V!End, V!Newline>>) = Append(OnOneLine(ids), V!End)
  <1>1. /\ V!End \in Words /\ V!Newline \in Words /\ V!End # V!Newline
    BY WordFacts
  <1>2. <<V!End>> \in Seq(Words) /\ <<V!Newline>> \in Seq(Words)
    BY <1>1
  <1>3. /\ OnOneLine(<<V!End>>) = <<V!End>> /\ OnOneLine(<<V!Newline>>) = <<>>
    BY <1>1, LineIs
  <1>4. ids \o <<V!End>> \in Seq(Words)
    BY <1>2, ConcatProperties
  <1>5. /\ OnOneLine(ids) \in Seq(Words)
        /\ OnOneLine(ids \o <<V!End>>) = OnOneLine(ids) \o <<V!End>>
        /\ OnOneLine((ids \o <<V!End>>) \o <<V!Newline>>) = (OnOneLine(ids) \o <<V!End>>) \o <<>>
    <2>1. OnOneLine(ids) \in Seq(Words)
      BY LineIs
    <2>2. \A u, v \in Seq(Words) : OnOneLine(u \o v) = OnOneLine(u) \o OnOneLine(v)
      BY LineIs
    <2>3. OnOneLine(ids \o <<V!End>>) = OnOneLine(ids) \o <<V!End>>
      BY <1>2, <1>3, <2>2
    <2>4. OnOneLine((ids \o <<V!End>>) \o <<V!Newline>>)
            = OnOneLine(ids \o <<V!End>>) \o OnOneLine(<<V!Newline>>)
      BY <1>2, <1>4, <2>2
    <2>. QED BY <1>3, <2>1, <2>3, <2>4
  <1>6. OnOneLine(ids) \o <<V!End>> = Append(OnOneLine(ids), V!End)
    BY <1>1, <1>5, AppendIsConcat
  <1>7. OnOneLine(ids) \o <<V!End>> \in Seq(Words)
    BY <1>2, <1>5, ConcatProperties
  <1>8. (OnOneLine(ids) \o <<V!End>>) \o <<>> = OnOneLine(ids) \o <<V!End>>
    BY <1>7, ConcatEmptySeq
  <1>9. <<V!End>> \o <<V!Newline>> = <<V!End, V!Newline>>
    BY <1>1, OneAfterAnother
  <1>10. ids \o <<V!End, V!Newline>> = (ids \o <<V!End>>) \o <<V!Newline>>
    <2>1. \A u, v, w \in Seq(Words) : (u \o v) \o w = u \o (v \o w)
      BY ConcatAssociative
    <2>2. (ids \o <<V!End>>) \o <<V!Newline>> = ids \o (<<V!End>> \o <<V!Newline>>)
      BY <1>2, <2>1
    <2>. QED BY <1>9, <2>2
  <1>. QED BY <1>4, <1>5, <1>6, <1>8, <1>10

-----------------------------------------------------------------------------
Quiet == Words \ Opens

\* What a message adds to the tokens after the mark of its role.
Spoken(m) == V!Content(m) \o <<V!End, V!Newline>>

LEMMA ContentIs ==
    ASSUME NEW m \in Messages
    PROVE  /\ V!Content(m) \in Seq(Quiet)
           /\ Len(V!Content(m)) = m.images + m.text
           /\ V!Content(m) \in Seq(Words)
  <1>1. m.id \in Int /\ m.text \in Nat /\ m.images \in Nat
    BY DEF Messages
  <1>. DEFINE pictures == [k \in 1 .. m.images |-> <<m.id, "image", k>>]
              words == [k \in 1 .. m.text |-> <<m.id, "text", k>>]
  <1>2. \A k \in Int : /\ <<m.id, "image", k>> \in Quiet
                       /\ <<m.id, "text", k>> \in Quiet
    <2>1. "image" \in Kinds /\ "text" \in Kinds
      BY DEF Kinds
    <2>2. \A k \in Int : <<m.id, "image", k>> \in Words /\ <<m.id, "text", k>> \in Words
      BY <1>1, <2>1, Zenon DEF Words
    <2>3. \A k \in Int : <<m.id, "image", k>> \notin Opens /\ <<m.id, "text", k>> \notin Opens
      BY DEF Opens, Roles, V!Open
    <2>. QED BY <2>2, <2>3 DEF Quiet
  <1>3. pictures \in [1 .. m.images -> Quiet] /\ words \in [1 .. m.text -> Quiet]
    <2>1. (\A k \in 1 .. m.images : k \in Int) /\ \A k \in 1 .. m.text : k \in Int
      BY <1>1
    <2>2. pictures \in [1 .. m.images -> Quiet]
      BY <1>2, <2>1
    <2>3. words \in [1 .. m.text -> Quiet]
      BY <1>2, <2>1
    <2>. QED BY <2>2, <2>3
  <1>4. /\ pictures \in Seq(Quiet) /\ Len(pictures) = m.images
        /\ words \in Seq(Quiet) /\ Len(words) = m.text
    BY <1>1, <1>3, LengthOfFunction
  <1>5. V!Content(m) = pictures \o words
    BY DEF V!Content
  <1>. HIDE DEF pictures, words
  <1>6. V!Content(m) \in Seq(Quiet) /\ Len(V!Content(m)) = m.images + m.text
    <2>1. pictures \o words \in Seq(Quiet)
      BY <1>4, ConcatProperties
    <2>2. Len(pictures \o words) = Len(pictures) + Len(words)
      BY <1>4, ConcatProperties
    <2>. QED BY <1>4, <1>5, <2>1, <2>2
  <1>7. Quiet \subseteq Words
    BY DEF Quiet
  <1>. QED BY <1>6, <1>7, SeqMonotonic

LEMMA ManyWords ==
    /\ <<V!End, V!Newline>> \in Seq(Quiet) /\ <<V!End, V!Newline>> \in Seq(Words)
    /\ Len(<<V!End, V!Newline>>) = 2
    /\ V!SystemPrompt \in Seq(Words) /\ Len(V!SystemPrompt) = 4 /\ V!SystemPrompt[1] \in Opens
    /\ <<ToAnswer>> \in Seq(Words) /\ Len(<<ToAnswer>>) = 1
  <1>1. V!End \in Quiet /\ V!Newline \in Quiet /\ V!End \in Words /\ V!Newline \in Words
    BY WordFacts DEF Quiet
  <1>2. <<0, "default", 0>> \in Words /\ ToAnswer \in Words /\ ToAnswer \in Opens
    BY WordFacts
  <1>3. V!Open("system") \in Words /\ V!Open("system") \in Opens
    BY WordFacts DEF Roles
  <1>4. /\ <<V!End, V!Newline>> \in Seq(Quiet) /\ <<V!End, V!Newline>> \in Seq(Words)
        /\ Len(<<V!End, V!Newline>>) = 2
    BY <1>1
  <1>5. /\ V!SystemPrompt \in Seq(Words) /\ Len(V!SystemPrompt) = 4 /\ V!SystemPrompt[1] \in Opens
    <2>1. \A w \in Words : <<V!Open("system"), w, V!End, V!Newline>> \in Seq(Words)
      BY <1>1, <1>3
    <2>. QED BY <1>2, <1>3, <2>1 DEF V!SystemPrompt
  <1>6. <<ToAnswer>> \in Seq(Words) /\ Len(<<ToAnswer>>) = 1
    BY <1>2
  <1>. QED BY <1>4, <1>5, <1>6

LEMMA SpokenIs ==
    ASSUME NEW m \in Messages
    PROVE  /\ Spoken(m) \in Seq(Quiet) /\ Spoken(m) \in Seq(Words)
           /\ Len(Spoken(m)) = m.images + m.text + 2
           /\ Spoken(m)[Len(Spoken(m))] = V!Newline
  <1>1. V!Content(m) \in Seq(Quiet) /\ Len(V!Content(m)) = m.images + m.text
        /\ m.images \in Nat /\ m.text \in Nat
    BY ContentIs DEF Messages
  <1>2. <<V!End, V!Newline>> \in Seq(Quiet) /\ Len(<<V!End, V!Newline>>) = 2
    BY ManyWords
  <1>3. Spoken(m) \in Seq(Quiet) /\ Len(Spoken(m)) = m.images + m.text + 2
    BY <1>1, <1>2, ConcatProperties DEF Spoken
  <1>4. Spoken(m)[m.images + m.text + 2] = <<V!End, V!Newline>>[2]
    <2>. DEFINE c == V!Content(m)
                e == <<V!End, V!Newline>>
    <2>1. /\ c \in Seq(Quiet) /\ e \in Seq(Quiet) /\ Len(c) = m.images + m.text /\ Len(e) = 2
      BY <1>1, <1>2
    <2>2. Spoken(m) = c \o e
      BY DEF Spoken
    <2>. HIDE DEF c, e
    <2>3. \A i \in 1 .. Len(c) + Len(e) : (c \o e)[i] = IF i <= Len(c) THEN c[i] ELSE e[i - Len(c)]
      BY <2>1, ConcatProperties
    <2>4. Len(c) \in Nat /\ (Len(c) + 2) - Len(c) = 2 /\ Len(c) + 2 \in 1 .. Len(c) + Len(e)
          /\ ~ Len(c) + 2 <= Len(c)
      BY <1>1, <2>1
    <2>5. (c \o e)[Len(c) + 2] = e[(Len(c) + 2) - Len(c)]
      BY <2>3, <2>4, Zenon
    <2>6. (c \o e)[m.images + m.text + 2] = e[2]
      BY <2>1, <2>4, <2>5
    <2>. QED BY <2>2, <2>6 DEF e
  <1>5. Quiet \subseteq Words
    BY DEF Quiet
  <1>. QED BY <1>3, <1>4, <1>5, SeqMonotonic

\* The tokens of messages.
LEMMA RenderedIs ==
    /\ Rendered \in [Messages -> Seq(Words)]
    /\ \A m \in Messages : /\ Rendered[m] = <<V!Open(m.role)>> \o Spoken(m)
                           /\ Len(Rendered[m]) = m.images + m.text + 3
                           /\ Rendered[m][1] = V!Open(m.role)
                           /\ m.role # "assistant" => Rendered[m] \in Seq(Words \ {ToAnswer})
                           /\ Rendered[m][Len(Rendered[m])] = V!Newline
  <1>1. ASSUME NEW m \in Messages
        PROVE  /\ Rendered[m] = <<V!Open(m.role)>> \o Spoken(m)
               /\ Rendered[m] \in Seq(Words)
               /\ Len(Rendered[m]) = m.images + m.text + 3
               /\ Rendered[m][1] = V!Open(m.role)
               /\ m.role # "assistant" => Rendered[m] \in Seq(Words \ {ToAnswer})
               /\ Rendered[m][Len(Rendered[m])] = V!Newline
    <2>1. /\ m.role \in Roles /\ m.images \in Nat /\ m.text \in Nat
      BY DEF Messages
    <2>. DEFINE mark == V!Open(m.role)
    <2>2. mark \in Words /\ (mark = ToAnswer => m.role = "assistant")
      BY <2>1, WordFacts
    <2>. HIDE DEF mark
    <2>3. <<mark>> \in Seq(Words) /\ Len(<<mark>>) = 1
      BY <2>2
    <2>4. /\ V!Content(m) \in Seq(Words) /\ <<V!End, V!Newline>> \in Seq(Words)
          /\ Spoken(m) \in Seq(Quiet) /\ Spoken(m) \in Seq(Words)
          /\ Len(Spoken(m)) = m.images + m.text + 2
          /\ Spoken(m)[Len(Spoken(m))] = V!Newline
      BY ContentIs, ManyWords, SpokenIs
    <2>5. \A u, v, w \in Seq(Words) : (u \o v) \o w = u \o (v \o w)
      BY ConcatAssociative
    <2>6. Rendered[m] = (<<mark>> \o V!Content(m)) \o <<V!End, V!Newline>>
      BY DEF Rendered, mark
    <2>7. Rendered[m] = <<mark>> \o Spoken(m)
      BY <2>3, <2>4, <2>5, <2>6 DEF Spoken
    <2>. DEFINE said == Spoken(m)
    <2>. HIDE DEF said
    <2>8. /\ <<mark>> \o said \in Seq(Words) /\ Len(<<mark>> \o said) = 1 + Len(said)
          /\ \A i \in 1 .. 1 + Len(said) :
                (<<mark>> \o said)[i] = IF i <= 1 THEN <<mark>>[i] ELSE said[i - 1]
      <3>1. said \in Seq(Words)
        BY <2>4 DEF said
      <3>. QED BY <2>3, <3>1, ConcatProperties
    <2>9. Len(said) \in Nat \ {0} /\ Len(said) = m.images + m.text + 2 /\ said[Len(said)] = V!Newline
      BY <2>1, <2>4 DEF said
    <2>10. Rendered[m] = <<mark>> \o said
      BY <2>7 DEF said
    <2>11. /\ Len(Rendered[m]) = m.images + m.text + 3 /\ Rendered[m] \in Seq(Words)
      BY <2>1, <2>8, <2>9, <2>10
    <2>12. Rendered[m][1] = mark
      BY <2>8, <2>9, <2>10
    <2>13. Rendered[m][1 + Len(said)] = V!Newline
      BY <2>8, <2>9, <2>10
    <2>14. Rendered[m][Len(Rendered[m])] = V!Newline
      BY <2>8, <2>10, <2>13
    <2>15. ASSUME m.role # "assistant" PROVE Rendered[m] \in Seq(Words \ {ToAnswer})
      <3>1. mark \in Words \ {ToAnswer}
        BY <2>2, <2>15
      <3>2. <<mark>> \in Seq(Words \ {ToAnswer})
        BY <3>1
      <3>3. Quiet \subseteq Words \ {ToAnswer}
        BY WordFacts DEF Quiet
      <3>4. said \in Seq(Words \ {ToAnswer})
        BY <2>4, <3>3, SeqMonotonic DEF said
      <3>. QED BY <2>10, <3>2, <3>4, ConcatProperties
    <2>. QED BY <2>7, <2>11, <2>12, <2>14, <2>15 DEF mark
  <1>2. Rendered \in [Messages -> Seq(Words)]
    <2>. DEFINE T(m) == <<V!Open(m.role)>> \o V!Content(m) \o <<V!End, V!Newline>>
    <2>1. \A m \in Messages : Rendered[m] = T(m)
      BY DEF Rendered
    <2>2. \A m \in Messages : T(m) \in Seq(Words)
      BY <1>1, <2>1
    <2>3. Rendered = [m \in Messages |-> T(m)]
      BY DEF Rendered
    <2>. HIDE DEF T
    <2>. QED BY <2>2, <2>3
  <1>. QED BY <1>1, <1>2

\* The tokens of a conversation without the mark for an answer.
Told(messages) ==
    (IF messages[1].role = "system" THEN <<>> ELSE V!SystemPrompt) \o FlatMap(Rendered, messages)
Talk == Seq(Messages) \ {<<>>}

LEMMA FlatRendered ==
    /\ \A ms \in Seq(Messages) : FlatMap(Rendered, ms) \in Seq(Words)
    /\ \A ms, more \in Seq(Messages) :
          FlatMap(Rendered, ms \o more) = FlatMap(Rendered, ms) \o FlatMap(Rendered, more)
    /\ \A m \in Messages : FlatMap(Rendered, <<m>>) = Rendered[m]
  <1>1. Rendered \in [Messages -> Seq(Words)]
    BY RenderedIs
  <1>2. \A ms \in Seq(Messages) : FlatMap(Rendered, ms) \in Seq(Words)
    BY <1>1, FlatMapType
  <1>3. \A ms, more \in Seq(Messages) :
           FlatMap(Rendered, ms \o more) = FlatMap(Rendered, ms) \o FlatMap(Rendered, more)
    <2>1. ASSUME NEW F \in [Messages -> Seq(Words)]
          PROVE  \A s, t \in Seq(Messages) : FlatMap(F, s \o t) = FlatMap(F, s) \o FlatMap(F, t)
      BY FlatMapConcatenated
    <2>2. \A F \in [Messages -> Seq(Words)] : \A s, t \in Seq(Messages) :
                FlatMap(F, s \o t) = FlatMap(F, s) \o FlatMap(F, t)
      BY <2>1, Zenon
    <2>. QED BY <1>1, <2>2, Zenon
  <1>4. \A m \in Messages : FlatMap(Rendered, <<m>>) = Rendered[m]
    BY <1>1, FlatMapOne
  <1>. QED BY <1>2, <1>3, <1>4

LEMMA TemplateIs ==
    ASSUME NEW ms \in Talk
    PROVE  /\ V!ChatTemplate(ms, FALSE) = Told(ms)
           /\ V!ChatTemplate(ms, TRUE) = Told(ms) \o <<ToAnswer>>
           /\ Told(ms) \in Seq(Words)
  <1>. DEFINE start == IF ms[1].role = "system" THEN <<>> ELSE V!SystemPrompt
              each == [i \in DOMAIN ms |->
                        <<V!Open(ms[i].role)>> \o V!Content(ms[i]) \o <<V!End, V!Newline>>]
  <1>1. each = Each(Rendered, ms)
    <2>1. \A i \in DOMAIN ms : ms[i] \in Messages
      BY LenProperties, ElementOfSeq DEF Talk
    <2>2. \A i \in DOMAIN ms :
             Rendered[ms[i]] = <<V!Open(ms[i].role)>> \o V!Content(ms[i]) \o <<V!End, V!Newline>>
      BY <2>1 DEF Rendered
    <2>. QED BY <2>2 DEF Each
  <1>2. V!FlattenSeq(each) = FlatMap(Rendered, ms)
    <2>1. V!FlattenSeq(each) = FlattenSeq(each)
      BY SameFlatten
    <2>. QED BY <1>1, <2>1 DEF FlatMap
  <1>3. start \in Seq(Words) /\ FlatMap(Rendered, ms) \in Seq(Words)
    BY ManyWords, FlatRendered DEF Talk
  <1>4. \A generate : V!ChatTemplate(ms, generate) = (start \o V!FlattenSeq(each))
                            \o (IF generate THEN <<ToAnswer>> ELSE <<>>)
    BY Zenon DEF V!ChatTemplate, ToAnswer
  <1>5. Told(ms) = start \o FlatMap(Rendered, ms)
    BY DEF Told
  <1>. HIDE DEF start, each
  <1>6. Told(ms) \in Seq(Words)
    BY <1>3, <1>5, ConcatProperties
  <1>7. V!ChatTemplate(ms, FALSE) = Told(ms) \o <<>>
    BY <1>2, <1>4, <1>5
  <1>8. V!ChatTemplate(ms, TRUE) = Told(ms) \o <<ToAnswer>>
    BY <1>2, <1>4, <1>5
  <1>9. Told(ms) \o <<>> = Told(ms)
    BY <1>6, ConcatEmptySeq
  <1>. QED BY <1>6, <1>7, <1>8, <1>9

LEMMA ToldGrows ==
    ASSUME NEW ms \in Talk, NEW more \in Seq(Messages)
    PROVE  ms \o more \in Talk /\ Told(ms \o more) = Told(ms) \o FlatMap(Rendered, more)
  <1>1. ms \in Seq(Messages) /\ Len(ms) \in Nat \ {0} /\ Len(more) \in Nat
    BY EmptySeq, LenProperties DEF Talk
  <1>2. /\ ms \o more \in Seq(Messages) /\ Len(ms \o more) = Len(ms) + Len(more)
        /\ \A i \in 1 .. Len(ms) + Len(more) :
              (ms \o more)[i] = IF i <= Len(ms) THEN ms[i] ELSE more[i - Len(ms)]
    BY <1>1, ConcatProperties
  <1>3. ms \o more # <<>>
    BY <1>1, <1>2, EmptySeq
  <1>4. (ms \o more)[1] = ms[1]
    BY <1>1, <1>2
  <1>. DEFINE start == IF ms[1].role = "system" THEN <<>> ELSE V!SystemPrompt
  <1>5. start \in Seq(Words) /\ FlatMap(Rendered, ms) \in Seq(Words) /\ FlatMap(Rendered, more) \in Seq(Words)
    BY <1>1, ManyWords, FlatRendered
  <1>6. Told(ms) = start \o FlatMap(Rendered, ms)
    BY DEF Told
  <1>7. Told(ms \o more) = start \o FlatMap(Rendered, ms \o more)
    BY <1>4 DEF Told
  <1>8. FlatMap(Rendered, ms \o more) = FlatMap(Rendered, ms) \o FlatMap(Rendered, more)
    BY <1>1, FlatRendered
  <1>. HIDE DEF start
  <1>9. \A u, v, w \in Seq(Words) : (u \o v) \o w = u \o (v \o w)
    BY ConcatAssociative
  <1>10. (start \o FlatMap(Rendered, ms)) \o FlatMap(Rendered, more)
            = start \o (FlatMap(Rendered, ms) \o FlatMap(Rendered, more))
    BY <1>5, <1>9
  <1>11. ms \o more \in Talk
    BY <1>2, <1>3 DEF Talk
  <1>12. Told(ms \o more) = start \o (FlatMap(Rendered, ms) \o FlatMap(Rendered, more))
    BY <1>7, <1>8
  <1>. QED BY <1>6, <1>10, <1>11, <1>12

LEMMA FlatRenderedFirst ==
    ASSUME NEW ms \in Talk
    PROVE  /\ FlatMap(Rendered, ms) \in Seq(Words) /\ Len(FlatMap(Rendered, ms)) >= 1
           /\ FlatMap(Rendered, ms)[1] = V!Open(ms[1].role)
           /\ ms[1] \in Messages
  <1>1. ms \in Seq(Messages) /\ ms # <<>>
    BY DEF Talk
  <1>2. /\ Head(ms) \in Messages /\ Tail(ms) \in Seq(Messages) /\ Head(ms) = ms[1]
        /\ ms = <<Head(ms)>> \o Tail(ms)
    <2>1. /\ Head(ms) \in Messages /\ Tail(ms) \in Seq(Messages) /\ Head(ms) = ms[1]
          /\ Len(Tail(ms)) = Len(ms) - 1 /\ Len(ms) \in Nat \ {0}
          /\ \A i \in 1 .. Len(Tail(ms)) : Tail(ms)[i] = ms[i + 1]
      BY <1>1, HeadTailProperties, EmptySeq
    <2>2. <<Head(ms)>> \in Seq(Messages) /\ Len(<<Head(ms)>>) = 1 /\ <<Head(ms)>>[1] = ms[1]
      BY <2>1
    <2>3. /\ <<Head(ms)>> \o Tail(ms) \in Seq(Messages)
          /\ Len(<<Head(ms)>> \o Tail(ms)) = 1 + Len(Tail(ms))
          /\ \A i \in 1 .. 1 + Len(Tail(ms)) :
                (<<Head(ms)>> \o Tail(ms))[i] = IF i <= 1 THEN <<Head(ms)>>[i] ELSE Tail(ms)[i - 1]
      BY <2>1, <2>2, ConcatProperties
    <2>4. ASSUME NEW i \in 1 .. Len(ms) PROVE ms[i] = (<<Head(ms)>> \o Tail(ms))[i]
      <3>1. CASE i = 1
        BY <2>1, <2>2, <2>3, <3>1
      <3>2. CASE i # 1
        <4>1. i - 1 \in 1 .. Len(Tail(ms)) /\ (i - 1) + 1 = i /\ i \in 1 .. 1 + Len(Tail(ms)) /\ ~ i <= 1
          BY <2>1, <3>2
        <4>. QED BY <2>1, <2>3, <4>1
      <3>. QED BY <3>1, <3>2
    <2>5. Len(ms) = Len(<<Head(ms)>> \o Tail(ms))
      BY <2>1, <2>3
    <2>. QED BY <1>1, <2>1, <2>3, <2>4, <2>5, SeqEqual
  <1>. DEFINE first == Rendered[Head(ms)]
              rest == FlatMap(Rendered, Tail(ms))
  <1>3. /\ first \in Seq(Words) /\ rest \in Seq(Words) /\ Len(first) \in Nat /\ Len(rest) \in Nat
        /\ Len(first) >= 3
        /\ first[1] = V!Open(ms[1].role)
    <2>1. first \in Seq(Words) /\ rest \in Seq(Words)
      BY <1>2, RenderedIs, FlatRendered
    <2>2. Len(first) = Head(ms).images + Head(ms).text + 3 /\ first[1] = V!Open(Head(ms).role)
      BY <1>2, RenderedIs
    <2>3. Head(ms).images \in Nat /\ Head(ms).text \in Nat
      BY <1>2 DEF Messages
    <2>. QED BY <1>2, <2>1, <2>2, <2>3, LenProperties
  <1>4. FlatMap(Rendered, ms) = first \o rest
    <2>1. <<Head(ms)>> \in Seq(Messages)
      BY <1>2
    <2>2. FlatMap(Rendered, <<Head(ms)>> \o Tail(ms)) = FlatMap(Rendered, <<Head(ms)>>) \o FlatMap(Rendered, Tail(ms))
      BY <1>2, <2>1, FlatRendered
    <2>3. FlatMap(Rendered, <<Head(ms)>>) = first
      BY <1>2, FlatRendered
    <2>. QED BY <1>2, <2>2, <2>3
  <1>. HIDE DEF first, rest
  <1>5. /\ first \o rest \in Seq(Words) /\ Len(first \o rest) = Len(first) + Len(rest)
        /\ \A i \in 1 .. Len(first) + Len(rest) :
              (first \o rest)[i] = IF i <= Len(first) THEN first[i] ELSE rest[i - Len(first)]
    BY <1>3, ConcatProperties
  <1>6. (first \o rest)[1] = first[1]
    BY <1>3, <1>5
  <1>. QED BY <1>2, <1>3, <1>4, <1>5, <1>6

LEMMA FromIs ==
    ASSUME NEW S, NEW s \in Seq(S), NEW t \in Seq(S)
    PROVE  V!From(s \o t, Len(s)) = t
  <1>1. Len(s) \in Nat /\ Len(t) \in Nat
    BY LenProperties
  <1>2. /\ s \o t \in Seq(S) /\ Len(s \o t) = Len(s) + Len(t)
        /\ \A i \in 1 .. Len(s) + Len(t) : (s \o t)[i] = IF i <= Len(s) THEN s[i] ELSE t[i - Len(s)]
    BY ConcatProperties
  <1>. DEFINE st == s \o t
              m == Len(s) + 1
              n == Len(s) + Len(t)
  <1>3. V!From(s \o t, Len(s)) = SubSeq(st, m, n)
    BY <1>2 DEF V!From
  <1>4. \A i \in m .. n : st[i] \in S
    <2>1. \A i \in 1 .. Len(st) : st[i] \in S
      BY <1>2, ElementOfSeq
    <2>2. \A i \in m .. n : i \in 1 .. Len(st)
      BY <1>1, <1>2
    <2>. QED BY <2>1, <2>2, Zenon
  <1>5. m \in Int /\ n \in Int /\ n - m + 1 = Len(t) /\ (m <= n <=> Len(t) > 0)
    BY <1>1
  <1>. HIDE DEF m, n, st
  <1>6. /\ SubSeq(st, m, n) \in Seq(S) /\ Len(SubSeq(st, m, n)) = IF m <= n THEN n - m + 1 ELSE 0
        /\ \A i \in 1 .. n - m + 1 : SubSeq(st, m, n)[i] = st[m + i - 1]
    BY <1>4, <1>5, SubSeqProperties
  <1>7. Len(SubSeq(st, m, n)) = Len(t)
    BY <1>1, <1>5, <1>6
  <1>8. ASSUME NEW i \in 1 .. Len(t) PROVE SubSeq(st, m, n)[i] = t[i]
    <2>1. m + i - 1 = Len(s) + i /\ Len(s) + i \in 1 .. Len(s) + Len(t) /\ ~ Len(s) + i <= Len(s)
          /\ (Len(s) + i) - Len(s) = i
      BY <1>1 DEF m
    <2>2. st[Len(s) + i] = t[(Len(s) + i) - Len(s)]
      BY <1>2, <2>1, Zenon DEF st
    <2>3. SubSeq(st, m, n)[i] = st[m + i - 1]
      BY <1>5, <1>6
    <2>. QED BY <2>1, <2>2, <2>3
  <1>. QED BY <1>3, <1>6, <1>7, <1>8, SeqEqual

LEMMA FirstTokens ==
    ASSUME NEW S, NEW s \in Seq(S), NEW n \in Nat
    PROVE  /\ V!Upto(s, n) \in Seq(S)
           /\ Len(V!Upto(s, n)) = IF n < Len(s) THEN n ELSE Len(s)
           /\ \A i \in 1 .. Len(V!Upto(s, n)) : i \in 1 .. Len(s) /\ V!Upto(s, n)[i] = s[i]
  <1>. DEFINE k == IF n < Len(s) THEN n ELSE Len(s)
  <1>1. Len(s) \in Nat
    BY LenProperties
  <1>2. k \in Nat /\ k <= Len(s) /\ 1 \in Int /\ k \in Int
    BY <1>1
  <1>3. V!Upto(s, n) = SubSeq(s, 1, k)
    BY DEF V!Upto
  <1>. HIDE DEF k
  <1>4. \A i \in 1 .. k : i \in 1 .. Len(s) /\ s[i] \in S
    BY <1>1, <1>2, ElementOfSeq
  <1>5. /\ SubSeq(s, 1, k) \in Seq(S) /\ Len(SubSeq(s, 1, k)) = IF 1 <= k THEN k - 1 + 1 ELSE 0
        /\ \A i \in 1 .. k - 1 + 1 : SubSeq(s, 1, k)[i] = s[1 + i - 1]
    BY <1>2, <1>4, SubSeqProperties
  <1>6. Len(SubSeq(s, 1, k)) = k
    BY <1>2, <1>5
  <1>7. \A i \in 1 .. k : SubSeq(s, 1, k)[i] = s[i]
    BY <1>2, <1>5
  <1>. QED BY <1>3, <1>4, <1>5, <1>6, <1>7 DEF k

-----------------------------------------------------------------------------
\* The tokens that follow, taken from behind the messages every template starts with.
LEMMA ContentIdsAre ==
    /\ \A ms \in Seq(Messages) :
          V!ContentIds(ms, V!BaseConvWoGenPromptEndPos) = FlatMap(Rendered, ms)
    /\ \A m \in Messages :
          V!ContentIds(<<m>>, V!BaseConvWithGenPromptEndPos) = Spoken(m)
  <1>. DEFINE base == V!BaseChatHistory
              told == Told(base)
  <1>1. base \in Talk
    <2>1. V!Message(-1, "system", 1, 0) \in Messages /\ V!Message(-2, "user", 1, 0) \in Messages
      BY DEF V!Message, Messages, Roles
    <2>2. \A a, b \in Messages : <<a, b>> \in Seq(Messages) /\ <<a, b>> # <<>>
      OBVIOUS
    <2>. QED BY <2>1, <2>2 DEF V!BaseChatHistory, Talk
  <1>2. told \in Seq(Words) /\ V!ChatTemplate(base, FALSE) = told
        /\ V!ChatTemplate(base, TRUE) = told \o <<ToAnswer>>
    BY <1>1, TemplateIs
  <1>3. /\ V!BaseConvWoGenPromptEndPos = Len(told)
        /\ V!BaseConvWithGenPromptEndPos = Len(told \o <<ToAnswer>>)
    BY <1>2 DEF V!BaseConvWoGenPromptEndPos, V!BaseConvWithGenPromptEndPos
  <1>4. ASSUME NEW ms \in Seq(Messages)
        PROVE  V!ChatTemplate(base \o ms, FALSE) = told \o FlatMap(Rendered, ms)
    <2>1. base \o ms \in Talk /\ Told(base \o ms) = told \o FlatMap(Rendered, ms)
      BY <1>1, ToldGrows
    <2>2. V!ChatTemplate(base \o ms, FALSE) = Told(base \o ms)
      BY <2>1, TemplateIs
    <2>. QED BY <2>1, <2>2
  <1>5. \A ms, n : V!ContentIds(ms, n) = V!From(V!ChatTemplate(base \o ms, FALSE), n)
    BY DEF V!ContentIds
  <1>. HIDE DEF base, told
  <1>6. ASSUME NEW ms \in Seq(Messages)
        PROVE  V!ContentIds(ms, V!BaseConvWoGenPromptEndPos) = FlatMap(Rendered, ms)
    <2>1. FlatMap(Rendered, ms) \in Seq(Words)
      BY FlatRendered
    <2>2. V!From(told \o FlatMap(Rendered, ms), Len(told)) = FlatMap(Rendered, ms)
      BY <1>2, <2>1, FromIs
    <2>. QED BY <1>3, <1>4, <1>5, <2>2
  <1>7. ASSUME NEW m \in Messages
        PROVE  V!ContentIds(<<m>>, V!BaseConvWithGenPromptEndPos) = Spoken(m)
    <2>. DEFINE mark == V!Open(m.role)
    <2>1. mark \in Words /\ ToAnswer \in Words
      BY WordFacts DEF Messages
    <2>2. <<m>> \in Seq(Messages) /\ FlatMap(Rendered, <<m>>) = <<mark>> \o Spoken(m)
      BY FlatRendered, RenderedIs
    <2>. HIDE DEF mark
    <2>3. /\ <<mark>> \in Seq(Words) /\ Len(<<mark>>) = 1 /\ Spoken(m) \in Seq(Words)
          /\ <<ToAnswer>> \in Seq(Words) /\ Len(<<ToAnswer>>) = 1
      BY <2>1, SpokenIs
    <2>4. \A u, v, w \in Seq(Words) : (u \o v) \o w = u \o (v \o w)
      BY ConcatAssociative
    <2>5. V!ChatTemplate(base \o <<m>>, FALSE) = told \o (<<mark>> \o Spoken(m))
      BY <1>4, <2>2
    <2>6. told \o (<<mark>> \o Spoken(m)) = (told \o <<mark>>) \o Spoken(m)
      BY <1>2, <2>3, <2>4
    <2>7. /\ told \o <<mark>> \in Seq(Words)
          /\ Len(told \o <<ToAnswer>>) = Len(told \o <<mark>>)
      BY <1>2, <2>3, ConcatProperties
    <2>8. V!From((told \o <<mark>>) \o Spoken(m), Len(told \o <<mark>>)) = Spoken(m)
      BY <2>3, <2>7, FromIs
    <2>. QED BY <1>3, <1>5, <2>5, <2>6, <2>7, <2>8
  <1>. QED BY <1>6, <1>7

\* The images of messages.
LEMMA ImagesAre ==
    /\ \A ms, more \in Seq(Messages) :
          V!ImagesOf(ms \o more) = V!ImagesOf(ms) \o V!ImagesOf(more)
    /\ \A ms \in Seq(Messages) : V!ImagesOf(ms) \in Seq(Int \X Int)
    /\ \A m \in Messages : m.images = 0 => V!ImagesOf(<<m>>) = <<>>
  <1>1. Pictures \in [Messages -> Seq(Int \X Int)]
    <2>1. ASSUME NEW m \in Messages PROVE [k \in 1 .. m.images |-> <<m.id, k>>] \in Seq(Int \X Int)
      <3>1. m.images \in Nat /\ m.id \in Int
        BY DEF Messages
      <3>2. [k \in 1 .. m.images |-> <<m.id, k>>] \in [1 .. m.images -> Int \X Int]
        BY <3>1
      <3>. QED BY <3>1, <3>2, LengthOfFunction
    <2>. QED BY <2>1 DEF Pictures
  <1>2. ASSUME NEW ms \in Seq(Messages) PROVE V!ImagesOf(ms) = FlatMap(Pictures, ms)
    <2>1. \A i \in DOMAIN ms : ms[i] \in Messages
      BY LenProperties, ElementOfSeq
    <2>2. \A i \in DOMAIN ms : Pictures[ms[i]] = [k \in 1 .. ms[i].images |-> <<ms[i].id, k>>]
      BY <2>1 DEF Pictures
    <2>3. [i \in DOMAIN ms |-> [k \in 1 .. ms[i].images |-> <<ms[i].id, k>>]] = Each(Pictures, ms)
      BY <2>2 DEF Each
    <2>. QED BY <2>3, SameFlatten DEF V!ImagesOf, FlatMap
  <1>3. \A ms, more \in Seq(Messages) :
           FlatMap(Pictures, ms \o more) = FlatMap(Pictures, ms) \o FlatMap(Pictures, more)
    <2>1. ASSUME NEW F \in [Messages -> Seq(Int \X Int)]
          PROVE  \A s, t \in Seq(Messages) : FlatMap(F, s \o t) = FlatMap(F, s) \o FlatMap(F, t)
      BY FlatMapConcatenated
    <2>2. \A F \in [Messages -> Seq(Int \X Int)] : \A s, t \in Seq(Messages) :
                FlatMap(F, s \o t) = FlatMap(F, s) \o FlatMap(F, t)
      BY <2>1, Zenon
    <2>. QED BY <1>1, <2>2, Zenon
  <1>4. \A ms \in Seq(Messages) : FlatMap(Pictures, ms) \in Seq(Int \X Int)
    BY <1>1, FlatMapType
  <1>5. \A ms, more \in Seq(Messages) : ms \o more \in Seq(Messages)
    BY ConcatProperties
  <1>6. ASSUME NEW m \in Messages, m.images = 0 PROVE V!ImagesOf(<<m>>) = <<>>
    <2>1. <<m>> \in Seq(Messages) /\ FlatMap(Pictures, <<m>>) = Pictures[m]
      BY <1>1, FlatMapOne
    <2>2. Pictures[m] = [k \in 1 .. 0 |-> <<m.id, k>>]
      BY <1>6 DEF Pictures
    <2>3. [k \in 1 .. 0 |-> <<m.id, k>>] = <<>>
      OBVIOUS
    <2>. QED BY <1>2, <2>1, <2>2, <2>3
  <1>7. ASSUME NEW ms \in Seq(Messages), NEW more \in Seq(Messages)
        PROVE  V!ImagesOf(ms \o more) = V!ImagesOf(ms) \o V!ImagesOf(more)
    BY <1>2, <1>3, <1>5
  <1>. QED BY <1>2, <1>4, <1>6, <1>7

-----------------------------------------------------------------------------
\* The role that speaks at a token is given by the last mark up to it.
MarkAt(ids, i, j) == j \in 1 .. i /\ ids[j] \in Opens /\ \A k \in j + 1 .. i : ids[k] \notin Opens

LEMMA SpeakerIs ==
    ASSUME NEW ids, NEW i \in Nat, NEW j, MarkAt(ids, i, j)
    PROVE  Speaker(ids, i) = ids[j]
  <1>. DEFINE At(h) == ids[h] \in Opens /\ \A k \in h + 1 .. i : ids[k] \notin Opens
              h == CHOOSE h \in 1 .. i : At(h)
  <1>1. j \in 1 .. i /\ At(j)
    BY DEF MarkAt
  <1>2. h \in 1 .. i /\ At(h)
    <2>. HIDE DEF At
    <2>. QED BY <1>1, Zenon
  <1>3. Speaker(ids, i) = ids[h]
    BY DEF Speaker
  <1>. HIDE DEF h
  <1>4. h = j
    <2>1. CASE h < j
      <3>1. j \in h + 1 .. i
        BY <1>1, <1>2, <2>1
      <3>. QED BY <1>1, <1>2, <3>1
    <2>2. CASE j < h
      <3>1. h \in j + 1 .. i
        BY <1>1, <1>2, <2>2
      <3>. QED BY <1>1, <1>2, <3>1
    <2>. QED BY <1>1, <1>2, <2>1, <2>2
  <1>. QED BY <1>3, <1>4

LEMMA MarkExists ==
    ASSUME NEW ids, NEW i \in Nat, NEW n \in 1 .. i, ids[n] \in Opens
    PROVE  \E j \in n .. i : MarkAt(ids, i, j)
  <1>. DEFINE S == {j \in 1 .. i : ids[j] \in Opens}
  <1>1. S \subseteq 0 .. i /\ n \in S /\ S # {}
    OBVIOUS
  <1>. HIDE DEF S
  <1>2. PICK j \in S : \A k \in S : k <= j
    BY <1>1, GreatestElement
  <1>3. j \in 1 .. i /\ ids[j] \in Opens /\ n <= j
    BY <1>1, <1>2 DEF S
  <1>4. ASSUME NEW k \in j + 1 .. i PROVE ids[k] \notin Opens
    <2>1. k \in 1 .. i /\ ~ k <= j
      BY <1>3
    <2>. QED BY <1>2, <2>1 DEF S
  <1>. QED BY <1>3, <1>4 DEF MarkAt

\* What the tokens before it say of one.
LEMMA LearnedBefore ==
    ASSUME NEW a, NEW b, NEW i \in Nat \ {0}, a[1] \in Opens, \A k \in 1 .. i : a[k] = b[k]
    PROVE  Learned(a, i) = Learned(b, i)
  <1>1. 1 \in 1 .. i /\ i \in 1 .. i
    OBVIOUS
  <1>2. PICK j \in 1 .. i : MarkAt(a, i, j)
    BY <1>1, MarkExists
  <1>3. MarkAt(b, i, j)
    BY <1>2 DEF MarkAt
  <1>4. Speaker(a, i) = a[j] /\ Speaker(b, i) = b[j]
    BY <1>2, <1>3, SpeakerIs
  <1>. QED BY <1>1, <1>4 DEF Learned

LEMMA AnswersAreLearned ==
    ASSUME NEW ids, NEW n \in Nat \ {0}, NEW t \in Nat, n < t, ids[n] = ToAnswer,
           \A k \in n + 1 .. t : ids[k] \notin Opens
    PROVE  Learned(ids, t)
  <1>1. ToAnswer \in Opens
    BY WordFacts
  <1>2. MarkAt(ids, t, n) /\ t \in n + 1 .. t
    BY <1>1 DEF MarkAt
  <1>3. Speaker(ids, t) = ToAnswer
    BY <1>2, SpeakerIs
  <1>. QED BY <1>2, <1>3 DEF Learned, ToAnswer

LEMMA OthersAreNotLearned ==
    ASSUME NEW ids, NEW n \in Nat, NEW t \in Nat, n < t, ids[n + 1] \in Opens,
           \A k \in n + 1 .. t : ids[k] # ToAnswer
    PROVE  ~ Learned(ids, t)
  <1>1. n + 1 \in 1 .. t
    OBVIOUS
  <1>2. PICK j \in n + 1 .. t : MarkAt(ids, t, j)
    BY <1>1, MarkExists
  <1>3. Speaker(ids, t) = ids[j] /\ ids[j] # ToAnswer
    BY <1>2, SpeakerIs
  <1>. QED BY <1>3 DEF Learned, ToAnswer

LEMMA MarksAreNotLearned ==
    ASSUME NEW ids, NEW t, ids[t] \in Opens PROVE ~ Learned(ids, t)
  BY DEF Learned

-----------------------------------------------------------------------------
LEMMA SameCardinality == \A S : V!Cardinality(S) = Cardinality(S)
  BY DEF V!Cardinality, Cardinality, V!IsFiniteSet, IsFiniteSet

\* A mask that lets every token through.
LEMMA PositionsAre ==
    ASSUME NEW S, NEW mask \in Seq(S), \A i \in 1 .. Len(mask) : mask[i] = 1
    PROVE  V!PositionIds(mask) = [i \in 1 .. Len(mask) |-> i - 1]
  <1>1. DOMAIN mask = 1 .. Len(mask) /\ Len(mask) \in Nat
    BY LenProperties
  <1>2. ASSUME NEW i \in 1 .. Len(mask)
        PROVE  Cardinality({j \in 1 .. i : mask[j] = 1}) = i
    <2>1. {j \in 1 .. i : mask[j] = 1} = 1 .. i
      BY <1>1
    <2>2. Cardinality(1 .. i) = i
      BY <1>1, FS_Interval
    <2>. QED BY <2>1, <2>2
  <1>. DEFINE At(i) == LET n == Cardinality({j \in 1 .. i : mask[j] = 1}) IN IF n = 0 THEN 0 ELSE n - 1
  <1>3. \A i \in 1 .. Len(mask) : At(i) = i - 1
    BY <1>2
  <1>4. V!PositionIds(mask) = [i \in DOMAIN mask |-> At(i)]
    BY SameCardinality, Zenon DEF V!PositionIds
  <1>. HIDE DEF At
  <1>. QED BY <1>1, <1>3, <1>4

LEMMA RepeatIs ==
    ASSUME NEW S, NEW x \in S, NEW n \in Nat
    PROVE  /\ V!Repeat(x, n) \in Seq(S) /\ Len(V!Repeat(x, n)) = n
           /\ \A i \in 1 .. n : V!Repeat(x, n)[i] = x
  <1>1. V!Repeat(x, n) \in [1 .. n -> S] /\ \A i \in 1 .. n : V!Repeat(x, n)[i] = x
    BY DEF V!Repeat
  <1>. QED BY <1>1, LengthOfFunction

-----------------------------------------------------------------------------
\* What a request holds until it is finished.
Requests ==
    [messages : Talk, ids : Seq(Words), attention : Seq({0, 1}), positions : Seq(Nat), loss : Seq({0, 1}),
     images : Seq(Int \X Int), prompt : Nat, generation : {<<ToAnswer>>},
     limits : [model : Nat, response : Nat], response : {<<>>}, state : {"running", "completed"}]

\* The four sequences of a request tell the same of each token.
InOrder(r) ==
    /\ Len(r.ids) >= 1 => r.ids[1] \in Opens
    /\ Len(r.attention) = Len(r.ids) /\ Len(r.positions) = Len(r.ids) /\ Len(r.loss) = Len(r.ids)
    /\ \A t \in 1 .. Len(r.ids) : /\ r.attention[t] = 1
                                  /\ r.positions[t] = t - 1
                                  /\ (r.loss[t] = 1) = (t > r.prompt /\ Learned(r.ids, t))

LEMMA MessagesAdded ==
    ASSUME NEW r \in Requests, NEW ms \in Talk
    PROVE  LET a == [r EXCEPT !.messages = ms]
           IN  /\ a \in Requests /\ (InOrder(r) => InOrder(a))
               /\ a.messages = ms /\ a.ids = r.ids /\ a.prompt = r.prompt /\ a.limits = r.limits
               /\ a.images = r.images /\ a.generation = r.generation
  BY DEF Requests, InOrder

LEMMA Concatenated ==
    ASSUME NEW S, NEW s \in Seq(S), NEW t \in Seq(S)
    PROVE  /\ s \o t \in Seq(S) /\ Len(s \o t) = Len(s) + Len(t)
           /\ \A i \in 1 .. Len(s) : (s \o t)[i] = s[i]
           /\ \A i \in 1 .. Len(t) : (s \o t)[Len(s) + i] = t[i]
           /\ Len(s) \in Nat /\ Len(t) \in Nat
  <1>1. Len(s) \in Nat /\ Len(t) \in Nat
    BY LenProperties
  <1>2. /\ s \o t \in Seq(S) /\ Len(s \o t) = Len(s) + Len(t)
        /\ \A i \in 1 .. Len(s) + Len(t) : (s \o t)[i] = IF i <= Len(s) THEN s[i] ELSE t[i - Len(s)]
    BY ConcatProperties
  <1>3. ASSUME NEW i \in 1 .. Len(s) PROVE (s \o t)[i] = s[i]
    BY <1>1, <1>2
  <1>4. ASSUME NEW i \in 1 .. Len(t) PROVE (s \o t)[Len(s) + i] = t[i]
    <2>1. Len(s) + i \in 1 .. Len(s) + Len(t) /\ ~ Len(s) + i <= Len(s) /\ (Len(s) + i) - Len(s) = i
      BY <1>1
    <2>2. (s \o t)[Len(s) + i] = t[(Len(s) + i) - Len(s)]
      BY <1>2, <2>1, Zenon
    <2>. QED BY <2>1, <2>2
  <1>. QED BY <1>1, <1>2, <1>3, <1>4

LEMMA WordsAssociate == \A x, y, z \in Seq(Words) : (x \o y) \o z = x \o (y \o z)
  BY ConcatAssociative

LEMMA WordsConcatenated ==
    \A x, y \in Seq(Words) :
        /\ x \o y \in Seq(Words) /\ Len(x \o y) = Len(x) + Len(y) /\ Len(x) \in Nat /\ Len(y) \in Nat
        /\ \A i \in 1 .. Len(x) : (x \o y)[i] = x[i]
        /\ \A i \in 1 .. Len(y) : (x \o y)[Len(x) + i] = y[i]
  BY Concatenated

LEMMA BitsConcatenated ==
    \A x, y \in Seq({0, 1}) :
        /\ x \o y \in Seq({0, 1}) /\ Len(x \o y) = Len(x) + Len(y)
        /\ \A i \in 1 .. Len(x) : (x \o y)[i] = x[i]
        /\ \A i \in 1 .. Len(y) : (x \o y)[Len(x) + i] = y[i]
  BY Concatenated

LEMMA NumbersConcatenated ==
    \A x, y \in Seq(Nat) :
        /\ x \o y \in Seq(Nat) /\ Len(x \o y) = Len(x) + Len(y)
        /\ \A i \in 1 .. Len(x) : (x \o y)[i] = x[i]
        /\ \A i \in 1 .. Len(y) : (x \o y)[Len(x) + i] = y[i]
  BY Concatenated

\* A request and what was added to it.
Extended(u, r, more, images) ==
    /\ u \in Requests /\ InOrder(u)
    /\ u.messages = r.messages /\ u.ids = r.ids \o more /\ u.prompt = r.prompt
    /\ u.images = r.images \o images /\ u.limits = r.limits

LEMMA Updated ==
    ASSUME NEW r \in Requests, InOrder(r), Len(r.ids) >= 1, r.prompt <= Len(r.ids),
           NEW more \in Seq(Words), NEW trained \in {0, 1}, NEW images \in Seq(Int \X Int),
           \A t \in 1 .. Len(more) : (trained = 1) <=> Learned(r.ids \o more, Len(r.ids) + t)
    PROVE  Extended(V!UpdateInputIds(r, more, trained, images), r, more, images)
  <1>. DEFINE n == Len(r.ids)
              m == Len(more)
              last == r.positions[Len(r.positions)]
              new == V!PositionIds(V!Repeat(1, m))
              places == [i \in DOMAIN new |-> new[i] + last + 1]
              ones == V!Repeat(1, m)
              marks == V!Repeat(trained, m)
              u == V!UpdateInputIds(r, more, trained, images)
  <1>1. /\ r.ids \in Seq(Words) /\ r.attention \in Seq({0, 1}) /\ r.loss \in Seq({0, 1})
        /\ r.positions \in Seq(Nat) /\ r.images \in Seq(Int \X Int) /\ r.prompt \in Nat
    BY DEF Requests
  <1>2. n \in Nat \ {0} /\ m \in Nat
    BY <1>1, LenProperties
  <1>3. /\ Len(r.attention) = n /\ Len(r.positions) = n /\ Len(r.loss) = n
        /\ last = n - 1
    <2>1. n \in 1 .. Len(r.ids)
      BY <1>2
    <2>2. r.positions[n] = n - 1
      BY <2>1 DEF InOrder
    <2>. QED BY <2>2 DEF InOrder
  <1>4. /\ ones \in Seq({0, 1}) /\ Len(ones) = m /\ \A i \in 1 .. m : ones[i] = 1
        /\ marks \in Seq({0, 1}) /\ Len(marks) = m /\ \A i \in 1 .. m : marks[i] = trained
    <2>1. 1 \in {0, 1}
      OBVIOUS
    <2>. QED BY <1>2, <2>1, RepeatIs
  <1>5. new = [i \in 1 .. m |-> i - 1]
    <2>. HIDE DEF m
    <2>1. \A i \in 1 .. Len(ones) : ones[i] = 1
      BY <1>4
    <2>2. V!PositionIds(ones) = [i \in 1 .. Len(ones) |-> i - 1]
      <3>. HIDE DEF ones
      <3>. QED BY <1>4, <2>1, PositionsAre
    <2>. QED BY <1>4, <2>2
  <1>6. places \in Seq(Nat) /\ Len(places) = m /\ \A i \in 1 .. m : places[i] = n + i - 1
    <2>. HIDE DEF n, m, last, new
    <2>1. DOMAIN new = 1 .. m /\ \A i \in 1 .. m : new[i] = i - 1
      BY <1>5
    <2>2. \A i \in 1 .. m : new[i] + last + 1 = n + i - 1 /\ new[i] + last + 1 \in Nat
      BY <1>2, <1>3, <2>1
    <2>3. places \in [1 .. m -> Nat] /\ \A i \in 1 .. m : places[i] = n + i - 1
      BY <2>1, <2>2
    <2>. HIDE DEF places
    <2>. QED BY <1>2, <2>3, LengthOfFunction
  <1>7. u = [r EXCEPT !.ids = r.ids \o more, !.attention = r.attention \o ones, !.loss = r.loss \o marks,
                      !.images = r.images \o images, !.positions = r.positions \o places]
    BY Zenon DEF V!UpdateInputIds
  <1>. HIDE DEF n, m, last, new, places, ones, marks, u
  <1>8. /\ r.ids \o more \in Seq(Words) /\ Len(r.ids \o more) = n + m
        /\ \A i \in 1 .. n : (r.ids \o more)[i] = r.ids[i]
        /\ \A i \in 1 .. m : (r.ids \o more)[n + i] = more[i]
    BY <1>1, WordsConcatenated, Zenon DEF n, m
  <1>a. ASSUME NEW v \in Seq({0, 1}), NEW w \in Seq({0, 1})
        PROVE  /\ v \o w \in Seq({0, 1}) /\ Len(v \o w) = Len(v) + Len(w)
               /\ \A i \in 1 .. Len(v) : (v \o w)[i] = v[i]
               /\ \A i \in 1 .. Len(w) : (v \o w)[Len(v) + i] = w[i]
    BY BitsConcatenated
  <1>b. ASSUME NEW v \in Seq(Nat), NEW w \in Seq(Nat)
        PROVE  /\ v \o w \in Seq(Nat) /\ Len(v \o w) = Len(v) + Len(w)
               /\ \A i \in 1 .. Len(v) : (v \o w)[i] = v[i]
               /\ \A i \in 1 .. Len(w) : (v \o w)[Len(v) + i] = w[i]
    BY NumbersConcatenated
  <1>9. /\ r.attention \o ones \in Seq({0, 1}) /\ Len(r.attention \o ones) = n + m
        /\ \A i \in 1 .. n : (r.attention \o ones)[i] = r.attention[i]
        /\ \A i \in 1 .. m : (r.attention \o ones)[n + i] = ones[i]
    <2>1. /\ r.attention \o ones \in Seq({0, 1}) /\ Len(r.attention \o ones) = Len(r.attention) + Len(ones)
          /\ \A i \in 1 .. Len(r.attention) : (r.attention \o ones)[i] = r.attention[i]
          /\ \A i \in 1 .. Len(ones) : (r.attention \o ones)[Len(r.attention) + i] = ones[i]
      BY <1>1, <1>4, <1>a, Zenon
    <2>. QED BY <1>3, <1>4, <2>1, Zenon
  <1>10. /\ r.loss \o marks \in Seq({0, 1}) /\ Len(r.loss \o marks) = n + m
         /\ \A i \in 1 .. n : (r.loss \o marks)[i] = r.loss[i]
         /\ \A i \in 1 .. m : (r.loss \o marks)[n + i] = marks[i]
    <2>1. /\ r.loss \o marks \in Seq({0, 1}) /\ Len(r.loss \o marks) = Len(r.loss) + Len(marks)
          /\ \A i \in 1 .. Len(r.loss) : (r.loss \o marks)[i] = r.loss[i]
          /\ \A i \in 1 .. Len(marks) : (r.loss \o marks)[Len(r.loss) + i] = marks[i]
      BY <1>1, <1>4, <1>a, Zenon
    <2>. QED BY <1>3, <1>4, <2>1, Zenon
  <1>11. /\ r.positions \o places \in Seq(Nat) /\ Len(r.positions \o places) = n + m
         /\ \A i \in 1 .. n : (r.positions \o places)[i] = r.positions[i]
         /\ \A i \in 1 .. m : (r.positions \o places)[n + i] = places[i]
    <2>1. /\ r.positions \o places \in Seq(Nat) /\ Len(r.positions \o places) = Len(r.positions) + Len(places)
          /\ \A i \in 1 .. Len(r.positions) : (r.positions \o places)[i] = r.positions[i]
          /\ \A i \in 1 .. Len(places) : (r.positions \o places)[Len(r.positions) + i] = places[i]
      BY <1>1, <1>6, <1>b, Zenon
    <2>. QED BY <1>3, <1>6, <2>1, Zenon
  <1>12. r.images \o images \in Seq(Int \X Int)
    BY <1>1, ConcatProperties
  <1>13. /\ u.ids = r.ids \o more /\ u.attention = r.attention \o ones /\ u.loss = r.loss \o marks
         /\ u.images = r.images \o images /\ u.positions = r.positions \o places
         /\ u.messages = r.messages /\ u.prompt = r.prompt /\ u.limits = r.limits
    BY <1>7 DEF Requests
  <1>14. u \in Requests
    BY <1>7, <1>8, <1>9, <1>10, <1>11, <1>12 DEF Requests
  <1>15. ASSUME NEW t \in 1 .. n + m
         PROVE  /\ u.attention[t] = 1 /\ u.positions[t] = t - 1
                /\ (u.loss[t] = 1) = (t > r.prompt /\ Learned(u.ids, t))
    <2>1. CASE t <= n
      <3>1. t \in 1 .. n /\ t \in Nat \ {0}
        BY <1>2, <2>1
      <3>2. /\ r.attention[t] = 1 /\ r.positions[t] = t - 1
            /\ (r.loss[t] = 1) = (t > r.prompt /\ Learned(r.ids, t))
        BY <3>1 DEF InOrder, n
      <3>3. Learned(r.ids, t) = Learned(u.ids, t)
        <4>1. r.ids[1] \in Opens
          BY DEF InOrder
        <4>2. \A k \in 1 .. t : r.ids[k] = u.ids[k]
          BY <1>2, <1>8, <1>13, <3>1
        <4>3. \A i \in Nat \ {0} : (\A k \in 1 .. i : r.ids[k] = u.ids[k])
                    => Learned(r.ids, i) = Learned(u.ids, i)
          BY <4>1, LearnedBefore
        <4>. QED BY <3>1, <4>2, <4>3
      <3>. QED BY <1>9, <1>10, <1>11, <1>13, <3>1, <3>2, <3>3, Zenon
    <2>2. CASE ~ t <= n
      <3>. DEFINE k == t - n
      <3>1. k \in 1 .. m /\ t = n + k /\ t > r.prompt
        BY <1>1, <1>2, <2>2 DEF n
      <3>. HIDE DEF k
      <3>2. /\ u.attention[t] = ones[k] /\ u.positions[t] = places[k] /\ u.loss[t] = marks[k]
        BY <1>9, <1>10, <1>11, <1>13, <3>1
      <3>a. ones[k] = 1 /\ places[k] = n + k - 1 /\ marks[k] = trained
        BY <1>4, <1>6, <3>1
      <3>3. (trained = 1) <=> Learned(u.ids, t)
        BY <1>13, <3>1 DEF n, m
      <3>4. u.positions[t] = t - 1
        BY <1>2, <3>1, <3>2, <3>a
      <3>5. (u.loss[t] = 1) = (t > r.prompt /\ Learned(u.ids, t))
        BY <3>1, <3>2, <3>a, <3>3, Zenon
      <3>. QED BY <3>2, <3>a, <3>4, <3>5
    <2>. QED BY <2>1, <2>2
  <1>16. InOrder(u)
    <2>1. Len(u.ids) = n + m /\ Len(u.attention) = n + m /\ Len(u.positions) = n + m /\ Len(u.loss) = n + m
      BY <1>8, <1>9, <1>10, <1>11, <1>13
    <2>2. u.ids[1] \in Opens
      BY <1>2, <1>8, <1>13 DEF InOrder
    <2>. QED BY <1>13, <1>15, <2>1, <2>2 DEF InOrder
  <1>. QED BY <1>13, <1>14, <1>16 DEF u, Extended

\* Whether the tokens end with the mark for an answer.
LEMMA EndsIs ==
    ASSUME NEW r \in Requests, Len(r.ids) >= 1
    PROVE  V!EndsWithGeneration(r) = (r.ids[Len(r.ids)] = ToAnswer)
  <1>. DEFINE s == r.ids
              n == Len(r.ids)
  <1>1. s \in Seq(Words) /\ n \in Nat \ {0} /\ r.generation = <<ToAnswer>>
    BY LenProperties DEF Requests
  <1>2. Len(<<ToAnswer>>) = 1 /\ <<ToAnswer>>[1] = ToAnswer
    OBVIOUS
  <1>3. V!EndsWithGeneration(r) = ((IF 1 >= n THEN s ELSE SubSeq(s, n - 1 + 1, n)) = <<ToAnswer>>)
    BY <1>1, <1>2 DEF V!EndsWithGeneration, V!LastOf, V!From
  <1>4. n - 1 + 1 = n
    BY <1>1
  <1>. HIDE DEF s, n
  <1>5. CASE n = 1
    <2>1. V!EndsWithGeneration(r) = (s = <<ToAnswer>>)
      BY <1>3, <1>5
    <2>2. (s = <<ToAnswer>>) = (s[1] = ToAnswer)
      <3>1. s = <<ToAnswer>> => s[1] = ToAnswer
        BY <1>2
      <3>2. ASSUME s[1] = ToAnswer PROVE s = <<ToAnswer>>
        <4>1. ToAnswer \in Words
          BY WordFacts
        <4>2. <<ToAnswer>> \in Seq(Words)
          BY <4>1
        <4>3. \A i \in 1 .. Len(s) : s[i] = <<ToAnswer>>[i]
          BY <1>2, <1>5, <3>2 DEF n, s
        <4>4. Len(s) = Len(<<ToAnswer>>)
          BY <1>2, <1>5 DEF n, s
        <4>. QED BY <1>1, <4>2, <4>3, <4>4, SeqEqual
      <3>. QED BY <3>1, <3>2
    <2>. QED BY <1>5, <2>1, <2>2 DEF s, n
  <1>6. CASE n # 1
    <2>1. V!EndsWithGeneration(r) = (SubSeq(s, n, n) = <<ToAnswer>>)
      BY <1>1, <1>3, <1>4, <1>6
    <2>2. SubSeq(s, n, n) = <<s[n]>>
      <3>1. n \in 1 .. Len(s) /\ n \in n .. Len(s) /\ n + 1 \in Int /\ n < n + 1 /\ n \in Int
        BY <1>1 DEF n, s
      <3>2. SubSeq(s, n, n) = <<s[n]>> \o SubSeq(s, n + 1, n)
        BY <1>1, <3>1, SubSeqRecursiveFirst
      <3>3. SubSeq(s, n + 1, n) = <<>>
        BY <3>1, SubSeqEmpty
      <3>4. s[n] \in Words
        BY <1>1, <3>1, ElementOfSeq
      <3>5. <<s[n]>> \in Seq(Words)
        BY <3>4
      <3>6. <<s[n]>> \o <<>> = <<s[n]>>
        BY <3>5, ConcatEmptySeq
      <3>. QED BY <3>2, <3>3, <3>6
    <2>3. (<<s[n]>> = <<ToAnswer>>) = (s[n] = ToAnswer)
      OBVIOUS
    <2>. QED BY <2>1, <2>2, <2>3 DEF s, n
  <1>. QED BY <1>5, <1>6

LEMMA WithoutLast ==
    ASSUME NEW S, NEW s \in Seq(S), NEW x \in S
    PROVE  /\ s \o <<x>> \in Seq(S) /\ Len(s \o <<x>>) = Len(s) + 1
           /\ (s \o <<x>>)[Len(s) + 1] = x
           /\ V!Upto(s \o <<x>>, Len(s)) = s
  <1>1. <<x>> \in Seq(S) /\ Len(<<x>>) = 1 /\ <<x>>[1] = x
    OBVIOUS
  <1>. DEFINE sx == s \o <<x>>
  <1>2. /\ sx \in Seq(S) /\ Len(sx) = Len(s) + Len(<<x>>) /\ Len(s) \in Nat
        /\ \A i \in 1 .. Len(s) : sx[i] = s[i]
        /\ \A i \in 1 .. Len(<<x>>) : sx[Len(s) + i] = <<x>>[i]
    BY <1>1, Concatenated
  <1>. HIDE DEF sx
  <1>3. Len(sx) = Len(s) + 1 /\ sx[Len(s) + 1] = x
    BY <1>1, <1>2
  <1>4. /\ V!Upto(sx, Len(s)) \in Seq(S)
        /\ Len(V!Upto(sx, Len(s))) = IF Len(s) < Len(sx) THEN Len(s) ELSE Len(sx)
        /\ \A i \in 1 .. Len(V!Upto(sx, Len(s))) : V!Upto(sx, Len(s))[i] = sx[i]
    BY <1>2, FirstTokens
  <1>5. Len(V!Upto(sx, Len(s))) = Len(s)
    BY <1>2, <1>3, <1>4
  <1>6. \A i \in 1 .. Len(s) : V!Upto(sx, Len(s))[i] = s[i]
    BY <1>2, <1>4, <1>5
  <1>7. V!Upto(sx, Len(s)) = s
    BY <1>4, <1>5, <1>6, SeqEqual
  <1>. QED BY <1>2, <1>3, <1>7 DEF sx

LEMMA CutIs ==
    ASSUME NEW r \in Requests, InOrder(r), NEW n \in Nat
    PROVE  LET c == V!CutTo(r, n)
           IN  /\ c \in Requests /\ InOrder(c) /\ c.ids = V!Upto(r.ids, n)
               /\ c.messages = r.messages /\ c.prompt = r.prompt /\ c.limits = r.limits
               /\ c.images = r.images
  <1>. DEFINE c == V!CutTo(r, n)
              k == IF n < Len(r.ids) THEN n ELSE Len(r.ids)
  <1>1. /\ r.ids \in Seq(Words) /\ r.attention \in Seq({0, 1}) /\ r.loss \in Seq({0, 1})
        /\ r.positions \in Seq(Nat) /\ Len(r.ids) \in Nat
    BY LenProperties DEF Requests
  <1>2. c = [r EXCEPT !.ids = V!Upto(r.ids, n), !.attention = V!Upto(r.attention, n),
                      !.positions = V!Upto(r.positions, n), !.loss = V!Upto(r.loss, n)]
    BY Zenon DEF V!CutTo
  <1>. HIDE DEF c
  <1>3. /\ c.ids = V!Upto(r.ids, n) /\ c.attention = V!Upto(r.attention, n)
        /\ c.positions = V!Upto(r.positions, n) /\ c.loss = V!Upto(r.loss, n)
        /\ c.messages = r.messages /\ c.prompt = r.prompt /\ c.limits = r.limits
        /\ c.images = r.images
    BY <1>2 DEF Requests
  <1>4. k \in Nat /\ k <= Len(r.ids)
    BY <1>1
  <1>5. /\ Len(r.attention) = Len(r.ids) /\ Len(r.positions) = Len(r.ids) /\ Len(r.loss) = Len(r.ids)
    BY DEF InOrder
  <1>6. /\ c.ids \in Seq(Words) /\ Len(c.ids) = k /\ \A i \in 1 .. k : c.ids[i] = r.ids[i]
    <2>1. /\ V!Upto(r.ids, n) \in Seq(Words) /\ Len(V!Upto(r.ids, n)) = k
          /\ \A i \in 1 .. Len(V!Upto(r.ids, n)) : V!Upto(r.ids, n)[i] = r.ids[i]
      <3>1. ASSUME NEW s \in Seq(Words)
            PROVE  /\ V!Upto(s, n) \in Seq(Words)
                   /\ Len(V!Upto(s, n)) = IF n < Len(s) THEN n ELSE Len(s)
                   /\ \A i \in 1 .. Len(V!Upto(s, n)) : V!Upto(s, n)[i] = s[i]
        BY FirstTokens
      <3>. QED BY <1>1, <3>1, Zenon
    <2>. QED BY <1>3, <2>1, Zenon
  <1>7. /\ c.attention \in Seq({0, 1}) /\ Len(c.attention) = k /\ \A i \in 1 .. k : c.attention[i] = r.attention[i]
    <2>1. /\ V!Upto(r.attention, n) \in Seq({0, 1}) /\ Len(V!Upto(r.attention, n)) = k
          /\ \A i \in 1 .. Len(V!Upto(r.attention, n)) : V!Upto(r.attention, n)[i] = r.attention[i]
      BY <1>1, <1>5, FirstTokens
    <2>. QED BY <1>3, <2>1, Zenon
  <1>8. /\ c.loss \in Seq({0, 1}) /\ Len(c.loss) = k /\ \A i \in 1 .. k : c.loss[i] = r.loss[i]
    <2>1. /\ V!Upto(r.loss, n) \in Seq({0, 1}) /\ Len(V!Upto(r.loss, n)) = k
          /\ \A i \in 1 .. Len(V!Upto(r.loss, n)) : V!Upto(r.loss, n)[i] = r.loss[i]
      BY <1>1, <1>5, FirstTokens
    <2>. QED BY <1>3, <2>1, Zenon
  <1>9. /\ c.positions \in Seq(Nat) /\ Len(c.positions) = k /\ \A i \in 1 .. k : c.positions[i] = r.positions[i]
    <2>1. /\ V!Upto(r.positions, n) \in Seq(Nat) /\ Len(V!Upto(r.positions, n)) = k
          /\ \A i \in 1 .. Len(V!Upto(r.positions, n)) : V!Upto(r.positions, n)[i] = r.positions[i]
      BY <1>1, <1>5, FirstTokens
    <2>. QED BY <1>3, <2>1, Zenon
  <1>10. c \in Requests
    BY <1>2, <1>3, <1>6, <1>7, <1>8, <1>9 DEF Requests
  <1>. HIDE DEF k
  <1>11. ASSUME NEW t \in 1 .. k
         PROVE  /\ c.attention[t] = 1 /\ c.positions[t] = t - 1
                /\ (c.loss[t] = 1) = (t > r.prompt /\ Learned(c.ids, t))
    <2>1. t \in 1 .. Len(r.ids) /\ t \in Nat \ {0} /\ Len(r.ids) >= 1
      BY <1>1, <1>4
    <2>2. /\ r.attention[t] = 1 /\ r.positions[t] = t - 1
          /\ (r.loss[t] = 1) = (t > r.prompt /\ Learned(r.ids, t))
      BY <2>1 DEF InOrder
    <2>3. Learned(r.ids, t) = Learned(c.ids, t)
      <3>1. r.ids[1] \in Opens
        BY <2>1 DEF InOrder
      <3>2. \A i \in 1 .. t : r.ids[i] = c.ids[i]
        BY <1>4, <1>6
      <3>3. \A i \in Nat \ {0} : (\A j \in 1 .. i : r.ids[j] = c.ids[j])
                  => Learned(r.ids, i) = Learned(c.ids, i)
        BY <3>1, LearnedBefore
      <3>. QED BY <2>1, <3>2, <3>3
    <2>. QED BY <1>7, <1>8, <1>9, <2>2, <2>3, Zenon
  <1>12. InOrder(c)
    <2>1. k >= 1 => c.ids[1] \in Opens
      <3>1. Len(r.ids) >= 1 => r.ids[1] \in Opens
        BY DEF InOrder
      <3>2. k >= 1 => 1 \in 1 .. k /\ Len(r.ids) >= 1
        BY <1>1, <1>4
      <3>3. 1 \in 1 .. k => c.ids[1] = r.ids[1]
        BY <1>6, Zenon
      <3>. QED BY <3>1, <3>2, <3>3, Zenon
    <2>. QED BY <1>3, <1>6, <1>7, <1>8, <1>9, <1>11, <2>1 DEF InOrder
  <1>. QED BY <1>3, <1>10, <1>12 DEF c

LEMMA AfterPrompt ==
    ASSUME NEW S, NEW s \in Seq(S), NEW p \in Nat, NEW l \in Nat
    PROVE  LET n == Len(V!Upto(V!From(s, p), l))
           IN  /\ n \in Nat /\ n <= l /\ (n = l \/ p + n >= Len(s))
               /\ n = IF p < Len(s) THEN (IF l < Len(s) - p THEN l ELSE Len(s) - p) ELSE 0
               /\ \A t \in 1 .. n : p + t \in 1 .. Len(s) /\ V!Upto(V!From(s, p), l)[t] = s[p + t]
  <1>. DEFINE f == V!From(s, p)
              n == Len(V!Upto(f, l))
              m == p + 1
  <1>1. Len(s) \in Nat /\ m \in Int /\ Len(s) \in Int
    BY LenProperties
  <1>2. f = SubSeq(s, m, Len(s))
    BY DEF V!From
  <1>3. \A i \in m .. Len(s) : s[i] \in S
    <2>1. \A i \in m .. Len(s) : i \in 1 .. Len(s)
      BY <1>1
    <2>. QED BY <2>1, ElementOfSeq
  <1>. HIDE DEF m
  <1>4. /\ SubSeq(s, m, Len(s)) \in Seq(S)
        /\ Len(SubSeq(s, m, Len(s))) = IF m <= Len(s) THEN Len(s) - m + 1 ELSE 0
        /\ \A i \in 1 .. Len(s) - m + 1 : SubSeq(s, m, Len(s))[i] = s[m + i - 1]
    BY <1>1, <1>3, SubSeqProperties
  <1>5. f \in Seq(S) /\ Len(f) = IF p < Len(s) THEN Len(s) - p ELSE 0
    BY <1>1, <1>2, <1>4 DEF m
  <1>6. \A i \in 1 .. Len(f) : f[i] = s[p + i]
    <2>. SUFFICES ASSUME NEW i \in 1 .. Len(f) PROVE f[i] = s[p + i]
      OBVIOUS
    <2>1. i \in 1 .. Len(s) - m + 1 /\ m + i - 1 = p + i
      BY <1>1, <1>5 DEF m
    <2>. QED BY <1>2, <1>4, <2>1
  <1>. HIDE DEF f
  <1>7. /\ V!Upto(f, l) \in Seq(S) /\ n = IF l < Len(f) THEN l ELSE Len(f)
        /\ \A i \in 1 .. n : i \in 1 .. Len(f) /\ V!Upto(f, l)[i] = f[i]
    BY <1>5, FirstTokens
  <1>. HIDE DEF n
  <1>8. \A t \in 1 .. n : p + t \in 1 .. Len(s) /\ V!Upto(f, l)[t] = s[p + t]
    BY <1>1, <1>5, <1>6, <1>7
  <1>9. /\ n \in Nat /\ n <= l /\ (n = l \/ p + n >= Len(s))
        /\ n = IF p < Len(s) THEN (IF l < Len(s) - p THEN l ELSE Len(s) - p) ELSE 0
    BY <1>1, <1>5, <1>7
  <1>. QED BY <1>8, <1>9 DEF n, f

-----------------------------------------------------------------------------
\* The tokens so far are those of the messages, but for newlines and the end mark
\* of an answer that was cut off.
Faithful(base, ms, cut) ==
    /\ base \in Seq(Words) /\ Len(base) >= 1
    /\ Len(base) < Len(Told(ms)) \/ base = Told(ms)
    /\ OnOneLine(Told(ms)) = IF cut THEN Append(OnOneLine(base), V!End) ELSE OnOneLine(base)

\* The engine has been asked for an answer, or not.
Asked(r, cut) == \E base : Faithful(base, r.messages, cut) /\ r.ids = base \o <<ToAnswer>>
Ended(r, cut) == Faithful(r.ids, r.messages, cut) /\ r.ids[Len(r.ids)] # ToAnswer

Sound(r) ==
    /\ r \in Requests /\ InOrder(r) /\ Len(r.ids) >= 1
    /\ r.images = V!ImagesOf(r.messages)

LEMMA MoreIsFaithful ==
    ASSUME NEW base \in Seq(Words), NEW told \in Seq(Words), NEW said \in Seq(Words), NEW whole \in Seq(Words),
           Len(base) < Len(told) \/ base = told, OnOneLine(told) = OnOneLine(base),
           Len(said) < Len(whole) \/ said = whole
    PROVE  /\ Len(base \o said) < Len(told \o whole) \/ base \o said = told \o whole
           /\ OnOneLine(told \o whole) = OnOneLine(base) \o OnOneLine(whole)
           /\ OnOneLine(base \o said) = OnOneLine(base) \o OnOneLine(said)
  <1>1. /\ Len(base) \in Nat /\ Len(told) \in Nat /\ Len(said) \in Nat /\ Len(whole) \in Nat
        /\ Len(base \o said) = Len(base) + Len(said)
        /\ Len(told \o whole) = Len(told) + Len(whole)
    BY WordsConcatenated, Zenon
  <1>2. \A u, v \in Seq(Words) : OnOneLine(u \o v) = OnOneLine(u) \o OnOneLine(v)
    BY LineIs
  <1>3. Len(base \o said) < Len(told \o whole) \/ base \o said = told \o whole
    BY <1>1
  <1>4. OnOneLine(told \o whole) = OnOneLine(told) \o OnOneLine(whole)
    BY <1>2
  <1>5. OnOneLine(base \o said) = OnOneLine(base) \o OnOneLine(said)
    BY <1>2
  <1>. QED BY <1>3, <1>4, <1>5

LEMMA RemovedIs ==
    ASSUME NEW r, Sound(r), NEW cut, Asked(r, cut) \/ Ended(r, cut)
    PROVE  LET u == V!RemoveGenerationPromptIdsIfPresent(r)
           IN  /\ u \in Requests /\ InOrder(u) /\ Faithful(u.ids, r.messages, cut)
               /\ u.messages = r.messages /\ u.prompt = r.prompt /\ u.limits = r.limits
               /\ u.images = r.images
               /\ Ended(r, cut) => u = r
  <1>. DEFINE u == V!RemoveGenerationPromptIdsIfPresent(r)
              n == Len(r.ids)
  <1>1. r \in Requests /\ InOrder(r) /\ n >= 1 /\ r.generation = <<ToAnswer>>
    BY DEF Sound, Requests
  <1>2. n \in Nat \ {0} /\ r.ids \in Seq(Words)
    BY <1>1, LenProperties DEF Requests
  <1>3. V!EndsWithGeneration(r) = (r.ids[n] = ToAnswer)
    BY <1>1, EndsIs
  <1>4. Len(r.generation) = 1
    BY <1>1
  <1>5. u = IF V!EndsWithGeneration(r) THEN V!CutTo(r, n - 1) ELSE r
    BY <1>4 DEF V!RemoveGenerationPromptIdsIfPresent
  <1>6. CASE r.ids[n] # ToAnswer
    <2>1. u = r
      BY <1>3, <1>5, <1>6
    <2>2. Ended(r, cut)
      <3>1. CASE Asked(r, cut)
        <4>1. PICK base : Faithful(base, r.messages, cut) /\ r.ids = base \o <<ToAnswer>>
          BY <3>1 DEF Asked
        <4>2. ToAnswer \in Words /\ base \in Seq(Words)
          BY <4>1, WordFacts DEF Faithful
        <4>3. r.ids[n] = ToAnswer
          BY <4>1, <4>2, WithoutLast
        <4>. QED BY <1>6, <4>3
      <3>. QED BY <3>1
    <2>. QED BY <1>1, <2>1, <2>2 DEF Ended
  <1>7. CASE r.ids[n] = ToAnswer
    <2>1. Asked(r, cut) /\ ~ Ended(r, cut)
      BY <1>7 DEF Ended
    <2>2. PICK base : Faithful(base, r.messages, cut) /\ r.ids = base \o <<ToAnswer>>
      BY <2>1 DEF Asked
    <2>3. ToAnswer \in Words /\ base \in Seq(Words)
      BY <2>2, WordFacts DEF Faithful
    <2>4. n = Len(base) + 1 /\ V!Upto(r.ids, Len(base)) = base /\ Len(base) \in Nat
      BY <2>2, <2>3, WithoutLast, LenProperties
    <2>5. n - 1 = Len(base) /\ n - 1 \in Nat
      BY <2>4
    <2>6. u = V!CutTo(r, n - 1)
      BY <1>3, <1>5, <1>7
    <2>. HIDE DEF u, n
    <2>7. /\ u \in Requests /\ InOrder(u) /\ u.ids = V!Upto(r.ids, n - 1)
          /\ u.messages = r.messages /\ u.prompt = r.prompt /\ u.limits = r.limits
          /\ u.images = r.images
      BY <1>1, <2>5, <2>6, CutIs
    <2>8. u.ids = base
      BY <2>4, <2>5, <2>7
    <2>. QED BY <2>1, <2>2, <2>7, <2>8 DEF u
  <1>. QED BY <1>6, <1>7

LEMMA AskedIs ==
    ASSUME NEW r, Sound(r), r.prompt <= Len(r.ids), Asked(r, FALSE) \/ Ended(r, FALSE)
    PROVE  LET u == V!GetGenerationPromptIds(r, FALSE).request
           IN  Sound(u) /\ u.prompt <= Len(u.ids) /\ Asked(u, FALSE)
  <1>. DEFINE u == V!GetGenerationPromptIds(r, FALSE).request
              n == Len(r.ids)
  <1>1. /\ r \in Requests /\ InOrder(r) /\ n >= 1 /\ r.generation = <<ToAnswer>>
        /\ r.images = V!ImagesOf(r.messages) /\ r.ids \in Seq(Words) /\ r.images \in Seq(Int \X Int)
        /\ r.prompt \in Nat
    BY DEF Sound, Requests
  <1>2. u = IF V!EndsWithGeneration(r) THEN r ELSE V!UpdateInputIds(r, r.generation, 0, <<>>)
    BY DEF V!GetGenerationPromptIds
  <1>3. V!EndsWithGeneration(r) = (r.ids[n] = ToAnswer)
    BY <1>1, EndsIs
  <1>4. CASE r.ids[n] = ToAnswer
    <2>1. u = r /\ Asked(r, FALSE)
      BY <1>2, <1>3, <1>4 DEF Ended
    <2>. QED BY <2>1
  <1>5. CASE r.ids[n] # ToAnswer
    <2>. DEFINE more == <<ToAnswer>>
    <2>1. ToAnswer \in Words /\ ToAnswer \in Opens
      BY WordFacts
    <2>2. more \in Seq(Words) /\ Len(more) = 1 /\ more[1] = ToAnswer
      BY <2>1
    <2>3. u = V!UpdateInputIds(r, more, 0, <<>>)
      BY <1>1, <1>2, <1>3, <1>5
    <2>. HIDE DEF more, u
    <2>4. /\ Len(r.ids \o more) = n + 1 /\ (r.ids \o more)[n + 1] = ToAnswer /\ n \in Nat
      <3>1. /\ Len(r.ids \o more) = Len(r.ids) + Len(more) /\ Len(r.ids) \in Nat
            /\ \A i \in 1 .. Len(more) : (r.ids \o more)[Len(r.ids) + i] = more[i]
        <4>1. ASSUME NEW v \in Seq(Words), NEW w \in Seq(Words)
              PROVE  /\ Len(v \o w) = Len(v) + Len(w) /\ Len(v) \in Nat
                     /\ \A i \in 1 .. Len(w) : (v \o w)[Len(v) + i] = w[i]
          BY WordsConcatenated
        <4>. QED BY <1>1, <2>2, <4>1, Zenon
      <3>. QED BY <2>2, <3>1
    <2>5. \A t \in 1 .. Len(more) : (0 = 1) <=> Learned(r.ids \o more, Len(r.ids) + t)
      <3>1. ~ Learned(r.ids \o more, n + 1)
        BY <2>1, <2>4, MarksAreNotLearned
      <3>2. \A t \in 1 .. Len(more) : t = 1
        BY <2>2
      <3>. QED BY <3>1, <3>2
    <2>6. <<>> \in Seq(Int \X Int) /\ 0 \in {0, 1}
      OBVIOUS
    <2>7. /\ u \in Requests /\ InOrder(u)
          /\ u.messages = r.messages /\ u.ids = r.ids \o more /\ u.prompt = r.prompt
          /\ u.images = r.images \o <<>> /\ u.limits = r.limits
      <3>1. Extended(u, r, more, <<>>)
        BY <1>1, <2>2, <2>3, <2>5, <2>6, Updated
      <3>. QED BY <3>1 DEF Extended
    <2>8. r.images \o <<>> = r.images
      BY <1>1, ConcatEmptySeq
    <2>9. Ended(r, FALSE)
      <3>1. CASE Asked(r, FALSE)
        <4>1. PICK base : Faithful(base, r.messages, FALSE) /\ r.ids = base \o <<ToAnswer>>
          BY <3>1 DEF Asked
        <4>2. base \in Seq(Words)
          BY <4>1 DEF Faithful
        <4>3. r.ids[n] = ToAnswer
          BY <2>1, <4>1, <4>2, WithoutLast
        <4>. QED BY <1>5, <4>3
      <3>. QED BY <3>1
    <2>10. Asked(u, FALSE)
      BY <2>7, <2>9 DEF Asked, Ended, more
    <2>11. Sound(u) /\ u.prompt <= Len(u.ids)
      BY <1>1, <2>4, <2>7, <2>8 DEF Sound
    <2>. QED BY <2>10, <2>11 DEF u
  <1>. QED BY <1>4, <1>5

-----------------------------------------------------------------------------
LEMMA ToldStarts ==
    ASSUME NEW ms \in Talk
    PROVE  Told(ms) \in Seq(Words) /\ Len(Told(ms)) \in Nat \ {0} /\ Told(ms)[1] \in Opens
  <1>. DEFINE start == IF ms[1].role = "system" THEN <<>> ELSE V!SystemPrompt
              rest == FlatMap(Rendered, ms)
  <1>1. /\ rest \in Seq(Words) /\ Len(rest) \in Nat \ {0} /\ rest[1] \in Opens
    <2>1. /\ rest \in Seq(Words) /\ Len(rest) >= 1 /\ rest[1] = V!Open(ms[1].role) /\ ms[1] \in Messages
      BY FlatRenderedFirst
    <2>2. V!Open(ms[1].role) \in Opens
      BY <2>1, WordFacts DEF Messages
    <2>. QED BY <2>1, <2>2, LenProperties
  <1>2. Told(ms) = start \o rest
    BY DEF Told
  <1>3. CASE ms[1].role = "system"
    <2>1. start = <<>>
      BY <1>3
    <2>. HIDE DEF start, rest
    <2>2. <<>> \o rest = rest
      BY <1>1, ConcatEmptySeq
    <2>. QED BY <1>1, <1>2, <2>1, <2>2
  <1>4. CASE ms[1].role # "system"
    <2>1. start \in Seq(Words) /\ Len(start) = 4 /\ start[1] \in Opens
      BY <1>4, ManyWords
    <2>. HIDE DEF start, rest
    <2>2. /\ start \o rest \in Seq(Words) /\ Len(start \o rest) = Len(start) + Len(rest)
          /\ \A i \in 1 .. Len(start) : (start \o rest)[i] = start[i]
      BY <1>1, <2>1, WordsConcatenated, Zenon
    <2>3. 1 \in 1 .. Len(start) /\ Len(start) + Len(rest) \in Nat \ {0}
      BY <1>1, <2>1
    <2>. QED BY <1>2, <2>1, <2>2, <2>3
  <1>. QED BY <1>3, <1>4

LEMMA StartedIs ==
    ASSUME NEW ms \in Talk, NEW limits \in [model : Nat, response : Nat]
    PROVE  LET u == V!InitializeRequest(ms, limits)
           IN  Sound(u) /\ u.prompt <= Len(u.ids) /\ Asked(u, FALSE)
  <1>. DEFINE u == V!InitializeRequest(ms, limits)
              told == Told(ms)
              ids == told \o <<ToAnswer>>
              n == Len(ids)
  <1>1. /\ told \in Seq(Words) /\ Len(told) \in Nat \ {0} /\ told[1] \in Opens
        /\ V!ChatTemplate(ms, FALSE) = told /\ V!ChatTemplate(ms, TRUE) = ids
    BY ToldStarts, TemplateIs
  <1>2. ToAnswer \in Words
    BY WordFacts
  <1>3. <<ToAnswer>> \in Seq(Words)
    BY <1>2
  <1>. HIDE DEF told
  <1>4. V!From(ids, Len(told)) = <<ToAnswer>>
    BY <1>1, <1>3, FromIs
  <1>5. /\ ids \in Seq(Words) /\ n = Len(told) + 1
    BY <1>1, <1>2, WithoutLast
  <1>6. ids[1] = told[1]
    <2>1. \A i \in 1 .. Len(told) : ids[i] = told[i]
      <3>1. <<ToAnswer>> \in Seq(Words)
        BY <1>2
      <3>. QED BY <1>1, <3>1, WordsConcatenated, Zenon
    <2>. QED BY <1>1, <2>1
  <1>7. n \in Nat \ {0}
    BY <1>1, <1>5
  <1>8. u = [messages |-> ms, ids |-> ids, attention |-> V!Repeat(1, n),
             positions |-> V!PositionIds(V!Repeat(1, n)), loss |-> V!Repeat(0, n),
             images |-> V!ImagesOf(ms), prompt |-> n, generation |-> <<ToAnswer>>, limits |-> limits,
             response |-> <<>>, state |-> "running"]
    BY <1>1, <1>4 DEF V!InitializeRequest
  <1>. HIDE DEF u, ids, n
  <1>9. /\ V!Repeat(1, n) \in Seq({0, 1}) /\ Len(V!Repeat(1, n)) = n
        /\ \A i \in 1 .. n : V!Repeat(1, n)[i] = 1
        /\ V!Repeat(0, n) \in Seq({0, 1}) /\ Len(V!Repeat(0, n)) = n
        /\ \A i \in 1 .. n : V!Repeat(0, n)[i] = 0
    <2>1. 1 \in {0, 1} /\ 0 \in {0, 1} /\ n \in Nat
      BY <1>7
    <2>. QED BY <2>1, RepeatIs
  <1>. DEFINE places == V!PositionIds(V!Repeat(1, n))
  <1>10. places = [i \in 1 .. n |-> i - 1]
    <2>. DEFINE ones == V!Repeat(1, n)
    <2>1. ones \in Seq({0, 1}) /\ Len(ones) = n /\ \A i \in 1 .. Len(ones) : ones[i] = 1
      BY <1>9
    <2>. HIDE DEF ones
    <2>2. V!PositionIds(ones) = [i \in 1 .. Len(ones) |-> i - 1]
      BY <2>1, PositionsAre
    <2>. QED BY <2>1, <2>2 DEF ones
  <1>11. places \in Seq(Nat) /\ Len(places) = n /\ \A i \in 1 .. n : places[i] = i - 1
    <2>1. places \in [1 .. n -> Nat] /\ \A i \in 1 .. n : places[i] = i - 1
      BY <1>7, <1>10
    <2>. HIDE DEF places
    <2>. QED BY <1>7, <2>1, LengthOfFunction
  <1>12. V!ImagesOf(ms) \in Seq(Int \X Int)
    BY ImagesAre DEF Talk
  <1>. HIDE DEF places
  <1>13. /\ u.messages = ms /\ u.ids = ids /\ u.attention = V!Repeat(1, n) /\ u.positions = places
         /\ u.loss = V!Repeat(0, n) /\ u.images = V!ImagesOf(ms) /\ u.prompt = n
    BY <1>8 DEF places
  <1>14. u \in Requests
    BY <1>5, <1>7, <1>8, <1>9, <1>11, <1>12 DEF Requests, places
  <1>15. Len(ids) = n
    BY DEF n
  <1>16. InOrder(u)
    BY <1>1, <1>6, <1>7, <1>9, <1>11, <1>13, <1>15 DEF InOrder
  <1>17. Sound(u) /\ u.prompt <= Len(u.ids)
    BY <1>7, <1>13, <1>14, <1>15, <1>16 DEF Sound
  <1>18. Faithful(told, ms, FALSE)
    BY <1>1 DEF Faithful, told
  <1>19. Asked(u, FALSE)
    BY <1>13, <1>18 DEF Asked, ids
  <1>. QED BY <1>17, <1>19 DEF u

Others == Words \ {ToAnswer}

\* Only an answer opens with the mark for one.
LEMMA OthersDoNotAnswer ==
    ASSUME NEW ms \in Seq(Messages), \A i \in 1 .. Len(ms) : ms[i].role # "assistant"
    PROVE  FlatMap(Rendered, ms) \in Seq(Others)
  <1>. DEFINE S == {m \in Messages : m.role # "assistant"}
              F == [m \in S |-> Rendered[m]]
  <1>1. \A i \in 1 .. Len(ms) : ms[i] \in S
    BY ElementOfSeq
  <1>2. Len(ms) \in Nat /\ DOMAIN ms = 1 .. Len(ms) /\ ms \in [1 .. Len(ms) -> Messages]
    BY LenProperties
  <1>3. ms \in Seq(S)
    <2>1. ms \in [1 .. Len(ms) -> S]
      BY <1>1, <1>2
    <2>. HIDE DEF S
    <2>. QED BY <1>2, <2>1, LengthOfFunction
  <1>4. F \in [S -> Seq(Others)]
    <2>1. \A m \in S : Rendered[m] \in Seq(Others)
      BY RenderedIs DEF Others
    <2>. HIDE DEF S
    <2>. QED BY <2>1
  <1>5. Each(F, ms) = Each(Rendered, ms)
    <2>1. \A i \in DOMAIN ms : F[ms[i]] = Rendered[ms[i]]
      BY <1>1, <1>2
    <2>. HIDE DEF F
    <2>. QED BY <2>1 DEF Each
  <1>. HIDE DEF S, F
  <1>6. FlatMap(F, ms) \in Seq(Others)
    BY <1>3, <1>4, FlatMapType
  <1>. QED BY <1>5, <1>6 DEF FlatMap

\* Messages that are not answers follow an answer.
LEMMA RepliesAre ==
    ASSUME NEW r, Sound(r), r.prompt <= Len(r.ids), Ended(r, FALSE),
           NEW ms \in Talk, \A i \in 1 .. Len(ms) : ms[i].role # "assistant"
    PROVE  LET u == V!UpdateInputIds([r EXCEPT !.messages = r.messages \o ms],
                                     FlatMap(Rendered, ms), 0, V!ImagesOf(ms))
           IN  Sound(u) /\ u.prompt <= Len(u.ids) /\ Ended(u, FALSE)
  <1>. DEFINE a == [r EXCEPT !.messages = r.messages \o ms]
              more == FlatMap(Rendered, ms)
              u == V!UpdateInputIds(a, more, 0, V!ImagesOf(ms))
              n == Len(r.ids)
              m == Len(more)
  <1>1. /\ r \in Requests /\ InOrder(r) /\ n >= 1
        /\ r.images = V!ImagesOf(r.messages) /\ r.ids \in Seq(Words) /\ r.images \in Seq(Int \X Int)
        /\ r.prompt \in Nat /\ r.messages \in Talk
    BY DEF Sound, Requests
  <1>2. /\ r.messages \o ms \in Talk /\ Told(r.messages \o ms) = Told(r.messages) \o more
    <2>1. ms \in Seq(Messages)
      BY DEF Talk
    <2>. QED BY <1>1, <2>1, ToldGrows
  <1>3. /\ more \in Seq(Words) /\ m >= 1 /\ more[1] \in Opens
    <2>1. more \in Seq(Words) /\ m >= 1 /\ more[1] = V!Open(ms[1].role) /\ ms[1] \in Messages
      BY FlatRenderedFirst
    <2>2. V!Open(ms[1].role) \in Opens
      BY <2>1, WordFacts DEF Messages
    <2>. QED BY <2>1, <2>2
  <1>4. \A i \in 1 .. m : more[i] # ToAnswer
    <2>1. more \in Seq(Others)
      BY OthersDoNotAnswer DEF Talk
    <2>2. \A i \in 1 .. m : more[i] \in Others
      <3>. HIDE DEF more
      <3>. QED BY <2>1, ElementOfSeq
    <2>. QED BY <2>2 DEF Others
  <1>5. V!ImagesOf(ms) \in Seq(Int \X Int) /\ V!ImagesOf(r.messages \o ms) = V!ImagesOf(r.messages) \o V!ImagesOf(ms)
    BY <1>1, ImagesAre DEF Talk
  <1>6. /\ a \in Requests /\ InOrder(a) /\ a.messages = r.messages \o ms
        /\ a.ids = r.ids /\ a.prompt = r.prompt /\ a.limits = r.limits /\ a.images = r.images
    BY <1>1, <1>2, MessagesAdded
  <1>. HIDE DEF a, more, u
  <1>7. /\ Len(r.ids \o more) = n + m /\ n \in Nat /\ m \in Nat
        /\ \A i \in 1 .. m : (r.ids \o more)[n + i] = more[i]
    <2>1. ASSUME NEW v \in Seq(Words), NEW w \in Seq(Words)
          PROVE  /\ Len(v \o w) = Len(v) + Len(w) /\ Len(v) \in Nat /\ Len(w) \in Nat
                 /\ \A i \in 1 .. Len(w) : (v \o w)[Len(v) + i] = w[i]
      BY WordsConcatenated
    <2>. QED BY <1>1, <1>3, <2>1, Zenon
  <1>8. \A t \in 1 .. m : (0 = 1) <=> Learned(a.ids \o more, n + t)
    <2>. SUFFICES ASSUME NEW t \in 1 .. m PROVE ~ Learned(r.ids \o more, n + t)
      BY <1>6
    <2>1. 1 \in 1 .. m /\ n + t \in Nat /\ n < n + t
      BY <1>3, <1>7
    <2>2. (r.ids \o more)[n + 1] \in Opens
      BY <1>3, <1>7, <2>1
    <2>3. ASSUME NEW k \in n + 1 .. n + t PROVE (r.ids \o more)[k] # ToAnswer
      <3>1. k - n \in 1 .. m /\ n + (k - n) = k
        BY <1>7
      <3>. QED BY <1>4, <1>7, <3>1
    <2>. QED BY <1>7, <2>1, <2>2, <2>3, OthersAreNotLearned
  <1>9. /\ u \in Requests /\ InOrder(u) /\ u.messages = a.messages /\ u.ids = a.ids \o more
        /\ u.prompt = a.prompt /\ u.images = a.images \o V!ImagesOf(ms)
    <2>1. 0 \in {0, 1} /\ Len(a.ids) = n
      BY <1>6
    <2>. HIDE DEF n, m
    <2>2. Len(a.ids) >= 1 /\ a.prompt <= Len(a.ids)
      BY <1>1, <1>6 DEF n
    <2>3. \A t \in 1 .. Len(more) : (0 = 1) <=> Learned(a.ids \o more, Len(a.ids) + t)
      BY <1>8, <2>1 DEF m
    <2>4. Extended(u, a, more, V!ImagesOf(ms))
      BY <1>3, <1>5, <1>6, <2>1, <2>2, <2>3, Updated DEF u
    <2>. QED BY <2>4 DEF Extended
  <1>10. Sound(u) /\ u.prompt <= Len(u.ids) /\ Len(u.ids) = n + m
    <2>1. Len(u.ids) = n + m
      BY <1>6, <1>7, <1>9
    <2>2. u.images = V!ImagesOf(u.messages) /\ u.prompt = r.prompt
      BY <1>1, <1>5, <1>6, <1>9
    <2>3. n + m >= 1 /\ r.prompt <= n + m
      BY <1>1, <1>7
    <2>. QED BY <1>9, <2>1, <2>2, <2>3 DEF Sound
  <1>11. Ended(u, FALSE)
    <2>1. Faithful(u.ids, u.messages, FALSE)
      <3>1. Told(r.messages) \in Seq(Words)
        BY <1>1, ToldStarts
      <3>2. /\ Len(r.ids) < Len(Told(r.messages)) \/ r.ids = Told(r.messages)
            /\ OnOneLine(Told(r.messages)) = OnOneLine(r.ids)
        BY DEF Ended, Faithful
      <3>3. /\ Len(r.ids \o more) < Len(Told(r.messages) \o more) \/ r.ids \o more = Told(r.messages) \o more
            /\ OnOneLine(Told(r.messages) \o more) = OnOneLine(r.ids) \o OnOneLine(more)
            /\ OnOneLine(r.ids \o more) = OnOneLine(r.ids) \o OnOneLine(more)
        <4>1. r.ids \in Seq(Words) /\ more \in Seq(Words)
          BY <1>1, <1>3
        <4>2. Len(more) < Len(more) \/ more = more
          OBVIOUS
        <4>. QED BY <4>1, <4>2, <3>1, <3>2, MoreIsFaithful, Zenon
      <3>4. u.ids \in Seq(Words) /\ Len(u.ids) >= 1
        BY <1>10 DEF Sound, Requests
      <3>. QED BY <1>2, <1>6, <1>9, <3>3, <3>4 DEF Faithful, more
    <2>2. u.ids[Len(u.ids)] # ToAnswer
      <3>1. m \in 1 .. m
        BY <1>3, <1>7
      <3>. QED BY <1>4, <1>6, <1>7, <1>9, <3>1
    <2>. QED BY <2>1, <2>2 DEF Ended
  <1>. QED BY <1>10, <1>11 DEF u, a, more

\* The answer of the engine is learned.  It may come without its end.
LEMMA AnsweredIs ==
    ASSUME NEW r, Sound(r), r.prompt <= Len(r.ids), Asked(r, FALSE),
           NEW m \in Messages, m.role = "assistant", m.images = 0, m.text = 2,
           NEW ids \in {<<>>, V!Content(m), Append(V!Content(m), V!End)}
    PROVE  LET u == V!AddAssistantMessage(r, m, ids)
           IN  Sound(u) /\ u.prompt <= Len(u.ids) /\ Ended(u, ids = V!Content(m))
  <1>. DEFINE ms == r.messages \o <<m>>
              a == [r EXCEPT !.messages = ms]
              more == IF ids = <<>> THEN Spoken(m) ELSE ids
              u == V!UpdateInputIds(a, more, 1, <<>>)
              n == Len(r.ids)
              k == Len(more)
              content == V!Content(m)
              whole == <<ToAnswer>> \o Spoken(m)
  <1>1. /\ r \in Requests /\ InOrder(r) /\ n >= 1
        /\ r.images = V!ImagesOf(r.messages) /\ r.ids \in Seq(Words) /\ r.images \in Seq(Int \X Int)
        /\ r.prompt \in Nat /\ r.messages \in Talk /\ r.messages \in Seq(Messages)
    BY DEF Sound, Requests, Talk
  <1>2. V!AddAssistantMessage(r, m, ids) = u
    <2>1. Append(r.messages, m) = ms
      BY <1>1, AppendIsConcat
    <2>2. V!ContentIds(<<m>>, V!BaseConvWithGenPromptEndPos) = Spoken(m)
      BY ContentIdsAre
    <2>. QED BY <2>1, <2>2, Zenon DEF V!AddAssistantMessage
  <1>3. /\ content \in Seq(Quiet) /\ content \in Seq(Words) /\ Len(content) = 2
        /\ Spoken(m) \in Seq(Quiet) /\ Spoken(m) \in Seq(Words) /\ Len(Spoken(m)) = 4
    <2>1. /\ content \in Seq(Quiet) /\ content \in Seq(Words) /\ Len(content) = m.images + m.text
      BY ContentIs
    <2>2. /\ Spoken(m) \in Seq(Quiet) /\ Spoken(m) \in Seq(Words)
          /\ Len(Spoken(m)) = m.images + m.text + 2
      BY SpokenIs
    <2>. QED BY <2>1, <2>2
  <1>4. /\ V!End \in Quiet /\ V!End \in Words /\ ToAnswer \in Words /\ ToAnswer \in Opens
        /\ <<ToAnswer>> \in Seq(Words)
    BY WordFacts, ManyWords DEF Quiet
  <1>5. /\ Append(content, V!End) = content \o <<V!End>>
        /\ content \o <<V!End>> \in Seq(Quiet) /\ Len(content \o <<V!End>>) = 3
    <2>. HIDE DEF content
    <2>1. Append(content, V!End) = content \o <<V!End>>
      BY <1>3, <1>4, AppendIsConcat
    <2>2. content \o <<V!End>> \in Seq(Quiet) /\ Len(content \o <<V!End>>) = Len(content) + 1
      BY <1>3, <1>4, WithoutLast
    <2>. QED BY <1>3, <2>1, <2>2
  <1>6. /\ <<m>> \in Seq(Messages) /\ FlatMap(Rendered, <<m>>) = whole
    <2>1. V!Open(m.role) = ToAnswer
      BY DEF ToAnswer
    <2>2. FlatMap(Rendered, <<m>>) = Rendered[m] /\ <<m>> \in Seq(Messages)
      BY FlatRendered
    <2>3. Rendered[m] = <<V!Open(m.role)>> \o Spoken(m)
      BY RenderedIs
    <2>. QED BY <2>1, <2>2, <2>3
  <1>7. ms \in Talk /\ Told(ms) = Told(r.messages) \o whole
    BY <1>1, <1>6, ToldGrows
  <1>8. V!ImagesOf(ms) = V!ImagesOf(r.messages)
    <2>1. V!ImagesOf(ms) = V!ImagesOf(r.messages) \o V!ImagesOf(<<m>>) /\ V!ImagesOf(<<m>>) = <<>>
      BY <1>1, <1>6, ImagesAre
    <2>2. V!ImagesOf(r.messages) \in Seq(Int \X Int)
      BY <1>1, ImagesAre
    <2>3. V!ImagesOf(r.messages) \o <<>> = V!ImagesOf(r.messages)
      BY <2>2, ConcatEmptySeq
    <2>. QED BY <2>1, <2>3
  <1>9. more \in Seq(Quiet) /\ more \in Seq(Words) /\ k \in Nat \ {0}
        /\ more \in {Spoken(m), content, content \o <<V!End>>}
        /\ (ids = content => more = content)
        /\ (ids # content => more \in {Spoken(m), content \o <<V!End>>})
    <2>1. Quiet \subseteq Words
      BY DEF Quiet
    <2>2. content # <<>> /\ content \o <<V!End>> # <<>>
      BY <1>3, <1>5
    <2>3. /\ more \in {Spoken(m), content, content \o <<V!End>>}
          /\ (ids = content => more = content)
          /\ (ids # content => more \in {Spoken(m), content \o <<V!End>>})
      BY <1>5, <2>2
    <2>4. more \in Seq(Quiet) /\ k \in {2, 3, 4}
      <3>. HIDE DEF more
      <3>. QED BY <1>3, <1>5, <2>3
    <2>5. more \in Seq(Words)
      <3>. HIDE DEF more
      <3>. QED BY <2>1, <2>4, SeqMonotonic
    <2>. HIDE DEF more, k
    <2>6. k \in Nat \ {0}
      BY <2>4
    <2>. QED BY <2>3, <2>4, <2>5, <2>6, Zenon
  <1>10. /\ a \in Requests /\ InOrder(a) /\ a.messages = ms
         /\ a.ids = r.ids /\ a.prompt = r.prompt /\ a.limits = r.limits /\ a.images = r.images
    BY <1>1, <1>7, MessagesAdded
  <1>. HIDE DEF a, more, u, ms, content, whole
  <1>11. /\ Len(r.ids \o more) = n + k /\ n \in Nat /\ k \in Nat
         /\ \A i \in 1 .. n : (r.ids \o more)[i] = r.ids[i]
         /\ \A i \in 1 .. k : (r.ids \o more)[n + i] = more[i]
    <2>1. ASSUME NEW v \in Seq(Words), NEW w \in Seq(Words)
          PROVE  /\ Len(v \o w) = Len(v) + Len(w) /\ Len(v) \in Nat /\ Len(w) \in Nat
                 /\ \A i \in 1 .. Len(v) : (v \o w)[i] = v[i]
                 /\ \A i \in 1 .. Len(w) : (v \o w)[Len(v) + i] = w[i]
      BY WordsConcatenated
    <2>. QED BY <1>1, <1>9, <2>1, Zenon
  <1>12. PICK base : Faithful(base, r.messages, FALSE) /\ r.ids = base \o <<ToAnswer>>
    BY DEF Asked
  <1>13. /\ base \in Seq(Words) /\ n = Len(base) + 1 /\ r.ids[n] = ToAnswer
    <2>1. base \in Seq(Words)
      BY <1>12 DEF Faithful
    <2>. QED BY <1>4, <1>12, <2>1, WithoutLast
  <1>14. \A i \in 1 .. k : more[i] \in Quiet
    BY <1>9, ElementOfSeq
  <1>15. \A t \in 1 .. k : (1 = 1) <=> Learned(r.ids \o more, n + t)
    <2>. SUFFICES ASSUME NEW t \in 1 .. k PROVE Learned(r.ids \o more, n + t)
      OBVIOUS
    <2>1. n \in Nat \ {0} /\ n + t \in Nat /\ n < n + t /\ n \in 1 .. n
      BY <1>1, <1>11
    <2>2. (r.ids \o more)[n] = ToAnswer
      BY <1>11, <1>13, <2>1
    <2>3. ASSUME NEW j \in n + 1 .. n + t PROVE (r.ids \o more)[j] \notin Opens
      <3>1. j - n \in 1 .. k /\ n + (j - n) = j
        BY <1>11
      <3>2. more[j - n] \notin Opens
        BY <1>14, <3>1 DEF Quiet
      <3>. QED BY <1>11, <3>1, <3>2
    <2>. QED BY <2>1, <2>2, <2>3, AnswersAreLearned
  <1>16. /\ u \in Requests /\ InOrder(u) /\ u.messages = ms /\ u.ids = r.ids \o more
         /\ u.prompt = r.prompt /\ u.images = r.images \o <<>>
    <2>1. 1 \in {0, 1} /\ Len(a.ids) = n /\ <<>> \in Seq(Int \X Int)
      BY <1>10
    <2>. HIDE DEF n, k
    <2>2. Len(a.ids) >= 1 /\ a.prompt <= Len(a.ids)
      BY <1>1, <1>10 DEF n
    <2>3. \A t \in 1 .. Len(more) : (1 = 1) <=> Learned(a.ids \o more, Len(a.ids) + t)
      BY <1>10, <1>15, <2>1 DEF k
    <2>. DEFINE none == <<>>
                yes == 1
    <2>4. /\ none \in Seq(Int \X Int) /\ yes \in {0, 1}
          /\ \A t \in 1 .. Len(more) : (yes = 1) <=> Learned(a.ids \o more, Len(a.ids) + t)
      BY <2>1, <2>3
    <2>. HIDE DEF none, yes
    <2>5. Extended(V!UpdateInputIds(a, more, yes, none), a, more, none)
      BY <1>9, <1>10, <2>2, <2>4, Updated
    <2>6. Extended(u, a, more, <<>>)
      BY <2>5 DEF u, none, yes
    <2>. QED BY <1>10, <2>6 DEF Extended
  <1>17. Sound(u) /\ u.prompt <= Len(u.ids) /\ Len(u.ids) = n + k
    <2>1. Len(u.ids) = n + k
      BY <1>11, <1>16
    <2>2. r.images \o <<>> = r.images
      BY <1>1, ConcatEmptySeq
    <2>3. u.images = V!ImagesOf(u.messages)
      BY <1>1, <1>8, <1>16, <2>2
    <2>4. n + k >= 1 /\ r.prompt <= n + k
      BY <1>1, <1>11
    <2>. QED BY <1>16, <2>1, <2>3, <2>4 DEF Sound
  <1>18. u.ids[Len(u.ids)] # ToAnswer
    <2>1. k \in 1 .. k
      BY <1>9
    <2>2. more[k] # ToAnswer
      BY <1>4, <1>14, <2>1 DEF Quiet
    <2>3. u.ids[n + k] = more[k]
      BY <1>11, <1>16, <2>1
    <2>. QED BY <1>17, <2>2, <2>3
  <1>19. Faithful(u.ids, ms, ids = content)
    <2>. DEFINE told == Told(r.messages)
                said == <<ToAnswer>> \o more
    <2>1. told \in Seq(Words) /\ (Len(base) < Len(told) \/ base = told) /\ OnOneLine(told) = OnOneLine(base)
      BY <1>1, <1>12, ToldStarts DEF Faithful
    <2>2. /\ said \in Seq(Words) /\ Len(said) = 1 + k
          /\ whole \in Seq(Words) /\ Len(whole) = 5
      <3>1. Len(<<ToAnswer>>) = 1
        OBVIOUS
      <3>2. said \in Seq(Words) /\ Len(said) = Len(<<ToAnswer>>) + Len(more)
        BY <1>4, <1>9, ConcatProperties
      <3>3. whole \in Seq(Words) /\ Len(whole) = Len(<<ToAnswer>>) + Len(Spoken(m))
        <4>1. whole = <<ToAnswer>> \o Spoken(m)
          BY DEF whole
        <4>2. \A v, w \in Seq(Words) : v \o w \in Seq(Words) /\ Len(v \o w) = Len(v) + Len(w)
          BY ConcatProperties
        <4>. QED BY <1>3, <1>4, <4>1, <4>2
      <3>. QED BY <1>3, <3>1, <3>2, <3>3
    <2>3. Len(said) < Len(whole) \/ said = whole
      <3>1. CASE more = Spoken(m)
        BY <3>1 DEF whole
      <3>2. CASE more = content
        <4>1. k = 2
          BY <1>3, <3>2
        <4>. HIDE DEF said, k
        <4>. QED BY <2>2, <4>1
      <3>3. CASE more = content \o <<V!End>>
        BY <1>5, <2>2, <3>3
      <3>. QED BY <1>9, <3>1, <3>2, <3>3
    <2>4. u.ids = base \o said
      <3>1. \A x, y, z \in Seq(Words) : (x \o y) \o z = x \o (y \o z)
        BY ConcatAssociative
      <3>2. (base \o <<ToAnswer>>) \o more = base \o (<<ToAnswer>> \o more)
        BY <1>4, <1>9, <1>13, <3>1
      <3>. QED BY <1>12, <1>16, <3>2
    <2>5. Told(ms) = told \o whole
      BY <1>7
    <2>. HIDE DEF told, said
    <2>6. /\ Len(base \o said) < Len(told \o whole) \/ base \o said = told \o whole
          /\ OnOneLine(told \o whole) = OnOneLine(base) \o OnOneLine(whole)
          /\ OnOneLine(base \o said) = OnOneLine(base) \o OnOneLine(said)
      BY <1>13, <2>1, <2>2, <2>3, MoreIsFaithful
    <2>. DEFINE lead == OnOneLine(<<ToAnswer>>)
                lines == OnOneLine(content)
    <2>7. lead \in Seq(Words) /\ lines \in Seq(Words) /\ OnOneLine(base) \in Seq(Words)
      BY <1>3, <1>4, <1>13, LineIs
    <2>8. /\ OnOneLine(whole) = lead \o OnOneLine(Spoken(m))
          /\ OnOneLine(said) = lead \o OnOneLine(more)
      <3>1. \A x, y \in Seq(Words) : OnOneLine(x \o y) = OnOneLine(x) \o OnOneLine(y)
        BY LineIs
      <3>. QED BY <1>3, <1>4, <1>9, <3>1 DEF whole, said
    <2>9. /\ OnOneLine(Spoken(m)) = Append(lines, V!End)
          /\ OnOneLine(content \o <<V!End>>) = Append(lines, V!End)
      BY <1>3, EndAndNewline DEF Spoken, content
    <2>10. CASE ids # content
      <3>1. OnOneLine(more) = OnOneLine(Spoken(m))
        BY <1>9, <2>9, <2>10
      <3>2. OnOneLine(Told(ms)) = OnOneLine(u.ids)
        BY <2>4, <2>5, <2>6, <2>8, <3>1
      <3>. QED BY <1>16, <1>17, <2>4, <2>5, <2>6, <2>10, <3>2 DEF Faithful, Sound, Requests
    <2>11. CASE ids = content
      <3>1. more = content
        BY <1>9, <2>11
      <3>2. Append(lines, V!End) = lines \o <<V!End>> /\ <<V!End>> \in Seq(Words)
        BY <1>4, <2>7, AppendIsConcat
      <3>3. \A x, y, z \in Seq(Words) : (x \o y) \o z = x \o (y \o z)
        BY ConcatAssociative
      <3>. HIDE DEF lead, lines
      <3>4. lead \o (lines \o <<V!End>>) = (lead \o lines) \o <<V!End>> /\ lead \o lines \in Seq(Words)
        BY <2>7, <3>2, <3>3, ConcatProperties
      <3>5. OnOneLine(base) \o ((lead \o lines) \o <<V!End>>) = (OnOneLine(base) \o (lead \o lines)) \o <<V!End>>
        BY <2>7, <3>2, <3>3, <3>4
      <3>6. OnOneLine(u.ids) = OnOneLine(base) \o (lead \o lines)
        BY <2>4, <2>6, <2>8, <3>1 DEF lines
      <3>7. OnOneLine(Told(ms)) = OnOneLine(u.ids) \o <<V!End>>
        BY <2>5, <2>6, <2>8, <2>9, <3>2, <3>4, <3>5, <3>6
      <3>8. OnOneLine(u.ids) \o <<V!End>> = Append(OnOneLine(u.ids), V!End)
        <4>1. OnOneLine(u.ids) \in Seq(Words)
          BY <1>17, LineIs DEF Sound, Requests
        <4>. QED BY <1>4, <4>1, AppendIsConcat
      <3>. QED BY <1>16, <1>17, <2>4, <2>5, <2>6, <2>11, <3>7, <3>8 DEF Faithful, Sound, Requests
    <2>. QED BY <2>10, <2>11
  <1>20. Ended(u, ids = content)
    BY <1>16, <1>18, <1>19 DEF Ended
  <1>. QED BY <1>2, <1>17, <1>20 DEF u, a, more, ms, content

-----------------------------------------------------------------------------
\* A request that is not finished.
Unfinished(i) ==
    /\ i.phase \in {"told", "asked", "answered", "last"} /\ i.cut \in BOOLEAN
    /\ i.cut => i.phase = "last"
    /\ Sound(i.talk) /\ i.talk.prompt <= Len(i.talk.ids)
    /\ i.phase = "asked" => Asked(i.talk, i.cut)
    /\ i.phase \in {"answered", "last"} => Ended(i.talk, i.cut)
    /\ i.phase = "told" => Asked(i.talk, i.cut) \/ Ended(i.talk, i.cut)

\* The part of the property that says the four sequences tell the same.
LEMMA OrderIsTrue ==
    ASSUME NEW r, InOrder(r), NEW A, NEW P, r.attention \in Seq(A), r.positions \in Seq(P), Len(r.ids) \in Nat,
           NEW S, r.ids \in Seq(S)
    PROVE  /\ {Len(r.attention), Len(r.positions), Len(r.loss)} = {Len(r.ids)}
           /\ r.positions = V!PositionIds(r.attention)
           /\ \A t \in DOMAIN r.ids : (r.loss[t] = 1) = (t > r.prompt /\ Learned(r.ids, t))
  <1>1. /\ Len(r.attention) = Len(r.ids) /\ Len(r.positions) = Len(r.ids) /\ Len(r.loss) = Len(r.ids)
        /\ \A t \in 1 .. Len(r.ids) : r.attention[t] = 1 /\ r.positions[t] = t - 1
        /\ \A t \in 1 .. Len(r.ids) : (r.loss[t] = 1) = (t > r.prompt /\ Learned(r.ids, t))
    BY Zenon DEF InOrder
  <1>2. V!PositionIds(r.attention) = [i \in 1 .. Len(r.ids) |-> i - 1]
    <2>1. \A i \in 1 .. Len(r.attention) : r.attention[i] = 1
      BY <1>1
    <2>2. V!PositionIds(r.attention) = [i \in 1 .. Len(r.attention) |-> i - 1]
      BY <2>1, PositionsAre
    <2>. QED BY <1>1, <2>2
  <1>3. r.positions = [i \in 1 .. Len(r.ids) |-> i - 1]
    <2>1. r.positions \in [1 .. Len(r.positions) -> P]
      BY LenProperties
    <2>. QED BY <1>1, <2>1
  <1>4. DOMAIN r.ids = 1 .. Len(r.ids)
    BY LenProperties
  <1>. QED BY <1>1, <1>2, <1>3, <1>4

LEMMA AnswerLine ==
    ASSUME NEW s \in Seq(Words)
    PROVE  OnOneLine(s \o <<ToAnswer>>) = OnOneLine(s) \o <<ToAnswer>>
  <1>1. ToAnswer \in Words /\ ToAnswer # V!Newline /\ <<ToAnswer>> \in Seq(Words)
    BY WordFacts, ManyWords
  <1>2. OnOneLine(s \o <<ToAnswer>>) = OnOneLine(s) \o OnOneLine(<<ToAnswer>>)
    BY <1>1, LineIs
  <1>3. OnOneLine(<<ToAnswer>>) = <<ToAnswer>>
    BY <1>1, LineIs
  <1>. QED BY <1>2, <1>3

LEMMA UnfinishedIsTrue ==
    ASSUME NEW i, Unfinished(i) PROVE RequestTrue(i)
  <1>. DEFINE r == i.talk
              whole == OnOneLine(V!ChatTemplate(r.messages, i.phase = "asked"))
              said == IF i.phase = "told" THEN OnOneLine(V!RemoveGenerationPromptIdsIfPresent(r).ids)
                      ELSE OnOneLine(r.ids)
              asked == V!GetGenerationPromptIds(r, TRUE)
  <1>1. /\ r \in Requests /\ InOrder(r) /\ Len(r.ids) >= 1 /\ r.images = V!ImagesOf(r.messages)
        /\ r.ids \in Seq(Words) /\ r.attention \in Seq({0, 1}) /\ r.positions \in Seq(Nat)
        /\ r.messages \in Talk /\ r.generation = <<ToAnswer>> /\ Len(r.ids) \in Nat
    BY LenProperties DEF Unfinished, Sound, Requests
  <1>2. i.phase \in {"told", "asked", "answered", "last"} /\ i.phase # "done"
    BY DEF Unfinished
  <1>3. /\ V!ChatTemplate(r.messages, FALSE) = Told(r.messages)
        /\ V!ChatTemplate(r.messages, TRUE) = Told(r.messages) \o <<ToAnswer>>
        /\ Told(r.messages) \in Seq(Words)
    BY <1>1, TemplateIs
  <1>4. whole = IF i.cut THEN Append(said, V!End) ELSE said
    <2>1. CASE i.phase = "told"
      <3>1. /\ i.cut = FALSE /\ (Asked(r, FALSE) \/ Ended(r, FALSE)) /\ Sound(r)
        BY <2>1 DEF Unfinished
      <3>2. Faithful(V!RemoveGenerationPromptIdsIfPresent(r).ids, r.messages, FALSE)
        BY <3>1, RemovedIs
      <3>3. whole = OnOneLine(Told(r.messages))
        BY <1>3, <2>1
      <3>4. said = OnOneLine(V!RemoveGenerationPromptIdsIfPresent(r).ids)
        BY <2>1
      <3>. QED BY <3>1, <3>2, <3>3, <3>4 DEF Faithful
    <2>2. CASE i.phase = "asked"
      <3>1. i.cut = FALSE /\ Asked(r, FALSE)
        BY <2>2 DEF Unfinished
      <3>2. PICK base : Faithful(base, r.messages, FALSE) /\ r.ids = base \o <<ToAnswer>>
        BY <3>1 DEF Asked
      <3>3. base \in Seq(Words) /\ OnOneLine(Told(r.messages)) = OnOneLine(base)
        BY <3>2 DEF Faithful
      <3>4. whole = OnOneLine(Told(r.messages) \o <<ToAnswer>>)
        BY <1>3, <2>2
      <3>5. said = OnOneLine(base \o <<ToAnswer>>)
        BY <2>2, <3>2
      <3>6. OnOneLine(Told(r.messages) \o <<ToAnswer>>) = OnOneLine(Told(r.messages)) \o <<ToAnswer>>
        BY <1>3, AnswerLine
      <3>7. OnOneLine(base \o <<ToAnswer>>) = OnOneLine(base) \o <<ToAnswer>>
        BY <3>3, AnswerLine
      <3>. QED BY <3>1, <3>3, <3>4, <3>5, <3>6, <3>7
    <2>3. CASE i.phase \in {"answered", "last"}
      <3>1. Ended(r, i.cut) /\ i.phase # "told" /\ i.phase # "asked"
        BY <2>3 DEF Unfinished
      <3>2. whole = OnOneLine(Told(r.messages)) /\ said = OnOneLine(r.ids)
        BY <1>3, <3>1
      <3>. QED BY <3>1, <3>2 DEF Ended, Faithful
    <2>. QED BY <1>2, <2>1, <2>2, <2>3
  <1>5. ASSUME i.phase = "asked" PROVE asked.request = r /\ OnOneLine(asked.prompt) = said
    <2>1. i.cut = FALSE /\ Asked(r, FALSE)
      BY <1>5 DEF Unfinished
    <2>2. PICK base : Faithful(base, r.messages, FALSE) /\ r.ids = base \o <<ToAnswer>>
      BY <2>1 DEF Asked
    <2>3. base \in Seq(Words) /\ ToAnswer \in Words
      BY <2>2, WordFacts DEF Faithful
    <2>4. r.ids[Len(r.ids)] = ToAnswer
      BY <2>2, <2>3, WithoutLast
    <2>5. V!EndsWithGeneration(r)
      BY <1>1, <2>4, EndsIs
    <2>6. asked.request = r /\ asked.prompt = V!ChatTemplate(r.messages, TRUE)
      BY <2>5 DEF V!GetGenerationPromptIds
    <2>7. whole = OnOneLine(V!ChatTemplate(r.messages, TRUE)) /\ whole = said
      BY <1>4, <1>5, <2>1
    <2>. QED BY <2>6, <2>7
  <1>6. /\ {Len(r.attention), Len(r.positions), Len(r.loss)} = {Len(r.ids)}
        /\ r.positions = V!PositionIds(r.attention)
        /\ \A t \in DOMAIN r.ids : (r.loss[t] = 1) = (t > r.prompt /\ Learned(r.ids, t))
    BY <1>1, OrderIsTrue
  <1>. HIDE DEF r, whole, said, asked
  <1>7. IF i.phase = "done" /\ Len(r.ids) = r.limits.model THEN IsPrefix(said, whole)
        ELSE whole = IF i.cut THEN Append(said, V!End) ELSE said
    BY <1>2, <1>4
  <1>. QED BY <1>1, <1>2, <1>5, <1>6, <1>7, Zenon DEF RequestTrue, r, whole, said, asked

-----------------------------------------------------------------------------
\* What is said with few tokens is a beginning of what is said with all of them.
LEMMA LinesBegin ==
    ASSUME NEW s \in Seq(Words), NEW n \in Nat, NEW whole \in Seq(Words),
           NEW more \in Seq(Words), whole = OnOneLine(s) \o more
    PROVE  IsPrefix(OnOneLine(V!Upto(s, n)), whole)
  <1>. DEFINE m == IF n < Len(s) THEN n ELSE Len(s)
              kept == V!Upto(s, n)
              rest == V!From(s, m)
              a == OnOneLine(kept)
              b == OnOneLine(rest)
  <1>1. Len(s) \in Nat /\ m \in Nat /\ m <= Len(s)
    BY LenProperties
  <1>2. /\ kept \in Seq(Words) /\ Len(kept) = m
        /\ \A i \in 1 .. m : kept[i] = s[i]
    <2>1. /\ kept \in Seq(Words) /\ Len(kept) = m /\ \A i \in 1 .. Len(kept) : kept[i] = s[i]
      BY FirstTokens
    <2>. QED BY <2>1
  <1>. HIDE DEF m, kept
  <1>3. /\ rest \in Seq(Words) /\ Len(rest) = Len(s) - m
        /\ \A i \in 1 .. Len(rest) : rest[i] = s[m + i]
    <2>. DEFINE l == m + 1
    <2>1. l \in Int /\ Len(s) \in Int /\ l >= 1
      BY <1>1
    <2>2. \A i \in l .. Len(s) : s[i] \in Words
      <3>1. \A i \in l .. Len(s) : i \in 1 .. Len(s)
        BY <1>1, <2>1
      <3>. QED BY <3>1, ElementOfSeq
    <2>3. rest = SubSeq(s, l, Len(s))
      BY DEF V!From
    <2>. HIDE DEF l
    <2>4. /\ SubSeq(s, l, Len(s)) \in Seq(Words)
          /\ Len(SubSeq(s, l, Len(s))) = IF l <= Len(s) THEN Len(s) - l + 1 ELSE 0
          /\ \A i \in 1 .. Len(s) - l + 1 : SubSeq(s, l, Len(s))[i] = s[l + i - 1]
      BY <2>1, <2>2, SubSeqProperties
    <2>5. rest \in Seq(Words) /\ Len(rest) = Len(s) - m
      BY <1>1, <2>3, <2>4 DEF l
    <2>6. ASSUME NEW i \in 1 .. Len(rest) PROVE rest[i] = s[m + i]
      <3>1. i \in 1 .. Len(s) - l + 1 /\ l + i - 1 = m + i
        BY <1>1, <2>5 DEF l
      <3>. QED BY <2>3, <2>4, <3>1
    <2>. QED BY <2>5, <2>6
  <1>. HIDE DEF rest
  <1>4. s = kept \o rest
    <2>1. /\ kept \o rest \in Seq(Words) /\ Len(kept \o rest) = Len(kept) + Len(rest)
          /\ \A i \in 1 .. Len(kept) : (kept \o rest)[i] = kept[i]
          /\ \A i \in 1 .. Len(rest) : (kept \o rest)[Len(kept) + i] = rest[i]
      BY <1>2, <1>3, WordsConcatenated, Zenon
    <2>2. Len(s) = Len(kept \o rest)
      BY <1>1, <1>2, <1>3, <2>1
    <2>3. ASSUME NEW i \in 1 .. Len(s) PROVE s[i] = (kept \o rest)[i]
      <3>1. CASE i <= m
        <4>1. i \in 1 .. Len(kept) /\ i \in 1 .. m
          BY <1>1, <1>2, <3>1
        <4>. QED BY <1>2, <2>1, <4>1
      <3>2. CASE ~ i <= m
        <4>. DEFINE k == i - m
        <4>1. k \in 1 .. Len(rest) /\ i = m + k
          BY <1>1, <1>3, <3>2
        <4>. HIDE DEF k
        <4>. QED BY <1>2, <1>3, <2>1, <4>1
      <3>. QED BY <3>1, <3>2
    <2>. QED BY <2>1, <2>2, <2>3, SeqEqual
  <1>5. OnOneLine(s) = a \o b /\ a \in Seq(Words) /\ b \in Seq(Words)
    BY <1>2, <1>3, <1>4, LineIs
  <1>. HIDE DEF a, b
  <1>6. whole = a \o (b \o more) /\ b \o more \in Seq(Words)
    <2>1. b \o more \in Seq(Words)
      BY <1>5, WordsConcatenated, Zenon
    <2>2. (a \o b) \o more = a \o (b \o more)
      BY <1>5, WordsAssociate, Zenon
    <2>. QED BY <1>5, <2>1, <2>2
  <1>. DEFINE tail == b \o more
              w == a \o tail
  <1>. HIDE DEF tail
  <1>7. /\ w \in Seq(Words) /\ Len(w) = Len(a) + Len(tail) /\ Len(a) \in Nat /\ Len(tail) \in Nat
        /\ \A i \in 1 .. Len(a) : w[i] = a[i]
    BY <1>5, <1>6, WordsConcatenated, Zenon DEF tail, w
  <1>. HIDE DEF w
  <1>8. SubSeq(a, 1, Len(a)) = SubSeq(w, 1, Len(a))
    <2>. DEFINE l == Len(a)
    <2>1. l \in Nat /\ l <= Len(w) /\ l \in Int /\ 1 \in Int
      BY <1>7
    <2>. HIDE DEF l
    <2>2. \A i \in 1 .. l : i \in 1 .. Len(w) /\ i \in 1 .. Len(a)
      BY <1>7, <2>1 DEF l
    <2>3. \A i \in 1 .. l : a[i] \in Words /\ w[i] \in Words
      BY <1>5, <1>7, <2>2, ElementOfSeq
    <2>4. /\ SubSeq(a, 1, l) \in Seq(Words) /\ Len(SubSeq(a, 1, l)) = IF 1 <= l THEN l - 1 + 1 ELSE 0
          /\ \A i \in 1 .. l - 1 + 1 : SubSeq(a, 1, l)[i] = a[1 + i - 1]
      BY <2>1, <2>3, SubSeqProperties
    <2>5. /\ SubSeq(w, 1, l) \in Seq(Words) /\ Len(SubSeq(w, 1, l)) = IF 1 <= l THEN l - 1 + 1 ELSE 0
          /\ \A i \in 1 .. l - 1 + 1 : SubSeq(w, 1, l)[i] = w[1 + i - 1]
      BY <2>1, <2>3, SubSeqProperties
    <2>6. Len(SubSeq(a, 1, l)) = l /\ Len(SubSeq(w, 1, l)) = l
      BY <2>1, <2>4, <2>5
    <2>7. ASSUME NEW i \in 1 .. l PROVE SubSeq(a, 1, l)[i] = SubSeq(w, 1, l)[i]
      <3>1. i \in 1 .. l - 1 + 1 /\ 1 + i - 1 = i
        BY <2>1
      <3>2. a[i] = w[i]
        BY <1>7 DEF l
      <3>. QED BY <2>4, <2>5, <3>1, <3>2
    <2>8. SubSeq(a, 1, l) = SubSeq(w, 1, l)
      BY <2>4, <2>5, <2>6, <2>7, SeqEqual
    <2>. QED BY <2>8 DEF l
  <1>9. Len(a) <= Len(w)
    BY <1>7
  <1>10. IsPrefix(a, w)
    BY <1>8, <1>9 DEF IsPrefix
  <1>. QED BY <1>6, <1>10 DEF a, w, tail, kept

\* A finished request.
LEMMA CompletedIs ==
    ASSUME NEW b \in Requests, InOrder(b)
    PROVE  LET c == [b EXCEPT !.state = "completed"]
           IN  /\ c \in Requests /\ InOrder(c) /\ c.ids = b.ids /\ c.messages = b.messages
               /\ c.prompt = b.prompt /\ c.limits = b.limits /\ c.images = b.images
  BY DEF Requests, InOrder

\* A finished request: the tokens without the mark for an answer, those of them that
\* the model can read, and what the trainer gets.
FinishedAs(f, r, cut, base, kept) ==
    /\ Faithful(base, r.messages, cut)
    /\ kept \in Requests /\ InOrder(kept) /\ kept.ids = V!Upto(base, r.limits.model)
    /\ kept.messages = r.messages /\ kept.prompt = r.prompt /\ kept.limits = r.limits
    /\ kept.images = r.images
    /\ f.messages = kept.messages /\ f.ids = kept.ids /\ f.attention = kept.attention
    /\ f.positions = kept.positions /\ f.loss = kept.loss /\ f.images = kept.images
    /\ f.prompt = kept.prompt /\ f.limits = kept.limits
    /\ f.response.ids = V!Upto(V!From(kept.ids, r.prompt), r.limits.response)
    /\ f.response.loss = V!Upto(V!From(kept.loss, r.prompt), r.limits.response)
    /\ f.response.positions = V!Upto(V!From(kept.positions, r.prompt), r.limits.response)

LEMMA FinalizedIs ==
    ASSUME NEW r, NEW reason \in {"stop", "length"}, NEW cut, Sound(r), Asked(r, cut) \/ Ended(r, cut)
    PROVE  \E base, kept : FinishedAs(V!Finalize(r, reason), r, cut, base, kept)
  <1>. DEFINE b == V!RemoveGenerationPromptIdsIfPresent(r)
              c == [b EXCEPT !.state = "completed"]
              kept == V!CutTo(c, c.limits.model)
              f == V!Finalize(r, reason)
  <1>1. /\ b \in Requests /\ InOrder(b) /\ Faithful(b.ids, r.messages, cut)
        /\ b.messages = r.messages /\ b.prompt = r.prompt /\ b.limits = r.limits
        /\ b.images = r.images
    BY RemovedIs
  <1>2. f = V!TruncateOutputIds(c)
    BY Zenon DEF V!Finalize
  <1>. HIDE DEF b
  <1>3. /\ c \in Requests /\ InOrder(c) /\ c.ids = b.ids /\ c.messages = b.messages
        /\ c.prompt = b.prompt /\ c.limits = b.limits /\ c.images = b.images
    BY <1>1, CompletedIs
  <1>. HIDE DEF c
  <1>4. c.limits.model \in Nat
    BY <1>3 DEF Requests
  <1>5. /\ kept \in Requests /\ InOrder(kept) /\ kept.ids = V!Upto(c.ids, c.limits.model)
        /\ kept.messages = c.messages /\ kept.prompt = c.prompt /\ kept.limits = c.limits
        /\ kept.images = c.images
    BY <1>3, <1>4, CutIs
  <1>. DEFINE Response(s) == V!Upto(V!From(s, c.prompt), c.limits.response)
  <1>6. f = [kept EXCEPT !.response = [ids |-> Response(kept.ids), attention |-> Response(kept.attention),
                                       positions |-> Response(kept.positions), loss |-> Response(kept.loss)]]
    BY <1>2, Zenon DEF V!TruncateOutputIds
  <1>. HIDE DEF kept, f
  <1>7. /\ f.messages = kept.messages /\ f.ids = kept.ids /\ f.attention = kept.attention
        /\ f.positions = kept.positions /\ f.loss = kept.loss /\ f.images = kept.images
        /\ f.prompt = kept.prompt /\ f.limits = kept.limits
        /\ f.response.ids = Response(kept.ids) /\ f.response.loss = Response(kept.loss)
        /\ f.response.positions = Response(kept.positions)
    <2>. HIDE DEF Response
    <2>. QED BY <1>5, <1>6 DEF Requests
  <1>8. c.prompt = r.prompt /\ c.limits = r.limits /\ c.messages = r.messages /\ c.images = r.images /\ c.ids = b.ids
    BY <1>1, <1>3
  <1>9. /\ f.response.ids = V!Upto(V!From(kept.ids, r.prompt), r.limits.response)
        /\ f.response.loss = V!Upto(V!From(kept.loss, r.prompt), r.limits.response)
        /\ f.response.positions = V!Upto(V!From(kept.positions, r.prompt), r.limits.response)
    BY <1>7, <1>8
  <1>10. /\ kept.ids = V!Upto(b.ids, r.limits.model)
         /\ kept.messages = r.messages /\ kept.prompt = r.prompt /\ kept.limits = r.limits
         /\ kept.images = r.images
    BY <1>5, <1>8
  <1>. HIDE DEF Response
  <1>11. FinishedAs(f, r, cut, b.ids, kept)
    BY <1>1, <1>5, <1>7, <1>9, <1>10, Zenon DEF FinishedAs
  <1>. QED BY <1>11 DEF f

LEMMA FinishedIsTrue ==
    ASSUME NEW i, Unfinished(i), NEW reason \in {"stop", "length"}
    PROVE  RequestTrue([phase |-> "done", cut |-> i.cut, talk |-> V!Finalize(i.talk, reason)])
  <1>. DEFINE r == i.talk
              f == V!Finalize(r, reason)
              d == [phase |-> "done", cut |-> i.cut, talk |-> f]
              model == r.limits.model
              most == r.limits.response
              told == Told(r.messages)
              n == Len(f.response.ids)
  <1>1. /\ r \in Requests /\ InOrder(r) /\ Len(r.ids) >= 1 /\ r.images = V!ImagesOf(r.messages)
        /\ r.messages \in Talk /\ model \in Nat /\ most \in Nat /\ r.prompt \in Nat /\ Sound(r)
    BY DEF Unfinished, Sound, Requests
  <1>2. (Asked(r, i.cut) \/ Ended(r, i.cut)) /\ i.cut \in BOOLEAN
    BY Zenon DEF Unfinished
  <1>a. PICK base, kept : FinishedAs(f, r, i.cut, base, kept)
    BY <1>1, <1>2, FinalizedIs, Zenon
  <1>. HIDE DEF f
  <1>3. /\ Faithful(base, r.messages, i.cut)
        /\ kept \in Requests /\ InOrder(kept) /\ kept.ids = V!Upto(base, r.limits.model)
        /\ kept.messages = r.messages /\ kept.prompt = r.prompt /\ kept.limits = r.limits
        /\ kept.images = r.images
        /\ f.messages = kept.messages /\ f.ids = kept.ids /\ f.attention = kept.attention
        /\ f.positions = kept.positions /\ f.loss = kept.loss /\ f.images = kept.images
        /\ f.prompt = kept.prompt /\ f.limits = kept.limits
        /\ f.response.ids = V!Upto(V!From(kept.ids, r.prompt), r.limits.response)
        /\ f.response.loss = V!Upto(V!From(kept.loss, r.prompt), r.limits.response)
        /\ f.response.positions = V!Upto(V!From(kept.positions, r.prompt), r.limits.response)
    BY <1>a, Zenon DEF FinishedAs
  <1>4. /\ kept.ids \in Seq(Words) /\ kept.attention \in Seq({0, 1}) /\ kept.positions \in Seq(Nat)
        /\ kept.loss \in Seq({0, 1}) /\ Len(kept.ids) \in Nat
    BY <1>3, LenProperties DEF Requests
  <1>5. /\ V!ChatTemplate(r.messages, FALSE) = told /\ told \in Seq(Words) /\ Len(told) \in Nat
    BY <1>1, TemplateIs, LenProperties
  <1>6. /\ base \in Seq(Words) /\ Len(base) \in Nat /\ (Len(base) < Len(told) \/ base = told)
        /\ OnOneLine(told) = IF i.cut THEN Append(OnOneLine(base), V!End) ELSE OnOneLine(base)
    BY <1>3, LenProperties DEF Faithful
  <1>. HIDE DEF f, told, model, most
  <1>7. /\ f.ids = V!Upto(base, model)
        /\ Len(f.ids) = IF model < Len(base) THEN model ELSE Len(base)
    <2>1. Len(V!Upto(base, model)) = IF model < Len(base) THEN model ELSE Len(base)
      BY <1>1, <1>6, FirstTokens
    <2>. QED BY <1>3, <2>1 DEF model
  <1>8. ~ model < Len(base) => f.ids = base
    <2>1. SubSeq(base, 1, Len(base)) = base
      BY <1>6, SubSeqFull
    <2>2. ~ model < Len(base) => V!Upto(base, model) = base
      BY <2>1 DEF V!Upto
    <2>. QED BY <1>7, <2>2
  <1>9. /\ {Len(f.attention), Len(f.positions), Len(f.loss)} = {Len(f.ids)}
        /\ f.positions = V!PositionIds(f.attention)
        /\ \A t \in DOMAIN f.ids : (f.loss[t] = 1) = (t > f.prompt /\ Learned(f.ids, t))
    <2>1. /\ {Len(kept.attention), Len(kept.positions), Len(kept.loss)} = {Len(kept.ids)}
          /\ kept.positions = V!PositionIds(kept.attention)
          /\ \A t \in DOMAIN kept.ids : (kept.loss[t] = 1) = (t > kept.prompt /\ Learned(kept.ids, t))
      BY <1>3, <1>4, OrderIsTrue
    <2>2. /\ f.ids = kept.ids /\ f.attention = kept.attention
          /\ f.positions = kept.positions /\ f.loss = kept.loss /\ f.prompt = kept.prompt
      BY <1>3, Zenon
    <2>. QED BY <2>1, <2>2
  <1>10. f.messages = r.messages /\ f.prompt = r.prompt /\ f.limits = r.limits /\ f.images = r.images
    BY <1>3, Zenon
  <1>11. IF Len(f.ids) = model THEN IsPrefix(OnOneLine(f.ids), OnOneLine(told))
         ELSE OnOneLine(told) = IF i.cut THEN Append(OnOneLine(f.ids), V!End) ELSE OnOneLine(f.ids)
    <2>1. CASE Len(f.ids) = model
      <3>. DEFINE more == IF i.cut THEN <<V!End>> ELSE <<>>
      <3>1. V!End \in Words /\ OnOneLine(base) \in Seq(Words) /\ OnOneLine(told) \in Seq(Words)
        BY <1>5, <1>6, WordFacts, LineIs
      <3>2. more \in Seq(Words)
        BY <3>1
      <3>3. OnOneLine(told) = OnOneLine(base) \o more
        <4>1. CASE i.cut
          BY <1>6, <3>1, <4>1, AppendIsConcat
        <4>2. CASE ~ i.cut
          <5>1. OnOneLine(base) \o <<>> = OnOneLine(base)
            BY <3>1, ConcatEmptySeq
          <5>. QED BY <1>6, <4>2, <5>1
        <4>. QED BY <4>1, <4>2
      <3>. HIDE DEF more
      <3>4. model \in Nat
        BY <1>1 DEF model
      <3>5. IsPrefix(OnOneLine(V!Upto(base, model)), OnOneLine(told))
        BY <1>6, <3>1, <3>2, <3>3, <3>4, LinesBegin
      <3>. QED BY <1>7, <2>1, <3>5
    <2>2. CASE Len(f.ids) # model
      <3>1. f.ids = base
        BY <1>7, <1>8, <2>2
      <3>. QED BY <1>6, <2>2, <3>1
    <2>. QED BY <2>1, <2>2
  <1>12. /\ told # f.ids => Len(f.ids) < Len(told)
         /\ Len(f.ids) <= model
    <2>1. model \in Nat
      BY <1>1 DEF model
    <2>2. CASE model < Len(base)
      BY <1>5, <1>6, <1>7, <2>1, <2>2
    <2>3. CASE ~ model < Len(base)
      BY <1>5, <1>6, <1>7, <1>8, <2>1, <2>3
    <2>. QED BY <2>2, <2>3
  <1>13. /\ n <= most
         /\ n = most \/ f.prompt + n >= Len(f.ids)
         /\ \A t \in 1 .. n : /\ f.response.ids[t] = f.ids[f.prompt + t]
                              /\ f.response.loss[t] = f.loss[f.prompt + t]
                              /\ f.response.positions[t] = f.prompt + t - 1
    <2>1. r.prompt \in Nat /\ r.limits.response \in Nat
      BY <1>1 DEF most
    <2>2. Len(kept.loss) = Len(kept.ids) /\ Len(kept.positions) = Len(kept.ids)
          /\ \A t \in 1 .. Len(kept.ids) : kept.positions[t] = t - 1
      BY <1>3 DEF InOrder
    <2>. DEFINE p == r.prompt
                l == r.limits.response
                First(s) == V!Upto(V!From(s, p), l)
                h == IF p < Len(kept.ids) THEN (IF l < Len(kept.ids) - p THEN l ELSE Len(kept.ids) - p) ELSE 0
    <2>. HIDE DEF p, l
    <2>a. p \in Nat /\ l \in Nat
      BY <2>1 DEF p, l
    <2>b. ASSUME NEW A, NEW s \in Seq(A), Len(s) = Len(kept.ids)
          PROVE  /\ Len(First(s)) = h
                 /\ \A t \in 1 .. h : p + t \in 1 .. Len(s) /\ First(s)[t] = s[p + t]
      <3>1. /\ Len(V!Upto(V!From(s, p), l))
                    = IF p < Len(s) THEN (IF l < Len(s) - p THEN l ELSE Len(s) - p) ELSE 0
            /\ \A t \in 1 .. Len(V!Upto(V!From(s, p), l)) :
                    p + t \in 1 .. Len(s) /\ V!Upto(V!From(s, p), l)[t] = s[p + t]
        BY <2>a, AfterPrompt
      <3>2. Len(V!Upto(V!From(s, p), l)) = h
        BY <2>b, <3>1
      <3>. HIDE DEF h
      <3>. QED BY <3>1, <3>2
    <2>c. h \in Nat /\ h <= l /\ (h = l \/ p + h >= Len(kept.ids))
      BY <1>4, <2>a
    <2>d. Len(kept.ids) = Len(kept.ids)
      OBVIOUS
    <2>. HIDE DEF First, h
    <2>3. /\ Len(First(kept.ids)) = h
          /\ \A t \in 1 .. h : p + t \in 1 .. Len(kept.ids) /\ First(kept.ids)[t] = kept.ids[p + t]
      BY <1>4, <2>b, <2>d, Zenon
    <2>4. /\ Len(First(kept.loss)) = h
          /\ \A t \in 1 .. h : First(kept.loss)[t] = kept.loss[p + t]
      BY <1>4, <2>2, <2>b, Zenon
    <2>5. /\ Len(First(kept.positions)) = h
          /\ \A t \in 1 .. h : First(kept.positions)[t] = kept.positions[p + t]
      BY <1>4, <2>2, <2>b, Zenon
    <2>6. /\ f.response.ids = First(kept.ids) /\ f.response.loss = First(kept.loss)
          /\ f.response.positions = First(kept.positions)
          /\ f.ids = kept.ids /\ f.loss = kept.loss
      BY <1>3, Zenon DEF First, p, l
    <2>7. n = h
      BY <2>3, <2>6
    <2>8. ASSUME NEW t \in 1 .. n
          PROVE  /\ f.response.ids[t] = f.ids[f.prompt + t]
                 /\ f.response.loss[t] = f.loss[f.prompt + t]
                 /\ f.response.positions[t] = f.prompt + t - 1
      <3>1. t \in 1 .. h /\ p + t \in 1 .. Len(kept.ids) /\ f.prompt = p
        BY <1>10, <2>3, <2>7 DEF p
      <3>2. kept.positions[p + t] = p + t - 1
        <4>. DEFINE q == p + t
        <4>1. q \in 1 .. Len(kept.ids)
          BY <3>1
        <4>. HIDE DEF q
        <4>2. kept.positions[q] = q - 1
          BY <2>2, <4>1, Zenon
        <4>3. (p + t) - 1 = p + t - 1
          BY <2>a, <2>c, <3>1
        <4>. QED BY <4>2, <4>3 DEF q
      <3>. QED BY <2>3, <2>4, <2>5, <2>6, <3>1, <3>2
    <2>9. f.prompt = p /\ most = l
      BY <1>10 DEF most, p, l
    <2>. QED BY <2>c, <2>6, <2>7, <2>8, <2>9
  <1>14. d.phase = "done" /\ d.cut = i.cut /\ d.talk = f
    OBVIOUS
  <1>15. d.phase # "asked" /\ d.phase # "told"
    BY <1>14
  <1>. HIDE DEF d, n, r
  <1>16. V!TokenizationDiffers(f) => Len(f.ids) < Len(V!ChatTemplate(f.messages, FALSE))
    BY <1>5, <1>10, <1>12 DEF V!TokenizationDiffers
  <1>17. f.images = V!ImagesOf(f.messages)
    BY <1>1, <1>10
  <1>18. f.limits.model = model /\ f.limits.response = most
    BY <1>10 DEF model, most
  <1>19. V!ChatTemplate(f.messages, d.phase = "asked") = told
    BY <1>5, <1>10, <1>15
  <1>20. RequestTrue(d)
    <2>. DEFINE whole == OnOneLine(V!ChatTemplate(f.messages, d.phase = "asked"))
                said == IF d.phase = "told" THEN OnOneLine(V!RemoveGenerationPromptIdsIfPresent(f).ids)
                        ELSE OnOneLine(f.ids)
    <2>1. said = OnOneLine(f.ids) /\ whole = OnOneLine(told)
      BY <1>15, <1>19
    <2>. HIDE DEF whole, said
    <2>2. IF d.phase = "done" /\ Len(f.ids) = f.limits.model THEN IsPrefix(said, whole)
          ELSE whole = IF d.cut THEN Append(said, V!End) ELSE said
      BY <1>11, <1>14, <1>18, <2>1
    <2>3. /\ Len(f.ids) <= f.limits.model /\ n <= f.limits.response
          /\ n = f.limits.response \/ f.prompt + n >= Len(f.ids)
      BY <1>12, <1>13, <1>18
    <2>. QED BY <1>9, <1>13, <1>14, <1>15, <1>16, <1>17, <2>2, <2>3, Zenon DEF RequestTrue, whole, said, n
  <1>. QED BY <1>20 DEF d, f, r

-----------------------------------------------------------------------------
\* What the user, or a tool that has something to say, adds.
LEMMA UserIs ==
    ASSUME NEW r, Sound(r), r.prompt <= Len(r.ids), Ended(r, FALSE),
           NEW m \in Messages, m.role = "user", m.images = 0
    PROVE  LET u == V!AddUserMessage(r, m)
           IN  Sound(u) /\ u.prompt <= Len(u.ids) /\ Ended(u, FALSE)
  <1>. DEFINE ms == <<m>>
              v == V!UpdateInputIds([r EXCEPT !.messages = r.messages \o ms], FlatMap(Rendered, ms), 0, V!ImagesOf(ms))
  <1>1. ms \in Talk /\ \A i \in 1 .. Len(ms) : ms[i].role # "assistant"
    <2>1. ms \in Seq(Messages) /\ Len(ms) = 1 /\ ms[1] = m /\ ms # <<>>
      OBVIOUS
    <2>. QED BY <2>1 DEF Talk
  <1>2. Append(r.messages, m) = r.messages \o ms
    <2>1. r.messages \in Seq(Messages)
      BY DEF Sound, Requests, Talk
    <2>. QED BY <2>1, AppendIsConcat
  <1>3. V!ContentIds(<<m>>, V!BaseConvWoGenPromptEndPos) = FlatMap(Rendered, ms)
    BY <1>1, ContentIdsAre DEF Talk
  <1>4. V!ImagesOf(ms) = <<>>
    BY ImagesAre
  <1>5. V!AddUserMessage(r, m) = v
    <2>. HIDE DEF ms
    <2>1. V!AddUserMessage(r, m) = V!UpdateInputIds([r EXCEPT !.messages = Append(r.messages, m)],
                    V!ContentIds(<<m>>, V!BaseConvWoGenPromptEndPos), 0, <<>>)
      BY Zenon DEF V!AddUserMessage
    <2>. QED BY <1>2, <1>3, <1>4, <2>1
  <1>. HIDE DEF ms
  <1>6. Sound(v) /\ v.prompt <= Len(v.ids) /\ Ended(v, FALSE)
    BY <1>1, RepliesAre
  <1>. QED BY <1>5, <1>6

LEMMA ToolsAre ==
    ASSUME NEW r, Sound(r), r.prompt <= Len(r.ids), Ended(r, FALSE),
           NEW ms \in Talk, \A i \in 1 .. Len(ms) : ms[i].role # "assistant"
    PROVE  LET u == V!AddToolResponseMessages(r, ms)
           IN  Sound(u) /\ u.prompt <= Len(u.ids) /\ Ended(u, FALSE)
  <1>. DEFINE u == V!AddToolResponseMessages(r, ms)
              a == [r EXCEPT !.messages = r.messages \o ms]
              v == V!UpdateInputIds(a, FlatMap(Rendered, ms), 0, V!ImagesOf(ms))
              silent == \A i \in DOMAIN ms : V!IsEmpty(ms[i])
  <1>1. u = IF silent THEN r
            ELSE V!UpdateInputIds(V!RemoveGenerationPromptIdsIfPresent(a),
                                  V!ContentIds(ms, V!BaseConvWoGenPromptEndPos), 0, V!ImagesOf(ms))
    BY Zenon DEF V!AddToolResponseMessages
  <1>2. CASE silent
    <2>1. u = r
      BY <1>1, <1>2
    <2>. QED BY <2>1
  <1>3. CASE ~ silent
    <2>1. r \in Requests /\ InOrder(r) /\ Len(r.ids) >= 1 /\ r.messages \in Talk /\ ms \in Seq(Messages)
      BY DEF Sound, Requests, Talk
    <2>2. r.messages \o ms \in Talk
      BY <2>1, ToldGrows
    <2>3. a \in Requests /\ a.ids = r.ids
      BY <2>1, <2>2, MessagesAdded
    <2>. HIDE DEF a, silent
    <2>4. V!RemoveGenerationPromptIdsIfPresent(a) = a
      <3>1. a.ids[Len(a.ids)] # ToAnswer /\ Len(a.ids) >= 1
        BY <2>1, <2>3 DEF Ended
      <3>2. ~ V!EndsWithGeneration(a)
        BY <2>3, <3>1, EndsIs
      <3>. QED BY <3>2 DEF V!RemoveGenerationPromptIdsIfPresent
    <2>5. V!ContentIds(ms, V!BaseConvWoGenPromptEndPos) = FlatMap(Rendered, ms)
      BY <2>1, ContentIdsAre
    <2>6. u = v
      BY <1>1, <1>3, <2>4, <2>5
    <2>7. Sound(v) /\ v.prompt <= Len(v.ids) /\ Ended(v, FALSE)
      BY RepliesAre DEF a
    <2>. QED BY <2>6, <2>7
  <1>. QED BY <1>2, <1>3

-----------------------------------------------------------------------------
(***************************************************************************)
(* Samples of conversations of several turns (MultiTurnSFTDataset).        *)
(***************************************************************************)
LEMMA UptoIs ==
    ASSUME NEW S, NEW s \in Seq(S), NEW t \in Seq(S)
    PROVE  V!Upto(s \o t, Len(s)) = s
  <1>. DEFINE st == s \o t
  <1>1. /\ st \in Seq(S) /\ Len(st) = Len(s) + Len(t) /\ Len(s) \in Nat /\ Len(t) \in Nat
        /\ \A i \in 1 .. Len(s) : st[i] = s[i]
    BY Concatenated
  <1>. HIDE DEF st
  <1>2. /\ V!Upto(st, Len(s)) \in Seq(S)
        /\ Len(V!Upto(st, Len(s))) = IF Len(s) < Len(st) THEN Len(s) ELSE Len(st)
        /\ \A i \in 1 .. Len(V!Upto(st, Len(s))) : V!Upto(st, Len(s))[i] = st[i]
    BY <1>1, FirstTokens
  <1>3. Len(V!Upto(st, Len(s))) = Len(s)
    BY <1>1, <1>2
  <1>4. \A i \in 1 .. Len(s) : V!Upto(st, Len(s))[i] = s[i]
    BY <1>1, <1>2, <1>3
  <1>5. V!Upto(st, Len(s)) = s
    BY <1>2, <1>3, <1>4, SeqEqual
  <1>. QED BY <1>5 DEF st

\* What the dataset finds that the template adds, from messages without text.
LEMMA SystemPromptIs ==
    /\ V!SystemPromptAndGeneration.system = V!SystemPrompt
    /\ V!SystemPromptAndGeneration.generation = <<ToAnswer>>
  <1>. DEFINE e == V!Empty
              one == Told(<<e>>)
              two == Told(<<e, e>>)
  <1>1. e \in Messages /\ e.role = "user" /\ e.images = 0 /\ e.text = 0
    BY DEF V!Empty, V!Message, Messages, Roles
  <1>. HIDE DEF e
  <1>2. <<e>> \in Talk /\ <<e, e>> \in Talk /\ <<e>> \in Seq(Messages) /\ <<e>>[1] = e
    BY <1>1 DEF Talk
  <1>3. /\ V!ChatTemplate(<<e>>, FALSE) = one /\ V!ChatTemplate(<<e>>, TRUE) = one \o <<ToAnswer>>
        /\ V!ChatTemplate(<<e, e>>, FALSE) = two /\ one \in Seq(Words)
    BY <1>2, TemplateIs
  <1>4. Rendered[e] \in Seq(Words) /\ Len(Rendered[e]) = 3
    <2>1. Rendered[e] \in Seq(Words) /\ Len(Rendered[e]) = e.images + e.text + 3
      BY <1>1, RenderedIs
    <2>. QED BY <1>1, <2>1
  <1>5. one = V!SystemPrompt \o Rendered[e]
    <2>1. FlatMap(Rendered, <<e>>) = Rendered[e]
      BY <1>1, FlatRendered
    <2>. QED BY <1>1, <1>2, <2>1 DEF Told
  <1>6. two = one \o Rendered[e]
    <2>1. Told(<<e>> \o <<e>>) = Told(<<e>>) \o FlatMap(Rendered, <<e>>)
      BY <1>2, ToldGrows
    <2>2. FlatMap(Rendered, <<e>>) = Rendered[e]
      BY <1>1, FlatRendered
    <2>3. <<e>> \o <<e>> = <<e, e>>
      BY <1>1, OneAfterAnother
    <2>. QED BY <2>1, <2>2, <2>3
  <1>. HIDE DEF one, two
  <1>7. V!SystemPrompt \in Seq(Words) /\ Len(V!SystemPrompt) = 4
    BY ManyWords
  <1>8. Len(one) = 7 /\ Len(two) = 10
    <2>1. Len(one) = Len(V!SystemPrompt) + Len(Rendered[e])
      BY <1>4, <1>5, <1>7, ConcatProperties
    <2>2. Len(two) = Len(one) + Len(Rendered[e])
      <3>1. \A u, v \in Seq(Words) : Len(u \o v) = Len(u) + Len(v)
        BY WordsConcatenated
      <3>. QED BY <1>3, <1>4, <1>6, <3>1, Zenon
    <2>. QED BY <1>4, <1>7, <2>1, <2>2
  <1>9. V!InitializeSystemPrompt = V!Upto(one, Len(one) - (Len(two) - Len(one)))
    BY <1>3, Zenon DEF V!InitializeSystemPrompt, e
  <1>10. Len(one) - (Len(two) - Len(one)) = Len(V!SystemPrompt)
    BY <1>7, <1>8
  <1>11. V!InitializeSystemPrompt = V!SystemPrompt
    <2>1. V!Upto(V!SystemPrompt \o Rendered[e], Len(V!SystemPrompt)) = V!SystemPrompt
      BY <1>4, <1>7, UptoIs
    <2>. QED BY <1>5, <1>9, <1>10, <2>1
  <1>12. V!From(V!ChatTemplate(<<e>>, TRUE), Len(V!ChatTemplate(<<e>>, FALSE))) = <<ToAnswer>>
    <2>1. V!From(one \o <<ToAnswer>>, Len(one)) = <<ToAnswer>>
      BY <1>3, ManyWords, FromIs
    <2>. QED BY <1>3, <2>1
  <1>. QED BY <1>11, <1>12, Zenon DEF V!SystemPromptAndGeneration, e

\* What the template puts before a conversation.
Opening(ms) == IF ms[1].role = "system" THEN <<>> ELSE V!SystemPrompt
\* Which of the tokens of a message are learned.
Trained == [m \in Messages |->
    [t \in 1 .. m.images + m.text + 3 |-> IF m.role = "assistant" /\ t > 1 THEN 1 ELSE 0]]

LEMMA TrainedIs ==
    /\ Trained \in [Messages -> Seq({0, 1})]
    /\ \A m \in Messages :
          /\ Len(Trained[m]) = m.images + m.text + 3 /\ Len(Trained[m]) = Len(Rendered[m])
          /\ \A t \in 1 .. Len(Trained[m]) :
                Trained[m][t] = IF m.role = "assistant" /\ t > 1 THEN 1 ELSE 0
  <1>1. ASSUME NEW m \in Messages
        PROVE  /\ Trained[m] \in Seq({0, 1})
               /\ Len(Trained[m]) = m.images + m.text + 3 /\ Len(Trained[m]) = Len(Rendered[m])
               /\ \A t \in 1 .. Len(Trained[m]) :
                     Trained[m][t] = IF m.role = "assistant" /\ t > 1 THEN 1 ELSE 0
    <2>. DEFINE n == m.images + m.text + 3
                f == [t \in 1 .. n |-> IF m.role = "assistant" /\ t > 1 THEN 1 ELSE 0]
    <2>1. n \in Nat
      BY DEF Messages
    <2>2. Trained[m] = f
      BY DEF Trained
    <2>3. Len(Rendered[m]) = n
      BY RenderedIs
    <2>. HIDE DEF n
    <2>4. f \in [1 .. n -> {0, 1}] /\ \A t \in 1 .. n : f[t] = IF m.role = "assistant" /\ t > 1 THEN 1 ELSE 0
      OBVIOUS
    <2>. HIDE DEF f
    <2>5. f \in Seq({0, 1}) /\ Len(f) = n
      BY <2>1, <2>4, LengthOfFunction
    <2>. QED BY <2>2, <2>3, <2>4, <2>5 DEF n
  <1>2. Trained \in [Messages -> Seq({0, 1})]
    <2>1. DOMAIN Trained = Messages /\ Trained = [m \in Messages |-> Trained[m]]
      BY DEF Trained
    <2>2. \A m \in Messages : Trained[m] \in Seq({0, 1})
      BY <1>1
    <2>. QED BY <2>1, <2>2
  <1>. QED BY <1>1, <1>2

\* Sequences of zeros and ones.
LEMMA BitsAssociate == \A x, y, z \in Seq({0, 1}) : (x \o y) \o z = x \o (y \o z)
  BY ConcatAssociative

\* Tokens and what is learned of them.
LearnedAs(ids, loss) ==
    /\ ids \in Seq(Words) /\ loss \in Seq({0, 1}) /\ Len(loss) = Len(ids)
    /\ Len(ids) >= 1 => ids[1] \in Opens
    /\ \A t \in 1 .. Len(ids) : (loss[t] = 1) <=> Learned(ids, t)

LEMMA LearnedGrows ==
    ASSUME NEW ids, NEW loss, LearnedAs(ids, loss), NEW m \in Messages
    PROVE  LearnedAs(ids \o Rendered[m], loss \o Trained[m])
  <1>. DEFINE more == Rendered[m]
              said == Trained[m]
              n == Len(ids)
              k == m.images + m.text + 3
              all == ids \o more
              both == loss \o said
  <1>1. /\ ids \in Seq(Words) /\ loss \in Seq({0, 1}) /\ Len(loss) = n /\ n \in Nat
        /\ n >= 1 => ids[1] \in Opens
        /\ \A t \in 1 .. n : (loss[t] = 1) <=> Learned(ids, t)
    BY LenProperties DEF LearnedAs
  <1>2. k \in Nat /\ k >= 3 /\ m.role \in Roles
    BY DEF Messages
  <1>3. more \in Seq(Words) /\ Len(more) = k /\ more[1] = V!Open(m.role)
        /\ more = <<V!Open(m.role)>> \o Spoken(m)
    <2>1. /\ Rendered[m] \in Seq(Words) /\ Len(Rendered[m]) = m.images + m.text + 3
          /\ Rendered[m][1] = V!Open(m.role) /\ Rendered[m] = <<V!Open(m.role)>> \o Spoken(m)
      BY RenderedIs
    <2>. QED BY <2>1
  <1>4. said \in Seq({0, 1}) /\ Len(said) = k
        /\ \A t \in 1 .. k : said[t] = IF m.role = "assistant" /\ t > 1 THEN 1 ELSE 0
    <2>1. /\ Trained[m] \in Seq({0, 1}) /\ Len(Trained[m]) = m.images + m.text + 3
          /\ \A t \in 1 .. Len(Trained[m]) :
                Trained[m][t] = IF m.role = "assistant" /\ t > 1 THEN 1 ELSE 0
      BY TrainedIs
    <2>. QED BY <2>1
  <1>5. Spoken(m) \in Seq(Quiet) /\ Len(Spoken(m)) = k - 1
    <2>1. Spoken(m) \in Seq(Quiet) /\ Len(Spoken(m)) = m.images + m.text + 2
      BY SpokenIs
    <2>2. m.images \in Nat /\ m.text \in Nat
      BY DEF Messages
    <2>. QED BY <2>1, <2>2
  <1>6. \A t \in 2 .. k : more[t] \notin Opens
    <2>1. Spoken(m) \in Seq(Words) /\ <<V!Open(m.role)>> \in Seq(Words) /\ Len(<<V!Open(m.role)>>) = 1
      <3>1. V!Open(m.role) \in Words
        BY <1>2, WordFacts
      <3>. QED BY <3>1, SpokenIs
    <2>2. \A t \in 1 .. Len(Spoken(m)) : (<<V!Open(m.role)>> \o Spoken(m))[1 + t] = Spoken(m)[t]
      BY <2>1, WordsConcatenated
    <2>3. \A t \in 1 .. Len(Spoken(m)) : Spoken(m)[t] \in Quiet
      BY <1>5, ElementOfSeq
    <2>4. ASSUME NEW t \in 2 .. k PROVE more[t] \in Quiet
      <3>1. t - 1 \in 1 .. Len(Spoken(m)) /\ 1 + (t - 1) = t
        BY <1>2, <1>5
      <3>2. (<<V!Open(m.role)>> \o Spoken(m))[1 + (t - 1)] = Spoken(m)[t - 1]
        BY <2>2, <3>1
      <3>. QED BY <1>3, <2>3, <3>1, <3>2
    <2>. QED BY <2>4 DEF Quiet
  <1>. HIDE DEF more, said, k
  <1>7. /\ all \in Seq(Words) /\ Len(all) = n + k
        /\ \A i \in 1 .. n : all[i] = ids[i]
        /\ \A i \in 1 .. k : all[n + i] = more[i]
    BY <1>1, <1>3, WordsConcatenated
  <1>8. /\ both \in Seq({0, 1}) /\ Len(both) = n + k
        /\ \A i \in 1 .. n : both[i] = loss[i]
        /\ \A i \in 1 .. k : both[n + i] = said[i]
    <2>2. /\ both \in Seq({0, 1}) /\ Len(both) = Len(loss) + Len(said)
          /\ \A i \in 1 .. Len(loss) : both[i] = loss[i]
          /\ \A i \in 1 .. Len(said) : both[Len(loss) + i] = said[i]
      BY <1>1, <1>4, BitsConcatenated, Zenon
    <2>. HIDE DEF both
    <2>. QED BY <1>1, <1>4, <2>2
  <1>. HIDE DEF all, both
  <1>9. V!Open(m.role) \in Opens /\ (V!Open(m.role) = ToAnswer => m.role = "assistant")
    BY <1>2, WordFacts
  <1>10. all[1] \in Opens
    <2>1. CASE n >= 1
      BY <1>1, <1>7, <2>1
    <2>2. CASE n = 0
      <3>1. 1 \in 1 .. k
        BY <1>2
      <3>2. all[n + 1] = more[1] /\ n + 1 = 1
        BY <1>7, <2>2, <3>1
      <3>. QED BY <1>3, <1>9, <3>2
    <2>. QED BY <1>1, <2>1, <2>2
  <1>11. ASSUME NEW t \in 1 .. n PROVE (both[t] = 1) <=> Learned(all, t)
    <2>1. t \in Nat \ {0} /\ ids[1] \in Opens /\ \A i \in 1 .. t : ids[i] = all[i]
      BY <1>1, <1>7
    <2>2. Learned(ids, t) <=> Learned(all, t)
      <3>1. \A i \in Nat \ {0} : (\A j \in 1 .. i : ids[j] = all[j]) => Learned(ids, i) = Learned(all, i)
        BY <2>1, LearnedBefore
      <3>. QED BY <2>1, <3>1
    <2>. QED BY <1>1, <1>8, <2>2
  <1>12. ASSUME NEW i \in 1 .. k PROVE (both[n + i] = 1) <=> Learned(all, n + i)
    <2>1. both[n + i] = IF m.role = "assistant" /\ i > 1 THEN 1 ELSE 0
      BY <1>4, <1>8
    <2>2. all[n + 1] = V!Open(m.role) /\ n + 1 \in Nat \ {0} /\ n + i \in Nat
      <3>1. 1 \in 1 .. k
        BY <1>2
      <3>. QED BY <1>1, <1>3, <1>7, <3>1
    <2>3. CASE i = 1
      <3>1. ~ Learned(all, n + i)
        BY <1>9, <2>2, <2>3, MarksAreNotLearned
      <3>. QED BY <2>1, <2>3, <3>1
    <2>4. ASSUME NEW j \in (n + 1) + 1 .. n + i PROVE all[j] \notin Opens
      <3>1. j - n \in 2 .. k /\ j - n \in 1 .. k /\ n + (j - n) = j
        BY <1>1, <1>2
      <3>2. all[n + (j - n)] = more[j - n]
        BY <1>7, <3>1
      <3>. QED BY <1>6, <3>1, <3>2
    <2>5. CASE i > 1 /\ m.role = "assistant"
      <3>1. n + 1 < n + i /\ all[n + 1] = ToAnswer
        BY <1>1, <2>2, <2>5 DEF ToAnswer
      <3>2. Learned(all, n + i)
        BY <2>2, <2>4, <3>1, AnswersAreLearned
      <3>. QED BY <2>1, <2>5, <3>2
    <2>6. CASE i > 1 /\ m.role # "assistant"
      <3>1. \A j \in n + 1 .. n + i : all[j] # ToAnswer
        <4>1. ASSUME NEW j \in n + 1 .. n + i PROVE all[j] # ToAnswer
          <5>1. j = n + 1 \/ j \in (n + 1) + 1 .. n + i
            BY <1>1
          <5>2. ToAnswer \in Opens
            BY WordFacts
          <5>. QED BY <1>9, <2>2, <2>4, <2>6, <5>1, <5>2
        <4>. QED BY <4>1
      <3>2. n < n + i /\ all[n + 1] \in Opens
        BY <1>1, <1>9, <2>2
      <3>3. ~ Learned(all, n + i)
        BY <1>1, <2>2, <3>1, <3>2, OthersAreNotLearned
      <3>. QED BY <2>1, <2>6, <3>3
    <2>. QED BY <2>3, <2>5, <2>6
  <1>13. ASSUME NEW t \in 1 .. Len(all) PROVE (both[t] = 1) <=> Learned(all, t)
    <2>1. CASE t <= n
      BY <1>1, <1>11, <2>1
    <2>2. CASE t > n
      <3>1. t - n \in 1 .. k /\ n + (t - n) = t
        BY <1>1, <1>2, <1>7, <2>2
      <3>. QED BY <1>12, <3>1
    <2>. QED BY <1>1, <2>1, <2>2
  <1>14. LearnedAs(all, both)
    BY <1>7, <1>8, <1>10, <1>13 DEF LearnedAs
  <1>. QED BY <1>14 DEF all, both, more, said

LEMMA LearnedOpening ==
    ASSUME NEW head \in {<<>>, V!SystemPrompt} PROVE LearnedAs(head, V!Repeat(0, Len(head)))
  <1>1. head \in Seq(Words) /\ Len(head) \in Nat /\ (Len(head) >= 1 => head[1] \in Opens)
    <2>1. CASE head = <<>>
      BY <2>1
    <2>2. CASE head = V!SystemPrompt
      BY <2>2, ManyWords
    <2>. QED BY <2>1, <2>2
  <1>2. \A t \in 1 .. Len(head) : head[t] # ToAnswer
    <2>1. CASE head = <<>>
      BY <2>1
    <2>2. CASE head = V!SystemPrompt
      BY <2>2 DEF V!SystemPrompt, V!Open, V!End, V!Newline, ToAnswer
    <2>. QED BY <2>1, <2>2
  <1>3. /\ V!Repeat(0, Len(head)) \in Seq({0, 1}) /\ Len(V!Repeat(0, Len(head))) = Len(head)
        /\ \A i \in 1 .. Len(head) : V!Repeat(0, Len(head))[i] = 0
    BY <1>1, RepeatIs
  <1>4. ASSUME NEW t \in 1 .. Len(head) PROVE ~ Learned(head, t)
    <2>1. t \in Nat /\ 0 \in Nat /\ 0 < t /\ head[0 + 1] \in Opens
      BY <1>1
    <2>2. \A k \in 0 + 1 .. t : head[k] # ToAnswer
      BY <1>1, <1>2
    <2>. QED BY <2>1, <2>2, OthersAreNotLearned
  <1>. QED BY <1>1, <1>3, <1>4 DEF LearnedAs

LEMMA FlatTrained ==
    /\ \A ms \in Seq(Messages) : FlatMap(Trained, ms) \in Seq({0, 1})
    /\ \A ms, more \in Seq(Messages) :
          FlatMap(Trained, ms \o more) = FlatMap(Trained, ms) \o FlatMap(Trained, more)
    /\ \A m \in Messages : FlatMap(Trained, <<m>>) = Trained[m]
  <1>1. Trained \in [Messages -> Seq({0, 1})]
    BY TrainedIs
  <1>2. \A ms \in Seq(Messages) : FlatMap(Trained, ms) \in Seq({0, 1})
    BY <1>1, FlatMapType
  <1>3. \A ms, more \in Seq(Messages) :
           FlatMap(Trained, ms \o more) = FlatMap(Trained, ms) \o FlatMap(Trained, more)
    <2>1. ASSUME NEW F \in [Messages -> Seq({0, 1})]
          PROVE  \A s, t \in Seq(Messages) : FlatMap(F, s \o t) = FlatMap(F, s) \o FlatMap(F, t)
      BY FlatMapConcatenated
    <2>2. \A F \in [Messages -> Seq({0, 1})] : \A s, t \in Seq(Messages) :
                FlatMap(F, s \o t) = FlatMap(F, s) \o FlatMap(F, t)
      BY <2>1, Zenon
    <2>. QED BY <1>1, <2>2, Zenon
  <1>4. \A m \in Messages : FlatMap(Trained, <<m>>) = Trained[m]
    BY <1>1, FlatMapOne
  <1>. QED BY <1>2, <1>3, <1>4

LEMMA LastOfSeq ==
    ASSUME NEW S, NEW s \in Seq(S), NEW k \in Nat, Len(s) = k + 1
    PROVE  \E front \in Seq(S), x \in S : s = front \o <<x>> /\ Len(front) = k
  <1>. DEFINE front == [i \in 1 .. k |-> s[i]]
              x == s[k + 1]
  <1>1. \A i \in 1 .. k + 1 : s[i] \in S
    BY ElementOfSeq
  <1>2. front \in [1 .. k -> S] /\ x \in S /\ \A i \in 1 .. k : front[i] = s[i]
    <2>1. \A i \in 1 .. k : i \in 1 .. k + 1
      OBVIOUS
    <2>2. k + 1 \in 1 .. k + 1
      OBVIOUS
    <2>. QED BY <1>1, <2>1, <2>2
  <1>. HIDE DEF front
  <1>3. front \in Seq(S) /\ Len(front) = k
    BY <1>2, LengthOfFunction
  <1>. HIDE DEF x
  <1>4. <<x>> \in Seq(S) /\ Len(<<x>>) = 1 /\ <<x>>[1] = x
    BY <1>2
  <1>. DEFINE both == front \o <<x>>
  <1>5. /\ both \in Seq(S) /\ Len(both) = k + 1
        /\ \A i \in 1 .. k + 1 : both[i] = IF i <= k THEN front[i] ELSE <<x>>[i - k]
    BY <1>3, <1>4, ConcatProperties
  <1>. HIDE DEF both
  <1>6. ASSUME NEW i \in 1 .. Len(s) PROVE s[i] = both[i]
    <2>1. CASE i <= k
      BY <1>2, <1>5, <2>1
    <2>2. CASE ~ i <= k
      <3>1. i = k + 1 /\ i - k = 1 /\ i \in 1 .. k + 1
        BY <2>2
      <3>. QED BY <1>4, <1>5, <2>2, <3>1 DEF x
    <2>. QED BY <2>1, <2>2
  <1>7. s = both
    BY <1>5, <1>6, SeqEqual
  <1>. QED BY <1>2, <1>3, <1>7 DEF both

\* Message after message.
LEMMA LearnedAll ==
    ASSUME NEW head \in {<<>>, V!SystemPrompt}, NEW ms \in Seq(Messages)
    PROVE  LearnedAs(head \o FlatMap(Rendered, ms), V!Repeat(0, Len(head)) \o FlatMap(Trained, ms))
  <1>. DEFINE zeros == V!Repeat(0, Len(head))
              P(k) == \A s \in Seq(Messages) : Len(s) = k =>
                         LearnedAs(head \o FlatMap(Rendered, s), zeros \o FlatMap(Trained, s))
  <1>1. LearnedAs(head, zeros) /\ head \in Seq(Words) /\ zeros \in Seq({0, 1})
    BY LearnedOpening DEF LearnedAs
  <1>. HIDE DEF zeros
  <1>2. P(0)
    <2>1. FlatMap(Rendered, <<>>) = <<>> /\ FlatMap(Trained, <<>>) = <<>>
      <3>1. \A F : Each(F, <<>>) = <<>>
        BY DEF Each
      <3>2. FlattenSeq(<<>>) = <<>>
        BY EmptySeq DEF FlattenSeq
      <3>. QED BY <3>1, <3>2 DEF FlatMap
    <2>2. head \o <<>> = head /\ zeros \o <<>> = zeros
      BY <1>1, ConcatEmptySeq
    <2>3. \A s \in Seq(Messages) : Len(s) = 0 => s = <<>>
      BY EmptySeq
    <2>. QED BY <1>1, <2>1, <2>2, <2>3
  <1>3. ASSUME NEW k \in Nat, P(k) PROVE P(k + 1)
    <2>. SUFFICES ASSUME NEW s \in Seq(Messages), Len(s) = k + 1
                  PROVE  LearnedAs(head \o FlatMap(Rendered, s), zeros \o FlatMap(Trained, s))
      OBVIOUS
    <2>1. PICK front \in Seq(Messages), m \in Messages : s = front \o <<m>> /\ Len(front) = k
      BY LastOfSeq
    <2>2. <<m>> \in Seq(Messages)
      OBVIOUS
    <2>3. /\ FlatMap(Rendered, s) = FlatMap(Rendered, front) \o Rendered[m]
          /\ FlatMap(Rendered, front) \in Seq(Words) /\ Rendered[m] \in Seq(Words)
      BY <2>1, <2>2, FlatRendered, RenderedIs
    <2>4. /\ FlatMap(Trained, s) = FlatMap(Trained, front) \o Trained[m]
          /\ FlatMap(Trained, front) \in Seq({0, 1}) /\ Trained[m] \in Seq({0, 1})
      BY <2>1, <2>2, FlatTrained, TrainedIs
    <2>5. head \o FlatMap(Rendered, s) = (head \o FlatMap(Rendered, front)) \o Rendered[m]
      <3>1. (head \o FlatMap(Rendered, front)) \o Rendered[m]
                = head \o (FlatMap(Rendered, front) \o Rendered[m])
        BY <1>1, <2>3, WordsAssociate, Zenon
      <3>. QED BY <2>3, <3>1
    <2>6. zeros \o FlatMap(Trained, s) = (zeros \o FlatMap(Trained, front)) \o Trained[m]
      <3>1. (zeros \o FlatMap(Trained, front)) \o Trained[m]
                = zeros \o (FlatMap(Trained, front) \o Trained[m])
        BY <1>1, <2>4, BitsAssociate, Zenon
      <3>. QED BY <2>4, <3>1
    <2>7. LearnedAs(head \o FlatMap(Rendered, front), zeros \o FlatMap(Trained, front))
      BY <1>3, <2>1
    <2>. QED BY <2>5, <2>6, <2>7, LearnedGrows
  <1>. DEFINE n == Len(ms)
              Good == {k \in 0 .. n : P(k)}
  <1>4. n \in Nat
    BY LenProperties
  <1>. HIDE DEF P
  <1>5. 0 \in Good /\ \A k \in 0 .. n - 1 : k \in Good => k + 1 \in Good
    <2>1. \A k \in 0 .. n - 1 : k \in Nat /\ k + 1 \in 0 .. n
      BY <1>4
    <2>2. 0 \in 0 .. n
      BY <1>4
    <2>. QED BY <1>2, <1>3, <2>1, <2>2, Zenon
  <1>. HIDE DEF Good, n
  <1>6. \A k \in 0 .. n : k \in Good
    BY <1>4, <1>5, UpTo
  <1>7. n \in Good
    BY <1>4, <1>6
  <1>8. P(Len(ms))
    BY <1>7, Zenon DEF Good, n
  <1>. QED BY <1>8, Zenon DEF P, zeros

\* A message by itself.
LEMMA MessageIs ==
    ASSUME NEW m \in Messages, NEW i
    PROVE  LET p == V!ProcessSingleMessage(i, m)
               head == Opening(<<m>>)
           IN  /\ i # 1 => p.ids = Rendered[m] /\ p.loss = Trained[m]
               /\ (i = 1 /\ m.role # "assistant") =>
                    p.ids = head \o Rendered[m] /\ p.loss = V!Repeat(0, Len(head)) \o Trained[m]
  <1>. DEFINE p == V!ProcessSingleMessage(i, m)
              head == Opening(<<m>>)
              whole == V!ChatTemplate(<<m>>, FALSE)
              ids == IF i # 1 /\ m.role # "system"
                     THEN V!From(whole, Len(V!SystemPromptAndGeneration.system)) ELSE whole
              marks == Len(V!SystemPromptAndGeneration.generation)
              loss == [t \in DOMAIN ids |-> IF m.role = "assistant" /\ t > marks THEN 1 ELSE 0]
  <1>1. p = [ids |-> ids, loss |-> loss]
    BY Zenon DEF V!ProcessSingleMessage
  <1>2. p.ids = ids /\ p.loss = loss
    BY <1>1
  <1>3. marks = 1
    BY SystemPromptIs
  <1>4. <<m>> \in Talk /\ <<m>>[1] = m
    BY DEF Talk
  <1>5. whole = head \o Rendered[m]
    <2>1. whole = Told(<<m>>)
      BY <1>4, TemplateIs
    <2>2. FlatMap(Rendered, <<m>>) = Rendered[m]
      BY FlatRendered
    <2>. QED BY <2>1, <2>2 DEF Told, Opening
  <1>6. head = IF m.role = "system" THEN <<>> ELSE V!SystemPrompt
    BY <1>4 DEF Opening
  <1>7. Rendered[m] \in Seq(Words) /\ V!SystemPrompt \in Seq(Words) /\ head \in Seq(Words)
    <2>1. <<>> \in Seq(Words)
      OBVIOUS
    <2>2. Rendered[m] \in Seq(Words) /\ V!SystemPrompt \in Seq(Words)
      BY RenderedIs, ManyWords
    <2>. QED BY <1>6, <2>1, <2>2
  <1>. DEFINE k == m.images + m.text + 3
  <1>8. k \in Nat /\ k >= 3 /\ Len(Rendered[m]) = k /\ DOMAIN Rendered[m] = 1 .. k
    <2>1. k \in Nat /\ k >= 3
      BY DEF Messages
    <2>2. Len(Rendered[m]) = k
      BY RenderedIs
    <2>. HIDE DEF k
    <2>. QED BY <1>7, <2>1, <2>2, LenProperties
  <1>9. Trained[m] = [t \in 1 .. k |-> IF m.role = "assistant" /\ t > 1 THEN 1 ELSE 0]
    BY DEF Trained
  <1>10. ids = IF i # 1 /\ m.role # "system" THEN V!From(whole, Len(V!SystemPrompt)) ELSE whole
    BY SystemPromptIs
  <1>11. loss = [t \in DOMAIN ids |-> IF m.role = "assistant" /\ t > 1 THEN 1 ELSE 0]
    BY <1>3
  <1>. HIDE DEF p, head, whole, marks, ids, loss, k
  <1>12. ASSUME i # 1 PROVE p.ids = Rendered[m] /\ p.loss = Trained[m]
    <2>1. ids = Rendered[m]
      <3>1. CASE m.role = "system"
        <4>1. <<>> \o Rendered[m] = Rendered[m]
          BY <1>7, ConcatEmptySeq
        <4>. QED BY <1>5, <1>6, <1>10, <3>1, <4>1
      <3>2. CASE m.role # "system"
        <4>1. V!From(V!SystemPrompt \o Rendered[m], Len(V!SystemPrompt)) = Rendered[m]
          BY <1>7, FromIs
        <4>. QED BY <1>5, <1>6, <1>10, <1>12, <3>2, <4>1
      <3>. QED BY <3>1, <3>2
    <2>2. loss = Trained[m]
      BY <1>8, <1>9, <1>11, <2>1
    <2>. QED BY <1>2, <2>1, <2>2
  <1>13. ASSUME i = 1, m.role # "assistant"
         PROVE  p.ids = head \o Rendered[m] /\ p.loss = V!Repeat(0, Len(head)) \o Trained[m]
    <2>. DEFINE zeros == V!Repeat(0, Len(head))
                both == zeros \o Trained[m]
                n == Len(head)
    <2>1. ids = head \o Rendered[m]
      BY <1>5, <1>10, <1>13
    <2>2. /\ ids \in Seq(Words) /\ Len(ids) = n + k /\ n \in Nat
      BY <1>7, <1>8, <2>1, WordsConcatenated
    <2>3. /\ zeros \in Seq({0, 1}) /\ Len(zeros) = n /\ \A t \in 1 .. n : zeros[t] = 0
      BY <2>2, RepeatIs
    <2>4. Trained[m] \in Seq({0, 1}) /\ Len(Trained[m]) = k /\ \A t \in 1 .. k : Trained[m][t] = 0
      BY <1>8, <1>9, <1>13, TrainedIs
    <2>. HIDE DEF zeros, n
    <2>5. /\ both \in Seq({0, 1}) /\ Len(both) = Len(zeros) + Len(Trained[m])
          /\ \A t \in 1 .. Len(zeros) : both[t] = zeros[t]
          /\ \A t \in 1 .. Len(Trained[m]) : both[Len(zeros) + t] = Trained[m][t]
      BY <2>3, <2>4, BitsConcatenated, Zenon
    <2>. HIDE DEF both
    <2>6. \A t \in 1 .. n + k : both[t] = 0
      <3>1. ASSUME NEW t \in 1 .. n + k PROVE both[t] = 0
        <4>1. CASE t <= n
          BY <2>2, <2>3, <2>5, <4>1
        <4>2. CASE t > n
          <5>1. t - n \in 1 .. k /\ n + (t - n) = t
            BY <1>8, <2>2, <4>2
          <5>2. both[n + (t - n)] = Trained[m][t - n]
            BY <2>3, <2>4, <2>5, <5>1
          <5>. QED BY <2>4, <5>1, <5>2
        <4>. QED BY <2>2, <4>1, <4>2
      <3>. QED BY <3>1
    <2>7. DOMAIN ids = 1 .. n + k
      BY <2>2, LenProperties
    <2>8. loss = [t \in 1 .. n + k |-> 0]
      BY <1>11, <1>13, <2>7
    <2>9. both = [t \in 1 .. n + k |-> both[t]]
      <3>1. Len(both) = n + k
        BY <2>3, <2>4, <2>5
      <3>. QED BY <2>5, <3>1, LenProperties
    <2>10. loss = both
      BY <2>6, <2>8, <2>9
    <2>. QED BY <1>2, <2>1, <2>10 DEF both, zeros, n
  <1>. QED BY <1>12, <1>13 DEF p, head

Associative(S) == \A x, y, z \in Seq(S) : (x \o y) \o z = x \o (y \o z)

LEMMA SeqsAssociate ==
    ASSUME NEW S PROVE Associative(S)
  BY ConcatAssociative DEF Associative

\* Sequences one after the other, the first of them made of two.
Followed(parts, first, q) ==
    Len(parts) = Len(q) + 1 /\ parts[1] = first /\ \A i \in 1 .. Len(q) : parts[i + 1] = q[i]

LEMMA FirstOfTwo ==
    ASSUME NEW T, NEW parts \in Seq(Seq(T)), NEW a \in Seq(T), NEW b \in Seq(T), NEW q \in Seq(Seq(T)),
           Followed(parts, a \o b, q)
    PROVE  FlattenSeq(parts) = a \o (b \o FlattenSeq(q))
  <1>. DEFINE first == a \o b
              one == <<first>>
              both == one \o q
  <1>0. Len(parts) = Len(q) + 1 /\ parts[1] = first /\ \A i \in 1 .. Len(q) : parts[i + 1] = q[i]
    BY DEF Followed
  <1>1. first \in Seq(T)
    BY ConcatProperties
  <1>2. (a \o b) \o FlattenSeq(q) = a \o (b \o FlattenSeq(q))
    <2>1. FlattenSeq(q) \in Seq(T)
      BY FlattenConcatenated
    <2>2. Associative(T)
      BY SeqsAssociate, Zenon
    <2>. QED BY <2>1, <2>2, Zenon DEF Associative
  <1>. HIDE DEF first
  <1>3. one \in Seq(Seq(T)) /\ Len(one) = 1 /\ one[1] = first /\ FlattenSeq(one) = first
    <2>1. FlattenSeq(<<first>>) = first
      BY <1>1, FlattenOne
    <2>. QED BY <1>1, <2>1
  <1>. HIDE DEF one
  <1>4. /\ both \in Seq(Seq(T)) /\ Len(both) = 1 + Len(q) /\ Len(q) \in Nat
        /\ \A i \in 1 .. 1 + Len(q) : both[i] = IF i <= 1 THEN one[i] ELSE q[i - 1]
    <2>1. /\ both \in Seq(Seq(T)) /\ Len(both) = Len(one) + Len(q)
          /\ \A i \in 1 .. Len(one) + Len(q) : both[i] = IF i <= Len(one) THEN one[i] ELSE q[i - Len(one)]
      BY <1>3, ConcatProperties
    <2>. HIDE DEF both
    <2>. QED BY <1>3, <2>1, LenProperties
  <1>5. FlattenSeq(both) = first \o FlattenSeq(q)
    <2>1. FlattenSeq(both) = FlattenSeq(one) \o FlattenSeq(q)
      BY <1>3, FlattenConcatenated
    <2>. QED BY <1>3, <2>1
  <1>. HIDE DEF both
  <1>6. ASSUME NEW i \in 1 .. Len(parts) PROVE parts[i] = both[i]
    <2>1. CASE i = 1
      <3>1. both[1] = one[1]
        <4>1. 1 \in 1 .. 1 + Len(q) /\ 1 <= 1
          BY <1>4
        <4>. QED BY <1>4, <4>1, Zenon
      <3>. QED BY <1>0, <1>3, <2>1, <3>1
    <2>2. CASE i # 1
      <3>1. i \in 1 .. 1 + Len(q) /\ i - 1 \in 1 .. Len(q) /\ (i - 1) + 1 = i /\ ~ i <= 1
        BY <1>0, <1>4, <2>2
      <3>2. both[i] = q[i - 1] /\ parts[(i - 1) + 1] = q[i - 1]
        BY <1>0, <1>4, <3>1
      <3>. QED BY <3>1, <3>2
    <2>. QED BY <2>1, <2>2
  <1>7. parts = both
    <2>1. Len(parts) = Len(both)
      BY <1>0, <1>4
    <2>. QED BY <1>4, <1>6, <2>1, SeqEqual
  <1>. QED BY <1>2, <1>5, <1>7 DEF first

LEMMA WordsFirst ==
    \A parts, q \in Seq(Seq(Words)), a, b \in Seq(Words) :
        Followed(parts, a \o b, q) => FlattenSeq(parts) = a \o (b \o FlattenSeq(q))
  BY FirstOfTwo

LEMMA BitsFirst ==
    \A parts, q \in Seq(Seq({0, 1})), a, b \in Seq({0, 1}) :
        Followed(parts, a \o b, q) => FlattenSeq(parts) = a \o (b \o FlattenSeq(q))
  BY FirstOfTwo

LEMMA EachMessage ==
    \A s \in Seq(Messages) :
        /\ Each(Rendered, s) \in Seq(Seq(Words)) /\ Len(Each(Rendered, s)) = Len(s)
        /\ \A i \in 1 .. Len(s) : Each(Rendered, s)[i] = Rendered[s[i]]
        /\ Each(Trained, s) \in Seq(Seq({0, 1})) /\ Len(Each(Trained, s)) = Len(s)
        /\ \A i \in 1 .. Len(s) : Each(Trained, s)[i] = Trained[s[i]]
  <1>1. \A s \in Seq(Messages) : Each(Rendered, s) \in Seq(Seq(Words))
    BY RenderedIs, EachType
  <1>2. \A s \in Seq(Messages) : Each(Trained, s) \in Seq(Seq({0, 1}))
    BY TrainedIs, EachType
  <1>3. \A F : \A s \in Seq(Messages) :
            Len(Each(F, s)) = Len(s) /\ \A i \in 1 .. Len(s) : Each(F, s)[i] = F[s[i]]
    BY EachIs
  <1>. QED BY <1>1, <1>2, <1>3

LEMMA FirstMessage ==
    ASSUME NEW ms \in Talk
    PROVE  /\ ms[1] \in Messages /\ Tail(ms) \in Seq(Messages) /\ Len(ms) \in Nat \ {0}
           /\ Len(ms) = Len(Tail(ms)) + 1
           /\ \A i \in 1 .. Len(Tail(ms)) : Tail(ms)[i] = ms[i + 1]
           /\ FlatMap(Rendered, ms) = Rendered[ms[1]] \o FlatMap(Rendered, Tail(ms))
           /\ FlatMap(Trained, ms) = Trained[ms[1]] \o FlatMap(Trained, Tail(ms))
  <1>. DEFINE rest == Tail(ms)
  <1>1. /\ ms[1] \in Messages /\ rest \in Seq(Messages) /\ Len(ms) \in Nat \ {0}
        /\ Len(rest) = Len(ms) - 1
        /\ \A i \in 1 .. Len(rest) : rest[i] = ms[i + 1]
    BY HeadTailProperties, EmptySeq DEF Talk
  <1>. HIDE DEF rest
  <1>2. ms = <<ms[1]>> \o rest
    <2>. DEFINE both == <<ms[1]>> \o rest
    <2>0. <<ms[1]>> \in Seq(Messages) /\ Len(<<ms[1]>>) = 1 /\ <<ms[1]>>[1] = ms[1]
      BY <1>1
    <2>1. /\ both \in Seq(Messages) /\ Len(both) = 1 + Len(rest)
          /\ \A i \in 1 .. 1 + Len(rest) : both[i] = IF i <= 1 THEN <<ms[1]>>[i] ELSE rest[i - 1]
      BY <1>1, <2>0, ConcatProperties
    <2>. HIDE DEF both
    <2>2. ASSUME NEW i \in 1 .. Len(ms) PROVE ms[i] = both[i]
      <3>1. CASE i = 1
        <4>1. both[1] = <<ms[1]>>[1]
          BY <1>1, <2>1
        <4>. QED BY <2>0, <3>1, <4>1
      <3>2. CASE i # 1
        <4>1. i \in 1 .. 1 + Len(rest) /\ i - 1 \in 1 .. Len(rest) /\ (i - 1) + 1 = i /\ ~ i <= 1
          BY <1>1, <3>2
        <4>2. both[i] = rest[i - 1] /\ rest[i - 1] = ms[(i - 1) + 1]
          BY <1>1, <2>1, <4>1
        <4>. QED BY <4>1, <4>2
      <3>. QED BY <3>1, <3>2
    <2>3. Len(ms) = Len(both) /\ ms \in Seq(Messages)
      BY <1>1, <2>1 DEF Talk
    <2>4. ms = both
      BY <2>1, <2>2, <2>3, SeqEqual
    <2>. QED BY <2>4 DEF both
  <1>3. <<ms[1]>> \in Seq(Messages)
    BY <1>1
  <1>4. FlatMap(Rendered, ms) = Rendered[ms[1]] \o FlatMap(Rendered, rest)
    <2>1. FlatMap(Rendered, <<ms[1]>> \o rest) = FlatMap(Rendered, <<ms[1]>>) \o FlatMap(Rendered, rest)
      BY <1>1, <1>3, FlatRendered
    <2>2. FlatMap(Rendered, <<ms[1]>>) = Rendered[ms[1]]
      BY <1>1, FlatRendered
    <2>. QED BY <1>2, <2>1, <2>2
  <1>5. FlatMap(Trained, ms) = Trained[ms[1]] \o FlatMap(Trained, rest)
    <2>1. FlatMap(Trained, <<ms[1]>> \o rest) = FlatMap(Trained, <<ms[1]>>) \o FlatMap(Trained, rest)
      BY <1>1, <1>3, FlatTrained
    <2>2. FlatMap(Trained, <<ms[1]>>) = Trained[ms[1]]
      BY <1>1, FlatTrained
    <2>. QED BY <1>2, <2>1, <2>2
  <1>6. Len(ms) = Len(rest) + 1
    BY <1>1
  <1>. QED BY <1>1, <1>4, <1>5, <1>6 DEF rest

\* The tokens of a sample and what is learned of them.
LEMMA TurnsAre ==
    ASSUME NEW ms \in Talk, ms[1].role # "assistant"
    PROVE  LET each == [i \in DOMAIN ms |-> V!ProcessSingleMessage(i, ms[i])]
               ids == V!FlattenSeq([i \in DOMAIN each |-> each[i].ids])
               loss == V!FlattenSeq([i \in DOMAIN each |-> each[i].loss])
           IN  ids = Told(ms) /\ LearnedAs(ids, loss)
  <1>. DEFINE each == [i \in DOMAIN ms |-> V!ProcessSingleMessage(i, ms[i])]
              idParts == [i \in DOMAIN each |-> each[i].ids]
              lossParts == [i \in DOMAIN each |-> each[i].loss]
              n == Len(ms)
              head == Opening(ms)
              zeros == V!Repeat(0, Len(head))
  <1>1. ms \in Seq(Messages) /\ n \in Nat \ {0} /\ DOMAIN ms = 1 .. n /\ ms[1] \in Messages
        /\ \A i \in 1 .. n : ms[i] \in Messages
    <2>1. ms \in Seq(Messages) /\ ms # <<>>
      BY DEF Talk
    <2>2. n \in Nat \ {0} /\ DOMAIN ms = 1 .. n
      BY <2>1, EmptySeq, LenProperties
    <2>3. \A i \in 1 .. n : ms[i] \in Messages
      BY <2>1, ElementOfSeq
    <2>. QED BY <2>1, <2>2, <2>3
  <1>2. Opening(<<ms[1]>>) = head
    BY DEF Opening
  <1>3. head \in {<<>>, V!SystemPrompt} /\ head \in Seq(Words)
    <2>1. <<>> \in Seq(Words) /\ V!SystemPrompt \in Seq(Words)
      BY ManyWords
    <2>. QED BY <2>1 DEF Opening
  <1>. HIDE DEF head
  <1>4. zeros \in Seq({0, 1})
    BY <1>3, LenProperties, RepeatIs
  <1>. HIDE DEF zeros
  <1>5. each[1].ids = head \o Rendered[ms[1]] /\ each[1].loss = zeros \o Trained[ms[1]]
    <2>1. each[1] = V!ProcessSingleMessage(1, ms[1])
      BY <1>1
    <2>2. \A m \in Messages : m.role # "assistant" =>
            /\ V!ProcessSingleMessage(1, m).ids = Opening(<<m>>) \o Rendered[m]
            /\ V!ProcessSingleMessage(1, m).loss = V!Repeat(0, Len(Opening(<<m>>))) \o Trained[m]
      BY MessageIs
    <2>3. each[1].ids = Opening(<<ms[1]>>) \o Rendered[ms[1]]
          /\ each[1].loss = V!Repeat(0, Len(Opening(<<ms[1]>>))) \o Trained[ms[1]]
      BY <1>1, <2>1, <2>2
    <2>. QED BY <1>2, <2>3 DEF zeros
  <1>6. \A i \in 2 .. n : each[i].ids = Rendered[ms[i]] /\ each[i].loss = Trained[ms[i]]
    <2>1. \A m \in Messages, i \in Nat : i # 1 =>
            /\ V!ProcessSingleMessage(i, m).ids = Rendered[m]
            /\ V!ProcessSingleMessage(i, m).loss = Trained[m]
      BY MessageIs
    <2>2. ASSUME NEW i \in 2 .. n
          PROVE  each[i].ids = Rendered[ms[i]] /\ each[i].loss = Trained[ms[i]]
      <3>1. i \in 1 .. n /\ i # 1 /\ i \in Nat
        BY <1>1
      <3>2. each[i] = V!ProcessSingleMessage(i, ms[i])
        BY <1>1, <3>1
      <3>. QED BY <1>1, <2>1, <3>1, <3>2
    <2>. QED BY <2>2
  <1>7. DOMAIN each = 1 .. n
    BY <1>1
  <1>. HIDE DEF each
  <1>8. /\ \A i \in 1 .. n : idParts[i] = each[i].ids /\ lossParts[i] = each[i].loss
        /\ DOMAIN idParts = 1 .. n /\ DOMAIN lossParts = 1 .. n
    BY <1>7
  <1>9. Rendered \in [Messages -> Seq(Words)] /\ Trained \in [Messages -> Seq({0, 1})]
    BY RenderedIs, TrainedIs
  <1>10. ASSUME NEW i \in 1 .. n
         PROVE  each[i].ids \in Seq(Words) /\ each[i].loss \in Seq({0, 1})
    <2>1. Rendered[ms[i]] \in Seq(Words) /\ Trained[ms[i]] \in Seq({0, 1})
      BY <1>1, <1>9
    <2>2. CASE i = 1
      <3>1. head \o Rendered[ms[i]] \in Seq(Words) /\ zeros \o Trained[ms[i]] \in Seq({0, 1})
        BY <1>3, <1>4, <2>1, WordsConcatenated, BitsConcatenated
      <3>. QED BY <1>5, <2>2, <3>1
    <2>3. CASE i # 1
      <3>1. i \in 2 .. n
        BY <1>1, <2>3
      <3>. QED BY <1>6, <2>1, <3>1
    <2>. QED BY <2>2, <2>3
  <1>11. idParts \in [1 .. n -> Seq(Words)] /\ lossParts \in [1 .. n -> Seq({0, 1})]
    BY <1>7, <1>10
  <1>12. /\ idParts[1] = head \o Rendered[ms[1]] /\ \A i \in 2 .. n : idParts[i] = Rendered[ms[i]]
         /\ lossParts[1] = zeros \o Trained[ms[1]] /\ \A i \in 2 .. n : lossParts[i] = Trained[ms[i]]
    <2>1. 1 \in 1 .. n /\ \A i \in 2 .. n : i \in 1 .. n
      BY <1>1
    <2>. QED BY <1>5, <1>6, <1>8, <2>1
  <1>. HIDE DEF idParts, lossParts
  <1>13. /\ idParts \in Seq(Seq(Words)) /\ Len(idParts) = n
         /\ lossParts \in Seq(Seq({0, 1})) /\ Len(lossParts) = n
    BY <1>1, <1>11, LengthOfFunction
  <1>. DEFINE rest == Tail(ms)
  <1>14. /\ rest \in Seq(Messages) /\ n = Len(rest) + 1 /\ Len(rest) \in Nat
         /\ \A i \in 1 .. Len(rest) : rest[i] = ms[i + 1]
         /\ FlatMap(Rendered, ms) = Rendered[ms[1]] \o FlatMap(Rendered, rest)
         /\ FlatMap(Trained, ms) = Trained[ms[1]] \o FlatMap(Trained, rest)
    BY FirstMessage, LenProperties
  <1>. HIDE DEF rest, n
  <1>15. FlattenSeq(idParts) = head \o FlatMap(Rendered, ms)
    <2>. DEFINE q == Each(Rendered, rest)
    <2>1. q \in Seq(Seq(Words)) /\ Len(q) = Len(rest) /\ \A i \in 1 .. Len(rest) : q[i] = Rendered[rest[i]]
      BY <1>14, EachMessage
    <2>2. FlatMap(Rendered, rest) = FlattenSeq(q)
      BY DEF FlatMap
    <2>. HIDE DEF q
    <2>3. ASSUME NEW i \in 1 .. Len(q) PROVE idParts[i + 1] = q[i]
      <3>1. i + 1 \in 2 .. n /\ i \in 1 .. Len(rest)
        BY <1>14, <2>1
      <3>. QED BY <1>12, <1>14, <2>1, <3>1
    <2>4. Rendered[ms[1]] \in Seq(Words)
      BY <1>1, <1>9
    <2>5. Followed(idParts, head \o Rendered[ms[1]], q)
      BY <1>12, <1>13, <1>14, <2>1, <2>3 DEF Followed
    <2>6. FlattenSeq(idParts) = head \o (Rendered[ms[1]] \o FlattenSeq(q))
      BY <1>3, <1>13, <2>1, <2>4, <2>5, WordsFirst, Zenon
    <2>. QED BY <1>14, <2>2, <2>6
  <1>16. FlattenSeq(lossParts) = zeros \o FlatMap(Trained, ms)
    <2>. DEFINE q == Each(Trained, rest)
    <2>1. q \in Seq(Seq({0, 1})) /\ Len(q) = Len(rest) /\ \A i \in 1 .. Len(rest) : q[i] = Trained[rest[i]]
      BY <1>14, EachMessage
    <2>2. FlatMap(Trained, rest) = FlattenSeq(q)
      BY DEF FlatMap
    <2>. HIDE DEF q
    <2>3. ASSUME NEW i \in 1 .. Len(q) PROVE lossParts[i + 1] = q[i]
      <3>1. i + 1 \in 2 .. n /\ i \in 1 .. Len(rest)
        BY <1>14, <2>1
      <3>. QED BY <1>12, <1>14, <2>1, <3>1
    <2>4. Trained[ms[1]] \in Seq({0, 1})
      BY <1>1, <1>9
    <2>5. Followed(lossParts, zeros \o Trained[ms[1]], q)
      BY <1>12, <1>13, <1>14, <2>1, <2>3 DEF Followed
    <2>6. FlattenSeq(lossParts) = zeros \o (Trained[ms[1]] \o FlattenSeq(q))
      BY <1>4, <1>13, <2>1, <2>4, <2>5, BitsFirst, Zenon
    <2>. QED BY <1>14, <2>2, <2>6
  <1>17. V!FlattenSeq(idParts) = FlattenSeq(idParts) /\ V!FlattenSeq(lossParts) = FlattenSeq(lossParts)
    BY SameFlatten
  <1>18. head \o FlatMap(Rendered, ms) = Told(ms)
    BY DEF Told, head, Opening
  <1>19. LearnedAs(head \o FlatMap(Rendered, ms), zeros \o FlatMap(Trained, ms))
    BY <1>1, <1>3, LearnedAll DEF zeros
  <1>. QED BY <1>15, <1>16, <1>17, <1>18, <1>19 DEF idParts, lossParts, each

LEMMA LastTokens ==
    ASSUME NEW S, NEW s \in Seq(S), NEW n \in Nat, n < Len(s)
    PROVE  /\ V!LastOf(s, n) \in Seq(S) /\ Len(V!LastOf(s, n)) = n
           /\ \A t \in 1 .. n : V!LastOf(s, n)[t] = s[t + (Len(s) - n)]
  <1>. DEFINE l == Len(s)
              m == (l - n) + 1
  <1>1. l \in Nat /\ m \in Int /\ l \in Int /\ 1 <= m /\ l - m + 1 = n /\ (m <= l <=> n > 0)
    BY LenProperties
  <1>2. \A i \in m .. l : s[i] \in S
    <2>1. \A i \in 1 .. l : s[i] \in S
      BY ElementOfSeq
    <2>2. \A i \in m .. l : i \in 1 .. l
      BY <1>1
    <2>. QED BY <2>1, <2>2, Zenon
  <1>3. V!LastOf(s, n) = SubSeq(s, m, l)
    <2>1. ~ n >= Len(s)
      BY <1>1
    <2>. QED BY <2>1 DEF V!LastOf, V!From
  <1>4. \A t \in 1 .. n : m + t - 1 = t + (l - n)
    BY <1>1
  <1>. HIDE DEF m, l
  <1>5. /\ SubSeq(s, m, l) \in Seq(S) /\ Len(SubSeq(s, m, l)) = IF m <= l THEN l - m + 1 ELSE 0
        /\ \A i \in 1 .. l - m + 1 : SubSeq(s, m, l)[i] = s[m + i - 1]
    BY <1>1, <1>2, SubSeqProperties
  <1>6. Len(SubSeq(s, m, l)) = n
    BY <1>1, <1>5
  <1>7. \A t \in 1 .. n : SubSeq(s, m, l)[t] = s[t + (l - n)]
    <2>1. \A t \in 1 .. n : SubSeq(s, m, l)[t] = s[m + t - 1]
      BY <1>1, <1>5
    <2>. QED BY <1>4, <2>1, Zenon
  <1>. QED BY <1>3, <1>5, <1>6, <1>7 DEF l

Joined(both, s, t) ==
    /\ Len(both) = Len(s) + Len(t)
    /\ \A i \in 1 .. Len(s) : both[i] = s[i]
    /\ \A i \in 1 .. Len(t) : both[Len(s) + i] = t[i]
LEMMA JoinedIs ==
    ASSUME NEW S
    PROVE  \A s, t \in Seq(S) : s \o t \in Seq(S) /\ Joined(s \o t, s, t)
  BY Concatenated DEF Joined

\* A sequence followed by others of one kind.
PaddedAs(p, s, n, x) ==
    /\ DOMAIN p = 1 .. n /\ Len(p) = n
    /\ \A t \in 1 .. n : p[t] = IF t <= Len(s) THEN s[t] ELSE x
LEMMA PaddedTokens ==
    ASSUME NEW S, NEW s \in Seq(S), NEW x \in S, NEW n \in Nat, Len(s) <= n
    PROVE  PaddedAs(V!PadTo(s, n, x), s, n, x) /\ V!PadTo(s, n, x) \in Seq(S)
  <1>. DEFINE l == Len(s)
              more == V!Repeat(x, n - Len(s))
              both == s \o more
  <1>1. l \in Nat /\ n - l \in Nat
    BY LenProperties
  <1>2. more \in Seq(S) /\ Len(more) = n - l /\ \A i \in 1 .. n - l : more[i] = x
    BY <1>1, RepeatIs
  <1>3. V!PadTo(s, n, x) = both
    BY DEF V!PadTo
  <1>. HIDE DEF more
  <1>4. both \in Seq(S) /\ Joined(both, s, more)
    BY <1>2, JoinedIs, Zenon
  <1>5. Len(s) = l
    OBVIOUS
  <1>. HIDE DEF both, l
  <1>6. /\ Len(both) = l + Len(more)
        /\ \A i \in 1 .. l : both[i] = s[i]
        /\ \A i \in 1 .. Len(more) : both[l + i] = more[i]
    BY <1>4, <1>5, Zenon DEF Joined
  <1>7. ASSUME NEW t \in 1 .. n PROVE both[t] = IF t <= l THEN s[t] ELSE x
    <2>1. CASE t <= l
      <3>1. t \in 1 .. l
        BY <1>1, <2>1
      <3>. QED BY <1>6, <2>1, <3>1
    <2>2. CASE ~ t <= l
      <3>1. t - l \in 1 .. n - l /\ l + (t - l) = t
        BY <1>1, <2>2
      <3>2. both[l + (t - l)] = more[t - l]
        BY <1>2, <1>6, <3>1
      <3>. QED BY <1>2, <2>2, <3>1, <3>2
    <2>. QED BY <2>1, <2>2
  <1>8. Len(both) = n /\ DOMAIN both = 1 .. n
    <2>1. Len(both) = n
      BY <1>1, <1>2, <1>6
    <2>. QED BY <1>4, <2>1, LenProperties
  <1>. QED BY <1>3, <1>4, <1>5, <1>7, <1>8 DEF PaddedAs

\* A sequence of a sample, cut or padded to the length of all samples.
Fitted(c, s, x) ==
    IF Len(s) > c.max THEN V!Cut(s, c.max, c.truncation)
    ELSE IF c.pad = "right" THEN V!PadTo(s, c.max, x) ELSE s
Shift(c, n) == IF c.truncation = "left" /\ n > c.max THEN n - c.max ELSE 0

FittedAs(f, c, s, x) ==
    /\ DOMAIN f = 1 .. c.max /\ Len(f) = c.max
    /\ \A t \in 1 .. c.max : f[t] =
            IF t + Shift(c, Len(s)) > Len(s) THEN x ELSE s[t + Shift(c, Len(s))]

LEMMA FittedIs ==
    ASSUME NEW c, c.max \in Nat, c.pad = "right", NEW S, NEW s \in Seq(S), NEW x \in S
    PROVE  FittedAs(Fitted(c, s, x), c, s, x) /\ Fitted(c, s, x) \in Seq(S)
  <1>. DEFINE n == c.max
              l == Len(s)
  <1>1. n \in Nat /\ l \in Nat
    BY LenProperties
  <1>2. CASE l > n /\ c.truncation = "left"
    <2>. DEFINE f == V!LastOf(s, n)
    <2>1. Fitted(c, s, x) = f /\ Shift(c, l) = l - n
      BY <1>1, <1>2 DEF Fitted, Shift, V!Cut
    <2>2. n < Len(s)
      BY <1>1, <1>2
    <2>3. f \in Seq(S) /\ Len(f) = n /\ \A t \in 1 .. n : f[t] = s[t + (Len(s) - n)]
      BY <1>1, <2>2, LastTokens
    <2>4. \A t \in 1 .. n : ~ t + (l - n) > l
      BY <1>1
    <2>. HIDE DEF f
    <2>5. DOMAIN f = 1 .. n
      BY <2>3, LenProperties
    <2>. QED BY <2>1, <2>3, <2>4, <2>5 DEF FittedAs
  <1>3. CASE l > n /\ c.truncation # "left"
    <2>. DEFINE f == V!Upto(s, n)
    <2>1. Fitted(c, s, x) = f /\ Shift(c, l) = 0
      BY <1>1, <1>3 DEF Fitted, Shift, V!Cut
    <2>2. f \in Seq(S) /\ Len(f) = (IF n < Len(s) THEN n ELSE Len(s)) /\ \A t \in 1 .. Len(f) : f[t] = s[t]
      BY <1>1, FirstTokens
    <2>. HIDE DEF f
    <2>3. \A t \in 1 .. n : ~ t + 0 > l /\ t + 0 = t
      BY <1>1, <1>3
    <2>4. Len(f) = n
      BY <1>1, <1>3, <2>2
    <2>5. DOMAIN f = 1 .. n
      BY <2>2, <2>4, LenProperties
    <2>. QED BY <2>1, <2>2, <2>3, <2>4, <2>5 DEF FittedAs
  <1>4. CASE ~ l > n
    <2>. DEFINE f == V!PadTo(s, n, x)
    <2>1. Fitted(c, s, x) = f /\ Shift(c, l) = 0 /\ Len(s) <= n
      BY <1>1, <1>4 DEF Fitted, Shift
    <2>2. PaddedAs(f, s, n, x) /\ f \in Seq(S)
      BY <1>1, <2>1, PaddedTokens
    <2>. HIDE DEF f
    <2>3. \A t \in 1 .. n : t + 0 = t /\ (t + 0 > l <=> ~ t <= Len(s))
      BY <1>1
    <2>. QED BY <2>1, <2>2, <2>3 DEF FittedAs, PaddedAs
  <1>. QED BY <1>2, <1>3, <1>4

TokensOrPad == Words \cup {V!Pad}
LEMMA SequencesFit ==
    ASSUME NEW c, c.max \in Nat, c.pad = "right"
    PROVE  /\ \A s \in Seq(TokensOrPad) : FittedAs(Fitted(c, s, V!Pad), c, s, V!Pad)
           /\ \A s \in Seq(Nat) : FittedAs(Fitted(c, s, 0), c, s, 0)
  <1>1. V!Pad \in TokensOrPad
    BY DEF TokensOrPad
  <1>. QED BY <1>1, FittedIs

\* A sample of several turns, made of its tokens and what is learned of them.
TurnsMade(c, ids, loss) ==
    IF c.pad = "right" /\ Len(ids) > c.max /\ c.truncation = "error" THEN V!Failed
    ELSE IF c.pad = "right"
    THEN [ids |-> Fitted(c, ids, V!Pad), attention |-> Fitted(c, V!Repeat(1, Len(ids)), 0),
          loss |-> Fitted(c, loss, 0), positions |-> Fitted(c, [i \in DOMAIN ids |-> i - 1], 0)]
    ELSE [ids |-> V!Upto(ids, c.max), attention |-> <<>>, loss |-> V!Upto(loss, c.max),
          positions |-> V!Upto([i \in DOMAIN ids |-> i - 1], c.max)]

LEMMA MultiTurnIs ==
    ASSUME NEW c, NEW ms \in Talk, ms[1].role # "assistant"
    PROVE  \E loss : LearnedAs(Told(ms), loss) /\ V!MultiTurnItem(c, ms) = TurnsMade(c, Told(ms), loss)
  <1>. DEFINE each == [i \in DOMAIN ms |-> V!ProcessSingleMessage(i, ms[i])]
              ids == V!FlattenSeq([i \in DOMAIN each |-> each[i].ids])
              loss == V!FlattenSeq([i \in DOMAIN each |-> each[i].loss])
  <1>1. ids = Told(ms) /\ LearnedAs(ids, loss)
    BY TurnsAre
  <1>2. V!ChatTemplate(ms, FALSE) = Told(ms)
    BY TemplateIs
  <1>3. V!MultiTurnItem(c, ms) =
          IF \/ ids # V!ChatTemplate(ms, FALSE) /\ ~ c.ignoreMismatch
             \/ c.pad = "right" /\ Len(ids) > c.max /\ c.truncation = "error"
          THEN V!Failed
          ELSE IF c.pad = "right"
          THEN [ids |-> Fitted(c, ids, V!Pad), attention |-> Fitted(c, V!Repeat(1, Len(ids)), 0),
                loss |-> Fitted(c, loss, 0), positions |-> Fitted(c, [i \in DOMAIN ids |-> i - 1], 0)]
          ELSE [ids |-> V!Upto(ids, c.max), attention |-> <<>>, loss |-> V!Upto(loss, c.max),
                positions |-> V!Upto([i \in DOMAIN ids |-> i - 1], c.max)]
    BY Zenon DEF V!MultiTurnItem, Fitted
  <1>. HIDE DEF ids, loss
  <1>4. V!MultiTurnItem(c, ms) = TurnsMade(c, ids, loss)
    BY <1>1, <1>2, <1>3, Zenon DEF TurnsMade
  <1>. QED BY <1>1, <1>4, Zenon

LEMMA OnesAndPositions ==
    ASSUME NEW n \in Nat
    PROVE  LET ones == V!Repeat(1, n)
               positions == [i \in 1 .. n |-> i - 1]
           IN  /\ ones \in Seq(Nat) /\ Len(ones) = n /\ \A i \in 1 .. n : ones[i] = 1
               /\ positions \in Seq(Nat) /\ Len(positions) = n /\ \A i \in 1 .. n : positions[i] = i - 1
  <1>. DEFINE positions == [i \in 1 .. n |-> i - 1]
  <1>1. positions \in [1 .. n -> Nat] /\ \A i \in 1 .. n : positions[i] = i - 1
    OBVIOUS
  <1>. HIDE DEF positions
  <1>2. positions \in Seq(Nat) /\ Len(positions) = n
    BY <1>1, LengthOfFunction
  <1>3. /\ V!Repeat(1, n) \in Seq(Nat) /\ Len(V!Repeat(1, n)) = n
        /\ \A i \in 1 .. n : V!Repeat(1, n)[i] = 1
    BY RepeatIs
  <1>. QED BY <1>1, <1>2, <1>3 DEF positions

LEMMA NotFailed ==
    ASSUME NEW a, NEW b, NEW d, NEW e
    PROVE  [ids |-> a, attention |-> b, loss |-> d, positions |-> e] # V!Failed
  <1>. SUFFICES ASSUME [ids |-> a, attention |-> b, loss |-> d, positions |-> e] = V!Failed PROVE FALSE
    OBVIOUS
  <1>1. DOMAIN [ids |-> a, attention |-> b, loss |-> d, positions |-> e] = DOMAIN V!Failed
    OBVIOUS
  <1>. QED BY <1>1 DEF V!Failed

LEMMA TurnsAreTrue ==
    ASSUME NEW c, c.max \in Nat, NEW ms \in Talk, ms[1].role # "assistant"
    PROVE  TurnsTrue(c, ms)
  <1>. DEFINE all == Told(ms)
              n == Len(all)
              shift == Shift(c, n)
              ones == V!Repeat(1, n)
              positions == [i \in 1 .. n |-> i - 1]
  <1>1. V!ChatTemplate(ms, FALSE) = all
    BY TemplateIs
  <1>2. PICK loss : LearnedAs(all, loss) /\ V!MultiTurnItem(c, ms) = TurnsMade(c, all, loss)
    BY MultiTurnIs
  <1>3. all \in Seq(Words) /\ loss \in Seq({0, 1}) /\ Len(loss) = n /\ n \in Nat /\ DOMAIN all = 1 .. n
        /\ \A t \in 1 .. n : (loss[t] = 1) <=> Learned(all, t)
    BY <1>2, LenProperties DEF LearnedAs
  <1>4. /\ ones \in Seq(Nat) /\ Len(ones) = n /\ \A i \in 1 .. n : ones[i] = 1
        /\ positions \in Seq(Nat) /\ Len(positions) = n /\ \A i \in 1 .. n : positions[i] = i - 1
    BY <1>3, OnesAndPositions
  <1>5. [i \in DOMAIN all |-> i - 1] = positions
    BY <1>3
  <1>6. loss \in Seq(Nat) /\ all \in Seq(TokensOrPad)
    BY <1>3 DEF TokensOrPad
  <1>7. n > c.max /\ c.truncation = "left" => shift = n - c.max
    BY DEF Shift
  <1>8. ~ (n > c.max /\ c.truncation = "left") => shift = 0
    BY DEF Shift
  <1>9. shift \in Nat
    BY <1>3, <1>7, <1>8
  <1>. DEFINE TrueOf(item, sh) ==
                IF item = V!Failed THEN c.truncation = "error" /\ n > c.max
                ELSE /\ c.pad = "right" => Len(item.ids) = c.max
                     /\ \A t \in DOMAIN item.ids :
                         IF t + sh > n
                         THEN item.ids[t] = V!Pad /\ item.loss[t] = 0 /\ item.attention[t] = 0
                         ELSE /\ item.ids[t] = all[t + sh] /\ item.positions[t] = t + sh - 1
                              /\ (item.loss[t] = 1) = Learned(all, t + sh)
  <1>10. SUFFICES TrueOf(TurnsMade(c, all, loss), IF c.pad = "right" THEN shift ELSE 0)
    <2>1. (IF c.pad = "right" /\ c.truncation = "left" /\ n > c.max THEN n - c.max ELSE 0)
            = IF c.pad = "right" THEN shift ELSE 0
      BY DEF Shift
    <2>. HIDE DEF shift, n
    <2>2. \A item \in {V!MultiTurnItem(c, ms)} : item = TurnsMade(c, all, loss)
      BY <1>2
    <2>. QED BY <1>1, <1>10, <2>1, <2>2, Zenon DEF TurnsTrue, n
  <1>. HIDE DEF all, n, shift, ones, positions
  <1>11. CASE c.pad = "right" /\ n > c.max /\ c.truncation = "error"
    <2>1. TurnsMade(c, all, loss) = V!Failed
      BY <1>11 DEF TurnsMade, n
    <2>. QED BY <1>11, <2>1
  <1>12. CASE c.pad = "right" /\ ~ (n > c.max /\ c.truncation = "error")
    <2>. DEFINE ids == Fitted(c, all, V!Pad)
                attention == Fitted(c, ones, 0)
                learned == Fitted(c, loss, 0)
                places == Fitted(c, positions, 0)
                made == [ids |-> ids, attention |-> attention, loss |-> learned, positions |-> places]
    <2>1. TurnsMade(c, all, loss) = made
      BY <1>5, <1>12 DEF TurnsMade, n, ones
    <2>2. /\ FittedAs(ids, c, all, V!Pad) /\ FittedAs(attention, c, ones, 0)
          /\ FittedAs(learned, c, loss, 0) /\ FittedAs(places, c, positions, 0)
      BY <1>4, <1>6, <1>12, SequencesFit
    <2>3. made # V!Failed
      BY NotFailed
    <2>. HIDE DEF ids, attention, learned, places
    <2>4. /\ made.ids = ids /\ made.attention = attention /\ made.loss = learned
          /\ made.positions = places
      OBVIOUS
    <2>. HIDE DEF made
    <2>5. /\ DOMAIN ids = 1 .. c.max /\ Len(ids) = c.max
          /\ \A t \in 1 .. c.max : ids[t] = IF t + shift > n THEN V!Pad ELSE all[t + shift]
      BY <2>2 DEF FittedAs, shift, n
    <2>6. /\ \A t \in 1 .. c.max : attention[t] = IF t + shift > n THEN 0 ELSE ones[t + shift]
          /\ \A t \in 1 .. c.max : learned[t] = IF t + shift > n THEN 0 ELSE loss[t + shift]
          /\ \A t \in 1 .. c.max : places[t] = IF t + shift > n THEN 0 ELSE positions[t + shift]
      BY <1>3, <1>4, <2>2 DEF FittedAs, shift
    <2>7. ASSUME NEW t \in 1 .. c.max
          PROVE  IF t + shift > n
                 THEN made.ids[t] = V!Pad /\ made.loss[t] = 0 /\ made.attention[t] = 0
                 ELSE /\ made.ids[t] = all[t + shift] /\ made.positions[t] = t + shift - 1
                      /\ (made.loss[t] = 1) = Learned(all, t + shift)
      <3>1. CASE t + shift > n
        BY <2>4, <2>5, <2>6, <3>1
      <3>2. CASE ~ t + shift > n
        <4>1. t + shift \in 1 .. n
          BY <1>3, <1>9, <3>2
        <4>2. (loss[t + shift] = 1) = Learned(all, t + shift)
          <5>1. (loss[t + shift] = 1) <=> Learned(all, t + shift)
            BY <1>3, <4>1
          <5>2. Learned(all, t + shift) \in BOOLEAN
            BY DEF Learned
          <5>. QED BY <5>1, <5>2
        <4>3. made.loss[t] = loss[t + shift] /\ made.ids[t] = all[t + shift]
              /\ made.positions[t] = positions[t + shift]
          BY <2>4, <2>5, <2>6, <3>2
        <4>4. made.positions[t] = t + shift - 1
          <5>1. positions[t + shift] = (t + shift) - 1
            BY <1>4, <4>1
          <5>. QED BY <1>9, <4>3, <5>1
        <4>5. (made.loss[t] = 1) = Learned(all, t + shift)
          BY <4>2, <4>3
        <4>. QED BY <3>2, <4>3, <4>4, <4>5
      <3>. QED BY <3>1, <3>2
    <2>. QED BY <1>12, <2>1, <2>3, <2>4, <2>5, <2>7
  <1>13. CASE c.pad # "right"
    <2>. DEFINE ids == V!Upto(all, c.max)
                learned == V!Upto(loss, c.max)
                places == V!Upto(positions, c.max)
                made == [ids |-> ids, attention |-> <<>>, loss |-> learned, positions |-> places]
                m == IF c.max < n THEN c.max ELSE n
    <2>1. TurnsMade(c, all, loss) = made
      BY <1>5, <1>13 DEF TurnsMade
    <2>2. /\ ids \in Seq(Words) /\ Len(ids) = m /\ \A t \in 1 .. m : t \in 1 .. n /\ ids[t] = all[t]
      BY <1>3, FirstTokens DEF n
    <2>3. Len(learned) = m /\ \A t \in 1 .. m : learned[t] = loss[t]
      BY <1>3, FirstTokens
    <2>4. Len(places) = m /\ \A t \in 1 .. m : places[t] = positions[t]
      BY <1>4, FirstTokens
    <2>5. made # V!Failed
      BY NotFailed
    <2>. HIDE DEF ids, learned, places, m
    <2>6. made.ids = ids /\ made.loss = learned /\ made.positions = places
      OBVIOUS
    <2>. HIDE DEF made
    <2>7. DOMAIN ids = 1 .. m
      BY <2>2, LenProperties
    <2>8. ASSUME NEW t \in 1 .. m
          PROVE  /\ ~ t + 0 > n
                 /\ made.ids[t] = all[t + 0] /\ made.positions[t] = t + 0 - 1
                 /\ (made.loss[t] = 1) = Learned(all, t + 0)
      <3>1. t \in 1 .. n /\ t + 0 = t /\ n \in Nat
        BY <1>3, <2>2
      <3>2. (loss[t] = 1) = Learned(all, t)
        <4>1. (loss[t] = 1) <=> Learned(all, t)
          BY <1>3, <3>1
        <4>2. Learned(all, t) \in BOOLEAN
          BY DEF Learned
        <4>. QED BY <4>1, <4>2
      <3>. QED BY <1>4, <2>2, <2>3, <2>4, <2>6, <3>1, <3>2
    <2>. QED BY <1>13, <2>1, <2>5, <2>6, <2>7, <2>8
  <1>. QED BY <1>11, <1>12, <1>13

-----------------------------------------------------------------------------
(***************************************************************************)
(* Samples of one answer (SFTDataset).                                     *)
(***************************************************************************)
\* A mask that lets the first k tokens through.
LEMMA FirstPositions ==
    ASSUME NEW mask, NEW n \in Nat, DOMAIN mask = 1 .. n, NEW k \in Nat, k <= n,
           \A i \in 1 .. k : mask[i] = 1
    PROVE  \A i \in 1 .. k : V!PositionIds(mask)[i] = i - 1
  <1>1. ASSUME NEW i \in 1 .. k
        PROVE  Cardinality({j \in 1 .. i : mask[j] = 1}) = i
    <2>1. {j \in 1 .. i : mask[j] = 1} = 1 .. i
      OBVIOUS
    <2>2. Cardinality(1 .. i) = i
      BY FS_Interval
    <2>. QED BY <2>1, <2>2
  <1>. DEFINE At(i) == LET c == Cardinality({j \in 1 .. i : mask[j] = 1}) IN IF c = 0 THEN 0 ELSE c - 1
  <1>2. \A i \in 1 .. k : At(i) = i - 1
    BY <1>1
  <1>3. V!PositionIds(mask) = [i \in DOMAIN mask |-> At(i)]
    BY SameCardinality, Zenon DEF V!PositionIds
  <1>. HIDE DEF At
  <1>4. \A i \in 1 .. k : i \in DOMAIN mask
    OBVIOUS
  <1>. QED BY <1>2, <1>3, <1>4

LEMMA PadIsNoWord == V!Pad \notin Words
  BY DEF V!Pad, Words, Kinds

\* The tokens of a question and its answer, as many as there are in a sample.
FilledAs(ids, all, n) ==
    /\ DOMAIN ids = 1 .. n /\ Len(ids) = n
    /\ \A t \in 1 .. n : ids[t] = IF t <= Len(all) THEN all[t] ELSE V!Pad
LEMMA AnswerFills ==
    ASSUME NEW all \in Seq(Words), NEW n \in Nat, NEW c, c.max = n, c.truncation # "left"
    PROVE  FilledAs(IF Len(all) > n THEN V!Cut(all, n, c.truncation) ELSE V!PadTo(all, n, V!Pad), all, n)
  <1>1. Len(all) \in Nat
    BY LenProperties
  <1>2. CASE Len(all) > n
    <2>. DEFINE f == V!Upto(all, n)
    <2>1. V!Cut(all, n, c.truncation) = f
      BY DEF V!Cut
    <2>2. f \in Seq(Words) /\ Len(f) = n /\ \A t \in 1 .. n : f[t] = all[t]
      BY <1>1, <1>2, FirstTokens
    <2>. HIDE DEF f
    <2>3. DOMAIN f = 1 .. n /\ \A t \in 1 .. n : t <= Len(all)
      BY <1>1, <1>2, <2>2, LenProperties
    <2>. QED BY <1>2, <2>1, <2>2, <2>3 DEF FilledAs
  <1>3. CASE ~ Len(all) > n
    <2>1. V!Pad \in TokensOrPad /\ all \in Seq(TokensOrPad) /\ Len(all) <= n
      BY <1>1, <1>3 DEF TokensOrPad
    <2>2. PaddedAs(V!PadTo(all, n, V!Pad), all, n, V!Pad)
      BY <2>1, PaddedTokens
    <2>. QED BY <1>3, <2>2 DEF FilledAs, PaddedAs
  <1>. QED BY <1>2, <1>3

LEMMA QuestionAndAnswer ==
    ASSUME NEW question \in Messages, NEW answer \in Messages
    PROVE  LET prompt == V!ChatTemplate(<<question>>, TRUE)
               response == V!Content(answer) \o <<V!End>>
           IN  /\ prompt \in Seq(Words) /\ Len(prompt) \in Nat /\ Len(prompt) > 1
               /\ prompt \o response \in Seq(Words)
               /\ prompt \o V!Content(answer) \o <<V!End>> = prompt \o response
               /\ Len(prompt \o response) = Len(prompt) + answer.images + answer.text + 1
  <1>. DEFINE prompt == V!ChatTemplate(<<question>>, TRUE)
              content == V!Content(answer)
              told == Told(<<question>>)
              end == <<V!End>>
  <1>1. <<question>> \in Talk
    BY DEF Talk
  <1>2. prompt = told \o <<ToAnswer>> /\ told \in Seq(Words)
    BY <1>1, TemplateIs
  <1>3. Len(told) \in Nat \ {0}
    BY <1>1, ToldStarts
  <1>4. <<ToAnswer>> \in Seq(Words) /\ Len(<<ToAnswer>>) = 1
    BY ManyWords
  <1>5. end \in Seq(Words) /\ Len(end) = 1
    BY WordFacts
  <1>6. content \in Seq(Words) /\ Len(content) = answer.images + answer.text
    BY ContentIs
  <1>7. answer.images \in Nat /\ answer.text \in Nat
    BY DEF Messages
  <1>. HIDE DEF content, end, told
  <1>8. prompt \in Seq(Words) /\ Len(prompt) = Len(told) + 1
    <2>1. told \o <<ToAnswer>> \in Seq(Words) /\ Len(told \o <<ToAnswer>>) = Len(told) + Len(<<ToAnswer>>)
      BY <1>2, <1>4, WordsConcatenated, Zenon
    <2>. QED BY <1>2, <1>4, <2>1, Zenon
  <1>. HIDE DEF prompt
  <1>9. content \o end \in Seq(Words) /\ Len(content \o end) = Len(content) + 1
    <2>1. content \o end \in Seq(Words) /\ Len(content \o end) = Len(content) + Len(end)
      BY <1>5, <1>6, WordsConcatenated, Zenon
    <2>. QED BY <1>5, <2>1, Zenon
  <1>10. /\ prompt \o (content \o end) \in Seq(Words)
         /\ Len(prompt \o (content \o end)) = Len(prompt) + Len(content \o end)
    BY <1>8, <1>9, WordsConcatenated
  <1>11. (prompt \o content) \o end = prompt \o (content \o end)
    BY <1>5, <1>6, <1>8, WordsAssociate
  <1>12. Len(prompt) \in Nat /\ Len(prompt) > 1
    BY <1>3, <1>8
  <1>13. Len(prompt \o (content \o end)) = Len(prompt) + answer.images + answer.text + 1
    BY <1>6, <1>7, <1>9, <1>10, <1>12
  <1>. QED BY <1>8, <1>10, <1>11, <1>12, <1>13 DEF prompt, content, end

LEMMA AnswerIsTrue ==
    ASSUME NEW c, c.max \in Nat, NEW question \in Messages, NEW answer \in Messages, answer.images = 0
    PROVE  AnswerTrue(c, question, answer)
  <1>. DEFINE prompt == V!ChatTemplate(<<question>>, TRUE)
              response == V!Content(answer) \o <<V!End>>
              all == prompt \o response
              n == c.max
              ids == IF Len(all) > n THEN V!Cut(all, n, c.truncation) ELSE V!PadTo(all, n, V!Pad)
              attention == [i \in DOMAIN ids |-> IF ids[i] = V!Pad THEN 0 ELSE 1]
              positions == V!PositionIds(attention)
              Capped(k) == IF k < n THEN k ELSE n
              p == Len(prompt)
              l == Len(all)
              loss == [i \in DOMAIN ids |->
                        IF \/ p > 1 /\ i < Capped(p)
                           \/ i = Capped(l)
                        THEN 0 ELSE attention[i]]
              item == [ids |-> ids, attention |-> attention, loss |-> loss, positions |-> positions]
              first == l - answer.text
  <1>1. V!SftItem(c, question, answer) = IF l > n /\ c.truncation = "error" THEN V!Failed ELSE item
    BY DEF V!SftItem
  <1>2. /\ p \in Nat /\ p > 1 /\ all \in Seq(Words)
        /\ prompt \o V!Content(answer) \o <<V!End>> = all
        /\ l = p + answer.images + answer.text + 1
    BY QuestionAndAnswer
  <1>3. answer.text \in Nat /\ l \in Nat /\ first = p + 1 /\ n \in Nat
    <2>1. answer.text \in Nat
      BY DEF Messages
    <2>. HIDE DEF p, l, n
    <2>2. l = p + 0 + answer.text + 1
      BY <1>2
    <2>3. l \in Nat /\ l - answer.text = p + 1
      BY <1>2, <2>1, <2>2
    <2>. QED BY <2>1, <2>3 DEF n
  <1>4. item # V!Failed
    BY NotFailed
  <1>5. CASE l > n /\ c.truncation = "error"
    <2>1. V!SftItem(c, question, answer) = V!Failed
      BY <1>1, <1>5
    <2>. QED BY <1>2, <1>5, <2>1 DEF AnswerTrue
  <1>6. CASE ~ (l > n /\ c.truncation = "error") /\ c.truncation = "left"
    <2>1. V!SftItem(c, question, answer) # V!Failed
      BY <1>1, <1>4, <1>6
    <2>. QED BY <1>6, <2>1 DEF AnswerTrue
  <1>7. CASE ~ (l > n /\ c.truncation = "error") /\ c.truncation # "left"
    <2>1. V!SftItem(c, question, answer) = item
      BY <1>1, <1>7
    <2>2. FilledAs(ids, all, n)
      BY <1>2, <1>3, <1>7, AnswerFills
    <2>. HIDE DEF ids, all, prompt, response
    <2>3. item.ids = ids /\ item.loss = loss /\ item.positions = positions
      OBVIOUS
    <2>4. /\ DOMAIN ids = 1 .. n /\ Len(ids) = n
          /\ \A t \in 1 .. n : ids[t] = IF t <= l THEN all[t] ELSE V!Pad
      BY <2>2 DEF FilledAs
    <2>5. \A t \in 1 .. n : attention[t] = IF t <= l THEN 1 ELSE 0
      <3>1. ASSUME NEW t \in 1 .. n, t <= l PROVE ids[t] # V!Pad
        <4>1. all[t] \in Words
          <5>1. t \in 1 .. l
            BY <1>3, <3>1
          <5>. HIDE DEF n
          <5>. QED BY <1>2, <5>1, ElementOfSeq
        <4>. QED BY <2>4, <3>1, <4>1, PadIsNoWord
      <3>. QED BY <2>4, <3>1
    <2>6. DOMAIN attention = 1 .. n
      BY <2>4
    <2>7. \A t \in 1 .. n : loss[t] = IF (p > 1 /\ t < Capped(p)) \/ t = Capped(l) THEN 0 ELSE attention[t]
      BY <2>4
    <2>. HIDE DEF attention, loss, item, p, l, n, first
    <2>8. \A i \in 1 .. Capped(l) : positions[i] = i - 1
      <3>1. Capped(l) \in Nat /\ Capped(l) <= n /\ \A i \in 1 .. Capped(l) : i \in 1 .. n /\ i <= l
        BY <1>3
      <3>2. \A i \in 1 .. Capped(l) : attention[i] = 1
        BY <2>5, <3>1
      <3>. HIDE DEF Capped
      <3>. QED BY <1>3, <2>6, <3>1, <3>2, FirstPositions
    <2>. HIDE DEF positions
    <2>9. ASSUME NEW t \in 1 .. n
          PROVE  /\ (loss[t] = 1) <=> (first <= t + 1 /\ t + 1 <= l /\ t + 1 <= n)
                 /\ loss[t] = 1 => positions[t + 1] = positions[t] + 1
      <3>1. (loss[t] = 1) <=> (first <= t + 1 /\ t + 1 <= l /\ t + 1 <= n)
        BY <1>2, <1>3, <2>5, <2>7
      <3>2. ASSUME loss[t] = 1 PROVE positions[t + 1] = positions[t] + 1
        <4>1. t + 1 <= l /\ t + 1 <= n
          BY <3>1, <3>2
        <4>2. t \in 1 .. Capped(l) /\ t + 1 \in 1 .. Capped(l)
          BY <1>3, <4>1
        <4>3. positions[t] = t - 1 /\ positions[t + 1] = (t + 1) - 1
          BY <2>8, <4>2
        <4>. QED BY <4>3
      <3>. QED BY <3>1, <3>2
    <2>10. \A t \in 1 .. n :
              /\ (loss[t] = 1) = (first <= t + 1 /\ t + 1 <= l /\ t + 1 <= n)
              /\ loss[t] = 1 => positions[t + 1] = positions[t] + 1
      BY <2>9
    <2>11. item # V!Failed /\ Len(ids) = n
      BY <1>4, <2>4
    <2>. QED BY <1>2, <1>7, <2>1, <2>3, <2>4, <2>10, <2>11, Zenon DEF AnswerTrue, n, first, l, all, prompt, response
  <1>. QED BY <1>5, <1>6, <1>7
=============================================================================
