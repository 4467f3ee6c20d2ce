---------------------------- MODULE TrainStepProofs ----------------------------
(***************************************************************************)
(* Theorems about TrainStep, for every size of the batch, every            *)
(* configuration and every order balancing may choose.                     *)
(*                                                                         *)
(* The argument follows the table: once the responses are merged, every    *)
(* sample has exactly one row, and each later column is computed from the  *)
(* row it stands in.                                                       *)
(***************************************************************************)
EXTENDS TrainStep, FiniteSetTheorems, TLAPS

-----------------------------------------------------------------------------
(***************************************************************************)
(* The inductive invariant.                                                *)
(***************************************************************************)
\* The sample a row of a table is about.
SampleIn(table, k) == TheOne(table["responses"][k].from)

\* Every sample has one row.
OneRowEach(table) ==
    /\ {"uid", "responses"} \subseteq DOMAIN table
    /\ \A k \in Rows : /\ SampleIn(table, k) \in Samples
                       /\ table["responses"][k].from = {SampleIn(table, k)}
    /\ \A j, k \in Rows : SampleIn(table, j) = SampleIn(table, k) => j = k
    /\ \A s \in Samples : \E k \in Rows : SampleIn(table, k) = s

\* What a cell of a column says of the sample s of its row.
Speaks(c, cell, s) ==
    CASE c \in {"uid", "reward_baselines"} -> cell.from = {<<s[1], 0>>}
      [] c = "advantages" ->
            /\ s \in cell.from
            /\ cell.from \subseteq SamplesOf(s[1])
            /\ config.estimator = "grpo" => cell.from = SamplesOf(s[1])
      [] OTHER -> cell.from = {s}

Aligned(table) ==
    \A c \in DOMAIN table, k \in Rows : Speaks(c, table[c][k], SampleIn(table, k))

TableInv == Merged => OneRowEach(batch) /\ Aligned(batch)

\* Before that the batch has a row per prompt, and the responses are apart.
RolloutInv ==
    /\ pc \in {"generate", "baseline", "merge"} =>
        /\ "uid" \in DOMAIN batch /\ DOMAIN batch \subseteq {"uid", "reward_baselines"}
        /\ \A c \in DOMAIN batch, p \in Prompts : batch[c][p].from = {<<p, 0>>}
    /\ pc \in {"baseline", "merge"} =>
        gen = [c \in GeneratedColumns |->
                [k \in Rows |-> [from |-> {Interleaved(k)}, by |-> actor]]]
    /\ pc = "baseline" => config.estimator = "remax"

\* The weights behind the responses and their log probabilities.
Policy == IF pc = "training" THEN update.start ELSE actor
PolicyColumns == {"responses", "rollout_log_probs", "old_log_probs"}
VersionInv ==
    Merged /\ pc # "end" =>
        \A c \in PolicyColumns \cap DOMAIN batch, k \in Rows : batch[c][k].by = Policy

\* Which columns are there.
ColumnInv ==
    /\ pc \in {"balance", "reward", "old_log_prob"} =>
        ("rollout_log_probs" \in DOMAIN batch <=> config.rolloutLogProbs)
    /\ pc \in {"ref_values", "adv", "teacher", "advantage", "update_critic",
               "update_actor", "training"} => "old_log_probs" \in DOMAIN batch
    /\ pc \in {"update_critic", "update_actor", "training"} =>
        HasAdvantages \/ SkipsAdvantage

\* The reward, which may still be on its way, is that of the row.
OfRows(scores) ==
    /\ scores \in [Rows -> Cell]
    /\ \A k \in Rows : scores[k].from = {SampleOf(k)}
RewardInv ==
    /\ pc \in {"old_log_prob", "ref_values", "adv"} =>
        IF Awaits THEN OfRows(future.value) ELSE OfRows(reward)
    /\ pc \in {"teacher", "advantage"} => OfRows(reward)

ModeInv ==
    /\ bypassed => config.bypass
    /\ missing # {} => ~ config.complete
    /\ free => config.teacher \in {"image", "hint"} /\ ~ config.fallback

\* What the teacher of row k is shown.
RightlyShown(k) ==
    LET others == (good \cap SamplesOf(SampleOf(k)[1])) \ {SampleOf(k)}
    IN IF config.teacher = "demo"
       THEN IF shown[k] = None THEN others = {} ELSE shown[k] \in others
       ELSE /\ shown[k] \in {None, <<SampleOf(k)[1], 0>>}
            /\ shown[k] = None => missing # {}
ShownInv ==
    /\ pc \notin {"advantage", "update_critic", "update_actor", "training",
                  "end", "failed"} => shown = None
    /\ pc \in {"advantage", "update_critic", "update_actor", "training", "end"} =>
        /\ Vopd => shown # None
        /\ shown # None => \A k \in Rows : RightlyShown(k)

UpdateInv ==
    pc = "training" =>
        /\ update.anchors \subseteq {update.start}
        /\ update.epoch >= 1
        /\ OnPolicy => /\ update.mini = 1
                       /\ update.epoch = 1 => actor = update.start

IInv ==
    /\ TypeOK
    /\ TableInv /\ RolloutInv /\ VersionInv /\ ColumnInv /\ RewardInv
    /\ ModeInv /\ ShownInv /\ UpdateInv
    /\ ColumnsAreThere

-----------------------------------------------------------------------------
(***************************************************************************)
(* Lemmas about natural numbers and tables.                                *)
(***************************************************************************)
\* A set of natural numbers has a least element.
LEMMA LeastNatural ==
    ASSUME NEW T, T \subseteq Nat, T # {}
    PROVE  \E m \in T : \A k \in T : m <= k
  <1>. DEFINE Below == {1 .. k : k \in T}
              R == StrictSubsetOrdering(Nat)
  <1>1. IsWellFoundedOn(R, FiniteSubsetsOf(Nat))
    BY FS_StrictSubsetOrderingWellFounded
  <1>2. Below \subseteq FiniteSubsetsOf(Nat)
    <2>. SUFFICES ASSUME NEW k \in T PROVE 1 .. k \in FiniteSubsetsOf(Nat)
      OBVIOUS
    <2>1. k \in Int /\ 1 \in Int
      OBVIOUS
    <2>2. IsFiniteSet(1 .. k)
      BY <2>1, FS_Interval
    <2>. QED BY <2>2 DEF FiniteSubsetsOf
  <1>3. Below # {}
    OBVIOUS
  <1>. HIDE DEF Below, R
  <1>4. PICK B \in Below : \A C \in Below : ~ (<<C, B>> \in R)
    BY <1>1, <1>2, <1>3, WFMin
  <1>. USE DEF Below, R
  <1>5. PICK m \in T : B = 1 .. m
    OBVIOUS
  <1>6. ASSUME NEW k \in T, ~ (m <= k)
        PROVE  FALSE
    <2>1. k \in Nat /\ m \in Nat /\ k < m
      BY <1>6
    <2>2. m \in 1 .. m /\ m \notin 1 .. k
      BY <2>1
    <2>3. 1 .. k \subseteq 1 .. m /\ 1 .. k # 1 .. m
      BY <2>1, <2>2
    <2>4. 1 .. k \in SUBSET Nat /\ 1 .. m \in SUBSET Nat
      BY <2>1
    <2>5. <<1 .. k, 1 .. m>> \in R
      BY <2>3, <2>4 DEF StrictSubsetOrdering
    <2>. QED BY <1>4, <1>5, <2>5
  <1>. QED BY <1>6

LEMMA Sizes ==
    /\ BatchSize \in Nat \ {0} /\ N \in Nat \ {0} /\ DP \in Nat \ {0}
    /\ BatchSize * N \in Nat
  <1>1. BatchSize \in Nat /\ N \in Nat
    BY StepAssumption
  <1>. QED BY <1>1, StepAssumption

\* Rows are numbered prompt by prompt: every sample is that of one row.
LEMMA InterleavedSamples ==
    /\ \A k \in Rows : /\ (k - 1) \div N + 1 \in Prompts
                       /\ Interleaved(k) \in Samples
                       /\ Interleaved(k)[1] = (k - 1) \div N + 1
    /\ \A j, k \in Rows : Interleaved(j) = Interleaved(k) => j = k
    /\ \A s \in Samples : \E k \in Rows : Interleaved(k) = s
  <1>1. ASSUME NEW k \in Rows
        PROVE  /\ (k - 1) \div N \in Nat /\ (k - 1) % N \in 0 .. N - 1
               /\ k - 1 = ((k - 1) \div N) * N + ((k - 1) % N)
               /\ (k - 1) \div N + 1 \in Prompts
    <2>. DEFINE q == (k - 1) \div N
                r == (k - 1) % N
    <2>1. k \in Nat /\ k - 1 \in Nat /\ N \in Nat \ {0} /\ BatchSize \in Nat /\ k <= BatchSize * N
      BY Sizes DEF Rows
    <2>2. q \in Nat /\ r \in 0 .. N - 1 /\ k - 1 = q * N + r
      BY <2>1
    <2>. HIDE DEF q, r
    <2>3. q < BatchSize
      <3>1. CASE q >= BatchSize
        <4>1. (q - BatchSize) \in Nat
          BY <2>1, <2>2, <3>1
        <4>2. (q - BatchSize) * N \in Nat
          BY <2>1, <4>1
        <4>3. q * N >= BatchSize * N
          BY <2>1, <2>2, <4>2
        <4>4. q * N \in Nat /\ BatchSize * N \in Nat
          BY <2>1, <2>2
        <4>5. k - 1 >= q * N /\ k \in Nat
          BY <2>1, <2>2, <4>4
        <4>6. k - 1 >= BatchSize * N
          BY <4>3, <4>4, <4>5
        <4>. QED BY <2>1, <4>4, <4>5, <4>6
      <3>. QED BY <2>1, <2>2, <3>1
    <2>4. q + 1 \in Prompts
      BY <2>1, <2>2, <2>3 DEF Prompts
    <2>. QED BY <2>2, <2>4 DEF q, r
  <1>2. ASSUME NEW k \in Rows
        PROVE  /\ Interleaved(k) \in Samples
               /\ Interleaved(k)[1] = (k - 1) \div N + 1
               /\ Interleaved(k)[2] = ((k - 1) % N) + 1
    <2>1. Interleaved(k) = <<(k - 1) \div N + 1, ((k - 1) % N) + 1>>
      BY DEF Interleaved
    <2>2. ((k - 1) % N) + 1 \in 1 .. N
      BY <1>1, Sizes
    <2>. QED BY <1>1, <2>1, <2>2 DEF Samples
  <1>3. ASSUME NEW j \in Rows, NEW k \in Rows, Interleaved(j) = Interleaved(k)
        PROVE  j = k
    <2>1. (j - 1) \div N = (k - 1) \div N /\ (j - 1) % N = (k - 1) % N
      BY <1>1, <1>2, <1>3, Sizes
    <2>2. j - 1 = k - 1
      BY <1>1, <2>1
    <2>. QED BY <2>2, Sizes DEF Rows
  <1>4. ASSUME NEW s \in Samples
        PROVE  \E k \in Rows : Interleaved(k) = s
    <2>1. PICK p \in Prompts, i \in 1 .. N : s = <<p, i>>
      BY DEF Samples
    <2>2. p \in Nat /\ p - 1 \in Nat /\ p <= BatchSize /\ i \in Nat /\ i - 1 \in 0 .. N - 1
          /\ N \in Nat \ {0} /\ BatchSize \in Nat
      BY Sizes DEF Prompts
    <2>. DEFINE k == (p - 1) * N + i
    <2>3. (p - 1) * N \in Nat /\ (BatchSize - p) * N \in Nat
      BY <2>2
    <2>4. (BatchSize - p) * N + ((p - 1) * N + N) = BatchSize * N
      BY <2>2
    <2>5. k \in Rows
      BY <2>2, <2>3, <2>4, Sizes DEF Rows
    <2>6. k - 1 = (p - 1) * N + (i - 1)
      BY <2>2, <2>3
    <2>7. (k - 1) \div N = p - 1 /\ (k - 1) % N = i - 1
      BY <2>2, <2>6
    <2>8. Interleaved(k) = <<p, i>>
      BY <2>2, <2>7 DEF Interleaved
    <2>. QED BY <2>1, <2>5, <2>8
  <1>. QED BY <1>1, <1>2, <1>3, <1>4

\* union with a new column.
LEMMA WithColumn ==
    ASSUME NEW table, NEW name, NEW column
    PROVE  /\ DOMAIN With(table, name, column) = DOMAIN table \cup {name}
           /\ With(table, name, column)[name] = column
           /\ \A c \in DOMAIN table : c # name => With(table, name, column)[c] = table[c]
  BY DEF With

\* An order of balancing takes each row once.
LEMMA OrdersPermute ==
    ASSUME NEW order \in Orders
    PROVE  /\ order \in [Rows -> Rows]
           /\ \A j, k \in Rows : order[j] = order[k] => j = k
           /\ \A k \in Rows : \E j \in Rows : order[j] = k
  <1>1. order \in [Rows -> Rows] /\ \A j, k \in Rows : order[j] = order[k] => j = k
    BY StepAssumption
  <1>2. order \in Injection(Rows, Rows)
    BY <1>1 DEF Injection, IsInjective
  <1>3. IsFiniteSet(Rows)
    BY Sizes, FS_Interval DEF Rows
  <1>4. order \in Surjection(Rows, Rows)
    BY <1>2, <1>3, FS_Injection
  <1>. QED BY <1>1, <1>4 DEF Surjection

-----------------------------------------------------------------------------
(***************************************************************************)
(* What the invariant says of one state.                                   *)
(***************************************************************************)
LEMMA ConfigFields ==
    ASSUME config \in Configs
    PROVE  /\ config.estimator \in {"gae", "grpo", "remax"}
           /\ config.teacher \in {"none", "demo", "image", "hint"}
           /\ config.bypass \in BOOLEAN /\ config.fallback \in BOOLEAN
           /\ config.complete \in BOOLEAN /\ config.rolloutLogProbs \in BOOLEAN
           /\ config.epochs \in Nat \ {0} /\ config.miniBatch \in Nat \ {0}
           /\ config.warmup \in Nat
  BY StepAssumption

LEMMA SampleCells ==
    ASSUME NEW s \in Samples
    PROVE  /\ {s} \in SUBSET (Prompts \X (0 .. N))
           /\ s[1] \in Prompts
           /\ {<<s[1], 0>>} \in SUBSET (Prompts \X (0 .. N))
           /\ <<s[1], 0>> # None /\ s # None
           /\ SamplesOf(s[1]) \subseteq Prompts \X (0 .. N)
           /\ s \in SamplesOf(s[1])
  <1>1. PICK p \in Prompts, i \in 1 .. N : s = <<p, i>>
    BY DEF Samples
  <1>2. N \in Nat
    BY Sizes
  <1>3. i \in 0 .. N /\ 0 \in 0 .. N
    BY <1>2
  <1>4. s \in Prompts \X (0 .. N) /\ <<s[1], 0>> \in Prompts \X (0 .. N) /\ s[1] = p
    BY <1>1, <1>3
  <1>5. \A t \in Samples : t \in Prompts \X (0 .. N)
    <2>. TAKE t \in Samples
    <2>1. PICK q \in Prompts, j \in 1 .. N : t = <<q, j>>
      BY DEF Samples
    <2>2. j \in 0 .. N
      BY <1>2
    <2>. QED BY <2>1, <2>2
  <1>. QED BY <1>1, <1>4, <1>5, StepAssumption DEF SamplesOf

\* The only element of a set of one.
LEMMA TheOnly ==
    ASSUME NEW x
    PROVE  TheOne({x}) = x
  BY DEF TheOne

LEMMA UidOfRow ==
    ASSUME OneRowEach(batch), Aligned(batch), NEW k \in Rows
    PROVE  UidOf(k) = {<<SampleOf(k)[1], 0>>}
  <1>1. Speaks("uid", batch["uid"][k], SampleIn(batch, k))
    BY DEF Aligned, OneRowEach
  <1>2. batch["uid"][k].from = {<<SampleIn(batch, k)[1], 0>>}
    BY <1>1 DEF Speaks
  <1>3. SampleOf(k) = SampleIn(batch, k)
    BY DEF SampleOf, SampleIn
  <1>. QED BY <1>2, <1>3 DEF UidOf

\* A merged table, read row by row.
LEMMA MergedRows ==
    ASSUME TypeOK, Merged, OneRowEach(batch), Aligned(batch)
    PROVE  /\ "uid" \in DOMAIN batch /\ "responses" \in DOMAIN batch
           /\ \A c \in DOMAIN batch : batch[c] \in [Rows -> Cell]
           /\ \A k \in Rows : /\ SampleOf(k) \in Samples
                              /\ SampleOf(k) = SampleIn(batch, k)
                              /\ batch["responses"][k].from = {SampleOf(k)}
                              /\ UidOf(k) = {<<SampleOf(k)[1], 0>>}
           /\ \A j, k \in Rows : SampleOf(j) = SampleOf(k) => j = k
           /\ \A s \in Samples : \E k \in Rows : SampleOf(k) = s
  <1>1. pc \notin {"generate", "baseline", "merge", "failed"}
    BY DEF Merged
  <1>2. "uid" \in DOMAIN batch /\ "responses" \in DOMAIN batch
    BY DEF OneRowEach
  <1>3. \A k \in Rows : SampleOf(k) = SampleIn(batch, k)
    BY DEF SampleOf, SampleIn
  <1>4. \A c \in DOMAIN batch : batch[c] \in [Rows -> Cell]
    BY <1>1 DEF TypeOK
  <1>5. \A k \in Rows : UidOf(k) = {<<SampleOf(k)[1], 0>>}
    BY UidOfRow
  <1>6. \A k \in Rows : /\ SampleOf(k) \in Samples
                        /\ batch["responses"][k].from = {SampleOf(k)}
    BY <1>3 DEF OneRowEach
  <1>7. /\ \A j, k \in Rows : SampleOf(j) = SampleOf(k) => j = k
        /\ \A s \in Samples : \E k \in Rows : SampleOf(k) = s
    BY <1>3 DEF OneRowEach
  <1>. QED BY <1>2, <1>3, <1>4, <1>5, <1>6, <1>7

\* Two rows have the same uid when they answer the same prompt.
LEMMA SameUid ==
    ASSUME TypeOK, Merged, OneRowEach(batch), Aligned(batch),
           NEW j \in Rows, NEW k \in Rows
    PROVE  UidOf(j) = UidOf(k) <=> SampleOf(j)[1] = SampleOf(k)[1]
  <1>1. \A i \in Rows : UidOf(i) = {<<SampleOf(i)[1], 0>>}
    BY UidOfRow
  <1>2. \A a, b : {<<a, 0>>} = {<<b, 0>>} => a = b
    <2>. TAKE a, b
    <2>. HAVE {<<a, 0>>} = {<<b, 0>>}
    <2>1. <<a, 0>> \in {<<b, 0>>}
      OBVIOUS
    <2>2. <<a, 0>> = <<b, 0>>
      BY <2>1
    <2>. QED BY <2>2
  <1>. QED BY <1>1, <1>2

\* A new column that speaks of the responses keeps a table aligned.
LEMMA WithAligned ==
    ASSUME NEW table, NEW name, NEW column, OneRowEach(table), Aligned(table),
           name \notin {"uid", "responses"},
           \A k \in Rows : Speaks(name, column[k], SampleIn(table, k))
    PROVE  /\ OneRowEach(With(table, name, column))
           /\ Aligned(With(table, name, column))
           /\ \A k \in Rows : SampleIn(With(table, name, column), k) = SampleIn(table, k)
  <1>. DEFINE t == With(table, name, column)
  <1>1. /\ DOMAIN t = DOMAIN table \cup {name} /\ t[name] = column
        /\ \A c \in DOMAIN table : c # name => t[c] = table[c]
    BY DEF With
  <1>2. "uid" \in DOMAIN table /\ "responses" \in DOMAIN table
    BY DEF OneRowEach
  <1>3. t["responses"] = table["responses"]
    BY <1>1, <1>2
  <1>. HIDE DEF t
  <1>4. \A k \in Rows : SampleIn(t, k) = SampleIn(table, k)
    BY <1>3 DEF SampleIn
  <1>5. OneRowEach(t)
    BY <1>1, <1>2, <1>3, <1>4 DEF OneRowEach
  <1>6. ASSUME NEW c \in DOMAIN t, NEW k \in Rows
        PROVE  Speaks(c, t[c][k], SampleIn(t, k))
    <2>1. CASE c = name
      BY <1>1, <1>4, <2>1
    <2>2. CASE c # name
      <3>1. c \in DOMAIN table /\ t[c] = table[c]
        BY <1>1, <2>2
      <3>2. Speaks(c, table[c][k], SampleIn(table, k))
        BY <3>1 DEF Aligned
      <3>. QED BY <1>4, <3>1, <3>2
    <2>. QED BY <2>1, <2>2
  <1>7. Aligned(t)
    BY <1>6 DEF Aligned
  <1>. QED BY <1>4, <1>5, <1>7 DEF t

\* Most columns speak of the response itself.
LEMMA PlainColumn ==
    ASSUME NEW name, name \notin {"uid", "reward_baselines", "advantages"},
           NEW cell, NEW s
    PROVE  Speaks(name, cell, s) <=> cell.from = {s}
  BY DEF Speaks

\* The first row of some.
LEMMA FirstOf ==
    ASSUME NEW S, S \subseteq Rows, S # {}
    PROVE  First(S) \in S
  <1>1. S \subseteq Nat
    BY DEF Rows
  <1>2. \E m \in S : \A k \in S : m <= k
    BY <1>1, LeastNatural
  <1>. QED BY <1>2 DEF First

-----------------------------------------------------------------------------
(***************************************************************************)
(* The invariant holds at the start, and every step keeps it.              *)
(***************************************************************************)
LEMMA InvAtStart == Init => IInv
  <1>. SUFFICES ASSUME Init PROVE IInv
    OBVIOUS
  <1>. USE DEF Init
  <1>1. DOMAIN batch = {} /\ DOMAIN gen = {}
    BY DEF NoTable
  <1>2. TypeOK
    <2>1. 1 \in 1 .. MaxSteps
      BY StepAssumption
    <2>2. update \in [start : Nat, epoch : Nat, mini : Nat, anchors : SUBSET Nat,
                      seen : [Rows -> Nat]]
      BY DEF NoUpdate
    <2>3. future \in [state : {"none", "running", "done"},
                      value : [Rows -> Cell] \cup {None}]
      BY DEF NoFuture
    <2>. QED BY <1>1, <2>1, <2>2, <2>3 DEF TypeOK
  <1>3. TableInv /\ RolloutInv /\ VersionInv /\ ColumnInv /\ RewardInv
    BY DEF TableInv, RolloutInv, VersionInv, ColumnInv, RewardInv, Merged
  <1>4. ModeInv /\ ShownInv /\ UpdateInv /\ ColumnsAreThere
    BY DEF ModeInv, ShownInv, UpdateInv, ColumnsAreThere, Merged
  <1>. QED BY <1>2, <1>3, <1>4 DEF IInv

\* A table of typed columns.
LEMMA WithTyped ==
    ASSUME NEW table, NEW name, NEW C, NEW column \in C,
           \A c \in DOMAIN table : table[c] \in C
    PROVE  \A c \in DOMAIN With(table, name, column) :
                With(table, name, column)[c] \in C
  BY DEF With

LEMMA ComputedTyped ==
    ASSUME TypeOK, Merged, OneRowEach(batch), Aligned(batch), NEW by \in Nat
    PROVE  /\ Computed(by) \in [Rows -> Cell]
           /\ \A k \in Rows : /\ Computed(by)[k].from = {SampleOf(k)}
                              /\ Computed(by)[k].by = by
  <1>1. \A k \in Rows : batch["responses"][k].from = {SampleOf(k)} /\ SampleOf(k) \in Samples
    BY MergedRows
  <1>2. \A k \in Rows : {SampleOf(k)} \in SUBSET (Prompts \X (0 .. N))
    BY <1>1, SampleCells
  <1>3. Computed(by) = [k \in Rows |-> [from |-> {SampleOf(k)}, by |-> by]]
    BY <1>1 DEF Computed
  <1>. QED BY <1>2, <1>3 DEF Cell

LEMMA ScoresTyped ==
    ASSUME TypeOK, Merged, OneRowEach(batch), Aligned(batch)
    PROVE  /\ Scores \in [Rows -> Cell]
           /\ \A k \in Rows : Scores[k].from = {SampleOf(k)}
  <1>1. Scores = Computed(0)
    BY DEF Scores, Computed
  <1>. QED BY <1>1, ComputedTyped

LEMMA TypeStep == IInv /\ [Next]_vars => TypeOK'
  <1>. SUFFICES ASSUME IInv, [Next]_vars PROVE TypeOK'
    OBVIOUS
  <1>0. TypeOK /\ TableInv
    BY DEF IInv
  <1>. USE DEF Goto, weights, mode, data, Fail
  <1>1. CASE LoadBatch
    <2>. DEFINE uids == [p \in Prompts |-> [from |-> {<<p, 0>>}, by |-> 0]]
    <2>1. uids \in [Prompts -> Cell]
      <3>1. \A p \in Prompts : {<<p, 0>>} \in SUBSET (Prompts \X (0 .. N))
        BY Sizes
      <3>. QED BY <3>1 DEF Cell
    <2>2. \A c \in DOMAIN batch' : batch'[c] \in [Prompts -> Cell]
      BY <1>1, <2>1 DEF LoadBatch, With, NoTable
    <2>3. missing' \subseteq Prompts
      BY <1>1 DEF LoadBatch
    <2>. QED BY <1>0, <1>1, <2>2, <2>3 DEF LoadBatch, TypeOK
  <1>2. CASE Generate
    <2>1. \A k \in Rows : [from |-> {Interleaved(k)}, by |-> actor] \in Cell
      <3>1. \A k \in Rows : {Interleaved(k)} \in SUBSET (Prompts \X (0 .. N))
        BY InterleavedSamples, SampleCells
      <3>. QED BY <1>0, <3>1 DEF Cell, TypeOK
    <2>2. \A c \in DOMAIN gen' : gen'[c] \in [Rows -> Cell]
      BY <1>2, <2>1 DEF Generate
    <2>3. good' \subseteq Samples
      BY <1>2 DEF Generate
    <2>4. pc' \in {"baseline", "merge"}
      BY <1>2 DEF Generate
    <2>. QED BY <1>0, <1>2, <2>2, <2>3, <2>4 DEF Generate, TypeOK
  <1>3. CASE Baseline
    <2>1. CASE config.scores = "fn" \/ NoRewardFn
      BY <1>0, <1>3, <2>1 DEF Baseline, TypeOK
    <2>2. CASE ~ (config.scores = "fn" \/ NoRewardFn)
      <3>. DEFINE base == [p \in Prompts |-> [from |-> {<<p, 0>>}, by |-> actor]]
      <3>1. base \in [Prompts -> Cell]
        <4>1. \A p \in Prompts : {<<p, 0>>} \in SUBSET (Prompts \X (0 .. N))
          BY Sizes
        <4>. QED BY <1>0, <4>1 DEF Cell, TypeOK
      <3>2. \A c \in DOMAIN batch : batch[c] \in [Prompts -> Cell]
        BY <1>0, <1>3 DEF Baseline, TypeOK
      <3>3. batch' = With(batch, "reward_baselines", base) /\ pc' = "merge"
        BY <1>3, <2>2 DEF Baseline
      <3>. HIDE DEF base
      <3>4. \A c \in DOMAIN batch' : batch'[c] \in [Prompts -> Cell]
        BY <3>1, <3>2, <3>3, WithTyped
      <3>. QED BY <1>0, <1>3, <2>2, <3>3, <3>4 DEF Baseline, TypeOK
    <2>. QED BY <2>1, <2>2
  <1>4. CASE Merge
    <2>1. \A c \in DOMAIN batch : batch[c] \in [Prompts -> Cell]
      BY <1>0, <1>4 DEF Merge, TypeOK
    <2>2. \A k \in Rows : (k - 1) \div N + 1 \in Prompts
      BY InterleavedSamples
    <2>3. \A c \in DOMAIN batch : RepeatInterleaved(batch)[c] \in [Rows -> Cell]
      BY <2>1, <2>2 DEF RepeatInterleaved
    <2>4. \A c \in DOMAIN batch' : batch'[c] \in [Rows -> Cell]
      BY <1>0, <1>4, <2>3 DEF Merge, TypeOK
    <2>. QED BY <1>0, <1>4, <2>4 DEF Merge, TypeOK
  <1>5. CASE Balance
    <2>1. \A c \in DOMAIN batch : batch[c] \in [Rows -> Cell]
      BY <1>0, <1>5 DEF Balance, TypeOK
    <2>2. \A order \in Orders : order \in [Rows -> Rows]
      BY OrdersPermute
    <2>3. \A c \in DOMAIN batch' : batch'[c] \in [Rows -> Cell]
      BY <1>5, <2>1, <2>2 DEF Balance, Reordered
    <2>. QED BY <1>0, <1>5, <2>3 DEF Balance, TypeOK
  <1>6. CASE Reward
    <2>1. Merged
      BY <1>6 DEF Reward, Merged
    <2>2. Scores \in [Rows -> Cell]
      BY <1>0, <2>1, ScoresTyped DEF TableInv
    <2>3. \A c \in DOMAIN batch : batch[c] \in [Rows -> Cell]
      BY <1>0, <1>6 DEF Reward, TypeOK
    <2>4. \A c \in DOMAIN batch' : batch'[c] \in [Rows -> Cell]
      BY <1>6, <2>2, <2>3, WithTyped DEF Reward
    <2>5. future' \in [state : {"none", "running", "done"},
                       value : [Rows -> Cell] \cup {None}]
          /\ reward' \in [Rows -> Cell] \cup {None}
      BY <1>0, <1>6, <2>2 DEF Reward, TypeOK
    <2>6. free' \in BOOLEAN
      BY <1>6 DEF Reward, RewardFree, Vopd, WorkerVopd
    <2>. QED BY <1>0, <1>6, <2>4, <2>5, <2>6 DEF Reward, TypeOK
  <1>7. CASE RewardArrives
    BY <1>0, <1>7 DEF RewardArrives, TypeOK
  <1>8. CASE OldLogProb
    <2>1. CASE config.bypass /\ ~ HasRolloutLogProbs
      BY <1>0, <1>8, <2>1 DEF OldLogProb, TypeOK
    <2>2. CASE ~ (config.bypass /\ ~ HasRolloutLogProbs)
      <3>. DEFINE col == IF config.bypass \/ Reuses
                         THEN batch["rollout_log_probs"] ELSE Computed(actor)
      <3>1. Merged /\ \A c \in DOMAIN batch : batch[c] \in [Rows -> Cell]
        BY <1>0, <1>8 DEF OldLogProb, TypeOK, Merged
      <3>2. Computed(actor) \in [Rows -> Cell]
        BY <1>0, <3>1, ComputedTyped DEF TableInv, TypeOK
      <3>3. col \in [Rows -> Cell]
        BY <2>2, <3>1, <3>2 DEF HasRolloutLogProbs, Reuses
      <3>4. batch' = With(batch, "old_log_probs", col) /\ pc' = "ref_values"
            /\ bypassed' = (bypassed \/ config.bypass)
        BY <1>8, <2>2 DEF OldLogProb
      <3>. HIDE DEF col
      <3>5. \A c \in DOMAIN batch' : batch'[c] \in [Rows -> Cell]
        BY <3>1, <3>3, <3>4, WithTyped
      <3>6. bypassed' \in BOOLEAN
        BY <3>4
      <3>. QED BY <1>0, <1>8, <2>2, <3>4, <3>5, <3>6 DEF OldLogProb, TypeOK
    <2>. QED BY <2>1, <2>2
  <1>9. CASE RefAndValues
    <2>. DEFINE withRef == IF config.kl
                           THEN With(batch, "ref_log_prob", Computed(0)) ELSE batch
    <2>1. Merged /\ \A c \in DOMAIN batch : batch[c] \in [Rows -> Cell]
      BY <1>0, <1>9 DEF RefAndValues, TypeOK, Merged
    <2>2. Computed(0) \in [Rows -> Cell] /\ Computed(critic) \in [Rows -> Cell]
      BY <1>0, <2>1, ComputedTyped DEF TableInv, TypeOK
    <2>3. \A c \in DOMAIN withRef : withRef[c] \in [Rows -> Cell]
      BY <2>1, <2>2, WithTyped
    <2>4. batch' = IF UsesCritic THEN With(withRef, "values", Computed(critic)) ELSE withRef
      BY <1>9 DEF RefAndValues
    <2>. HIDE DEF withRef
    <2>5. \A c \in DOMAIN batch' : batch'[c] \in [Rows -> Cell]
      BY <2>2, <2>3, <2>4, WithTyped
    <2>. QED BY <1>0, <1>9, <2>5 DEF RefAndValues, TypeOK
  <1>10. CASE GetReward
    BY <1>0, <1>10 DEF GetReward, TypeOK, NoFuture
  <1>11. CASE BuildTeacherBatch
    <2>1. CASE Vopd /\ NoRewardFn /\ missing # {}
      BY <1>0, <1>11, <2>1 DEF BuildTeacherBatch, TypeOK
    <2>2. CASE ~ (Vopd /\ NoRewardFn /\ missing # {})
      <3>1. Merged
        BY <1>11 DEF BuildTeacherBatch, Merged
      <3>2. \A k \in Rows : ShownTo(k) \in Prompts \X (0 .. N) \cup {None}
        <4>. TAKE k \in Rows
        <4>1. \A j \in Rows : /\ SampleOf(j) \in Samples
                              /\ batch["responses"][j].from = {SampleOf(j)}
                              /\ UidOf(j) = {<<SampleOf(j)[1], 0>>}
          BY <1>0, <3>1, MergedRows DEF TableInv
        <4>2. InputFor(k) \in Prompts \X (0 .. N) \cup {None}
          <5>1. TheOne(UidOf(k)) = <<SampleOf(k)[1], 0>>
            BY <4>1, TheOnly
          <5>2. <<SampleOf(k)[1], 0>> \in Prompts \X (0 .. N)
            BY <4>1, SampleCells
          <5>. QED BY <5>1, <5>2 DEF InputFor
        <4>3. DemoFor(k) \in Prompts \X (0 .. N) \cup {None}
          <5>1. CASE Solutions(k) = {}
            BY <5>1 DEF DemoFor
          <5>2. CASE Solutions(k) # {}
            <6>1. First(Solutions(k)) \in Rows
              BY <5>2, FirstOf DEF Solutions
            <6>2. DemoFor(k) = SampleOf(First(Solutions(k)))
              BY <5>2 DEF DemoFor, SampleOf
            <6>. QED BY <4>1, <6>1, <6>2, SampleCells
          <5>. QED BY <5>1, <5>2
        <4>. QED BY <4>2, <4>3 DEF ShownTo
      <3>3. shown' \in [Rows -> Prompts \X (0 .. N) \cup {None}] \cup {None}
        BY <1>11, <2>2, <3>2 DEF BuildTeacherBatch
      <3>4. pc' = "advantage"
        BY <1>11, <2>2 DEF BuildTeacherBatch
      <3>. QED BY <1>0, <1>11, <2>2, <3>3, <3>4 DEF BuildTeacherBatch, TypeOK
    <2>. QED BY <2>1, <2>2
  <1>12. CASE Advantage
    <2>1. CASE free /\ ~ SkipsAdvantage
      BY <1>0, <1>12, <2>1 DEF Advantage, TypeOK
    <2>2. CASE ~ (free /\ ~ SkipsAdvantage)
      <3>1. Merged /\ \A c \in DOMAIN batch : batch[c] \in [Rows -> Cell]
        BY <1>0, <1>12 DEF Advantage, TypeOK, Merged
      <3>2. reward \in [Rows -> Cell]
        BY <1>12 DEF Advantage, IInv, RewardInv, OfRows
      <3>3. \A c \in DOMAIN WithRewards : WithRewards[c] \in [Rows -> Cell]
        BY <3>1, <3>2, WithTyped DEF WithRewards
      <3>4. Advantages \in [Rows -> Cell]
        <4>1. \A k \in Rows : Group(k) \subseteq Rows
          BY DEF Group
        <4>2. \A k \in Rows : UNION {reward[j].from : j \in Group(k)} \in SUBSET (Prompts \X (0 .. N))
          BY <3>2, <4>1 DEF Cell
        <4>. QED BY <4>2 DEF Advantages, Cell
      <3>5. \A c \in DOMAIN batch' : batch'[c] \in [Rows -> Cell]
        BY <1>12, <2>2, <3>3, <3>4, WithTyped DEF Advantage
      <3>6. pc' = "update_critic"
        BY <1>12, <2>2 DEF Advantage
      <3>. QED BY <1>0, <1>12, <2>2, <3>5, <3>6 DEF Advantage, TypeOK
    <2>. QED BY <2>1, <2>2
  <1>13. CASE UpdateCritic
    <2>1. CASE UsesCritic /\ ~ HasAdvantages
      BY <1>0, <1>13, <2>1 DEF UpdateCritic, TypeOK
    <2>2. CASE ~ (UsesCritic /\ ~ HasAdvantages)
      BY <1>0, <1>13, <2>2 DEF UpdateCritic, TypeOK
    <2>. QED BY <2>1, <2>2
  <1>14. CASE BeginUpdate
    <2>1. update' \in [start : Nat, epoch : Nat, mini : Nat, anchors : SUBSET Nat,
                       seen : [Rows -> Nat]]
      <3>1. \/ update' = update
            \/ update' = [start |-> actor, epoch |-> 1, mini |-> 1, anchors |-> {},
                          seen |-> [k \in Rows |-> 0]]
        BY <1>14 DEF BeginUpdate, NoUpdate
      <3>2. actor \in Nat /\ [k \in Rows |-> 0] \in [Rows -> Nat]
        BY <1>0 DEF TypeOK
      <3>. QED BY <1>0, <3>1, <3>2 DEF TypeOK
    <2>. QED BY <1>0, <1>14, <2>1 DEF BeginUpdate, TypeOK
  <1>15. CASE TrainMiniBatch
    <2>1. CASE \E k \in MiniRows(update.mini) : LacksAdvantage(k)
      BY <1>0, <1>15, <2>1 DEF TrainMiniBatch, TypeOK
    <2>2. CASE ~ \E k \in MiniRows(update.mini) : LacksAdvantage(k)
      <3>. DEFINE rows == MiniRows(update.mini)
                  last == update.mini = MiniBatches
                  found == IF OnPolicy THEN {actor}
                           ELSE {batch["old_log_probs"][k].by : k \in rows}
      <3>1. pc = "training" /\ rows \subseteq Rows
        BY <1>15 DEF TrainMiniBatch, MiniRows
      <3>2. batch["old_log_probs"] \in [Rows -> Cell]
        BY <1>0, <3>1 DEF IInv, ColumnInv, TypeOK
      <3>3. found \subseteq Nat
        BY <1>0, <3>1, <3>2 DEF TypeOK, Cell
      <3>4. update' = [update EXCEPT
                    !.mini = IF last THEN 1 ELSE @ + 1,
                    !.epoch = IF last THEN @ + 1 ELSE @,
                    !.anchors = @ \cup found,
                    !.seen = [k \in Rows |-> IF k \in rows THEN @[k] + 1 ELSE @[k]]]
            /\ actor' \in {actor, actor + 1}
        BY <1>15, <2>2 DEF TrainMiniBatch
      <3>. HIDE DEF rows, last, found
      <3>5. update' \in [start : Nat, epoch : Nat, mini : Nat, anchors : SUBSET Nat,
                         seen : [Rows -> Nat]]
        <4>. DEFINE seen == [k \in Rows |-> IF k \in rows THEN update.seen[k] + 1
                                           ELSE update.seen[k]]
        <4>1. update \in [start : Nat, epoch : Nat, mini : Nat, anchors : SUBSET Nat,
                          seen : [Rows -> Nat]]
          BY <1>0 DEF TypeOK
        <4>2. seen \in [Rows -> Nat]
          BY <4>1
        <4>3. update' = [start |-> update.start,
                         epoch |-> IF last THEN update.epoch + 1 ELSE update.epoch,
                         mini |-> IF last THEN 1 ELSE update.mini + 1,
                         anchors |-> update.anchors \cup found,
                         seen |-> seen]
          BY <3>4, <4>1
        <4>4. /\ update.start \in Nat
              /\ (IF last THEN update.epoch + 1 ELSE update.epoch) \in Nat
              /\ (IF last THEN 1 ELSE update.mini + 1) \in Nat
          BY <4>1
        <4>5. update.anchors \subseteq Nat
          BY <4>1
        <4>6. update.anchors \cup found \in SUBSET Nat
          BY <3>3, <4>5
        <4>. HIDE DEF seen
        <4>. QED BY <4>2, <4>3, <4>4, <4>6
      <3>6. actor' \in Nat
        BY <1>0, <3>4 DEF TypeOK
      <3>. QED BY <1>0, <1>15, <2>2, <3>5, <3>6 DEF TrainMiniBatch, TypeOK
    <2>. QED BY <2>1, <2>2
  <1>16. CASE EndUpdate
    BY <1>0, <1>16 DEF EndUpdate, TypeOK
  <1>17. CASE EndStep
    <2>1. update' \in [start : Nat, epoch : Nat, mini : Nat, anchors : SUBSET Nat,
                       seen : [Rows -> Nat]]
      BY <1>17 DEF EndStep, NoUpdate
    <2>2. step' \in 1 .. MaxSteps /\ pc' \in {"done", "load"}
      BY <1>0, <1>17, StepAssumption DEF EndStep, IsLastStep, TypeOK
    <2>3. DOMAIN batch' = {} /\ DOMAIN gen' = {}
      BY <1>17 DEF EndStep, NoTable
    <2>. QED BY <1>0, <1>17, <2>1, <2>2, <2>3 DEF EndStep, TypeOK
  <1>18. CASE UNCHANGED vars
    BY <1>0, <1>18 DEF vars, TypeOK
  <1>. QED BY <1>1, <1>2, <1>3, <1>4, <1>5, <1>6, <1>7, <1>8, <1>9, <1>10, <1>11,
              <1>12, <1>13, <1>14, <1>15, <1>16, <1>17, <1>18
       DEF Next, Driver, Terminated

-----------------------------------------------------------------------------
(***************************************************************************)
(* The table stays aligned.                                                *)
(***************************************************************************)
\* The rows of all columns are moved together.
LEMMA ReorderedAligned ==
    ASSUME NEW table, OneRowEach(table), Aligned(table), NEW order \in Orders
    PROVE  /\ OneRowEach(Reordered(table, order))
           /\ Aligned(Reordered(table, order))
  <1>. DEFINE t == Reordered(table, order)
  <1>1. /\ DOMAIN t = DOMAIN table
        /\ \A c \in DOMAIN table, k \in Rows : t[c][k] = table[c][order[k]]
    BY DEF Reordered
  <1>2. "uid" \in DOMAIN table /\ "responses" \in DOMAIN table
    BY DEF OneRowEach
  <1>3. /\ \A k \in Rows : order[k] \in Rows
        /\ \A j, k \in Rows : order[j] = order[k] => j = k
        /\ \A k \in Rows : \E j \in Rows : order[j] = k
    BY OrdersPermute
  <1>. HIDE DEF t
  <1>4. \A k \in Rows : SampleIn(t, k) = SampleIn(table, order[k])
    BY <1>1, <1>2 DEF SampleIn
  <1>5. OneRowEach(t)
    <2>1. \A k \in Rows : /\ SampleIn(t, k) \in Samples
                          /\ t["responses"][k].from = {SampleIn(t, k)}
      BY <1>1, <1>2, <1>3, <1>4 DEF OneRowEach
    <2>2. \A j, k \in Rows : SampleIn(t, j) = SampleIn(t, k) => j = k
      BY <1>3, <1>4 DEF OneRowEach
    <2>3. ASSUME NEW s \in Samples
          PROVE  \E k \in Rows : SampleIn(t, k) = s
      <3>1. PICK k \in Rows : SampleIn(table, k) = s
        BY DEF OneRowEach
      <3>2. PICK j \in Rows : order[j] = k
        BY <1>3
      <3>. QED BY <1>4, <3>1, <3>2
    <2>. QED BY <1>1, <1>2, <2>1, <2>2, <2>3 DEF OneRowEach
  <1>6. \A c \in DOMAIN t, k \in Rows : Speaks(c, t[c][k], SampleIn(t, k))
    <2>. TAKE c \in DOMAIN t, k \in Rows
    <2>1. Speaks(c, table[c][order[k]], SampleIn(table, order[k]))
      BY <1>1, <1>3 DEF Aligned
    <2>. QED BY <1>1, <1>4, <2>1
  <1>. QED BY <1>5, <1>6 DEF Aligned, t

LEMMA TablePrimed ==
    ASSUME config' = config, OneRowEach(batch'), Aligned(batch')
    PROVE  TableInv'
  <1>1. OneRowEach(batch)'
    BY DEF OneRowEach, SampleIn
  <1>2. Aligned(batch)'
    BY DEF Aligned, SampleIn, Speaks, SamplesOf
  <1>. QED BY <1>1, <1>2 DEF TableInv

\* The responses join their prompts.
LEMMA MergeAligned ==
    ASSUME IInv, Merge
    PROVE  OneRowEach(batch') /\ Aligned(batch')
  <1>1. /\ "uid" \in DOMAIN batch /\ DOMAIN batch \subseteq {"uid", "reward_baselines"}
        /\ \A c \in DOMAIN batch, p \in Prompts : batch[c][p].from = {<<p, 0>>}
        /\ gen = [c \in GeneratedColumns |->
                    [k \in Rows |-> [from |-> {Interleaved(k)}, by |-> actor]]]
    BY DEF IInv, RolloutInv, Merge
  <1>2. /\ "responses" \in GeneratedColumns
        /\ GeneratedColumns \subseteq {"responses", "rollout_log_probs", "rm_scores"}
    BY DEF GeneratedColumns
  <1>3. /\ DOMAIN batch' = DOMAIN batch \cup GeneratedColumns
        /\ \A c \in GeneratedColumns : batch'[c] = gen[c]
        /\ \A c \in DOMAIN batch : c \notin GeneratedColumns =>
                batch'[c] = RepeatInterleaved(batch)[c]
    BY <1>1 DEF Merge
  <1>4. \A c \in GeneratedColumns, k \in Rows : batch'[c][k].from = {Interleaved(k)}
    BY <1>1, <1>3
  <1>5. ASSUME NEW c \in DOMAIN batch, NEW k \in Rows
        PROVE  batch'[c][k].from = {<<Interleaved(k)[1], 0>>}
    <2>1. c \notin GeneratedColumns
      BY <1>1, <1>2
    <2>2. batch'[c][k] = batch[c][(k - 1) \div N + 1]
      BY <1>3, <2>1 DEF RepeatInterleaved
    <2>. QED BY <1>1, <2>2, InterleavedSamples
  <1>6. \A k \in Rows : SampleIn(batch', k) = Interleaved(k)
    <2>. TAKE k \in Rows
    <2>1. batch'["responses"][k].from = {Interleaved(k)}
      BY <1>2, <1>4
    <2>. QED BY <2>1, TheOnly DEF SampleIn
  <1>7. OneRowEach(batch')
    BY <1>1, <1>2, <1>3, <1>4, <1>6, InterleavedSamples DEF OneRowEach
  <1>8. \A c \in DOMAIN batch', k \in Rows : Speaks(c, batch'[c][k], SampleIn(batch', k))
    <2>. TAKE c \in DOMAIN batch', k \in Rows
    <2>1. CASE c \in GeneratedColumns
      <3>1. c \notin {"uid", "reward_baselines", "advantages"}
        BY <1>2, <2>1
      <3>2. batch'[c][k].from = {SampleIn(batch', k)}
        BY <1>4, <1>6, <2>1
      <3>. QED BY <3>1, <3>2 DEF Speaks
    <2>2. CASE c \in DOMAIN batch
      <3>1. c \in {"uid", "reward_baselines"}
        BY <1>1, <2>2
      <3>. QED BY <1>5, <1>6, <2>2, <3>1 DEF Speaks
    <2>. QED BY <1>3, <2>1, <2>2
  <1>. QED BY <1>7, <1>8 DEF Aligned

\* A GRPO advantage is made from all responses to the prompt of the row, every
\* other one from the row.
LEMMA AdvantagesSpeak ==
    ASSUME TypeOK, Merged, OneRowEach(batch), Aligned(batch), OfRows(reward),
           NEW k \in Rows
    PROVE  Speaks("advantages", Advantages[k], SampleOf(k))
  <1>1. /\ \A j \in Rows : SampleOf(j) \in Samples /\ reward[j].from = {SampleOf(j)}
        /\ \A s \in Samples : \E j \in Rows : SampleOf(j) = s
    BY MergedRows DEF OfRows
  <1>2. Advantages[k].from = UNION {reward[j].from : j \in Group(k)}
    BY DEF Advantages
  <1>3. SampleOf(k) \in SamplesOf(SampleOf(k)[1])
    BY <1>1, SampleCells
  <1>4. CASE config.estimator = "grpo"
    <2>1. Group(k) = {j \in Rows : SampleOf(j)[1] = SampleOf(k)[1]}
      BY <1>4, SameUid DEF Group
    <2>2. \A s : s \in Advantages[k].from <=>
                    \E j \in Rows : SampleOf(j)[1] = SampleOf(k)[1] /\ s = SampleOf(j)
      BY <1>1, <1>2, <2>1
    <2>3. \A s : s \in SamplesOf(SampleOf(k)[1]) <=>
                    \E j \in Rows : SampleOf(j)[1] = SampleOf(k)[1] /\ s = SampleOf(j)
      BY <1>1 DEF SamplesOf
    <2>4. Advantages[k].from = SamplesOf(SampleOf(k)[1])
      BY <2>2, <2>3
    <2>. QED BY <1>3, <2>4 DEF Speaks
  <1>5. CASE config.estimator # "grpo"
    <2>1. Group(k) = {k}
      BY <1>5 DEF Group
    <2>2. Advantages[k].from = {SampleOf(k)}
      BY <1>1, <1>2, <2>1
    <2>. QED BY <1>3, <1>5, <2>2 DEF Speaks
  <1>. QED BY <1>4, <1>5

\* The rewards become columns.
LEMMA WithRewardsAligned ==
    ASSUME TypeOK, Merged, OneRowEach(batch), Aligned(batch), OfRows(reward)
    PROVE  /\ OneRowEach(WithRewards) /\ Aligned(WithRewards)
           /\ \A k \in Rows : SampleIn(WithRewards, k) = SampleOf(k)
  <1>. DEFINE one == With(batch, "token_level_scores", reward)
              two == With(one, "token_level_rewards", reward)
  <1>1. \A k \in Rows : SampleIn(batch, k) = SampleOf(k) /\ reward[k].from = {SampleOf(k)}
    BY DEF SampleIn, SampleOf, OfRows
  <1>2. \A k \in Rows : Speaks("token_level_scores", reward[k], SampleIn(batch, k))
    BY <1>1, PlainColumn
  <1>3. /\ OneRowEach(one) /\ Aligned(one)
        /\ \A k \in Rows : SampleIn(one, k) = SampleIn(batch, k)
    BY <1>2, WithAligned
  <1>. HIDE DEF one
  <1>4. \A k \in Rows : Speaks("token_level_rewards", reward[k], SampleIn(one, k))
    <2>1. \A k \in Rows : reward[k].from = {SampleIn(one, k)}
      BY <1>1, <1>3
    <2>. QED BY <2>1, PlainColumn
  <1>5. /\ OneRowEach(two) /\ Aligned(two)
        /\ \A k \in Rows : SampleIn(two, k) = SampleIn(one, k)
    BY <1>3, <1>4, WithAligned
  <1>6. WithRewards = IF free THEN batch ELSE two
    BY DEF WithRewards, one
  <1>. QED BY <1>1, <1>3, <1>5, <1>6

LEMMA TableStep == IInv /\ [Next]_vars => TableInv'
  <1>. SUFFICES ASSUME IInv, [Next]_vars PROVE TableInv'
    OBVIOUS
  <1>0. TypeOK /\ TableInv
    BY DEF IInv
  <1>. USE DEF Goto, weights, mode, data, Fail
  <1>1. CASE LoadBatch \/ Generate
    BY <1>1 DEF LoadBatch, Generate, TableInv, Merged
  <1>2. CASE Baseline
    BY <1>2 DEF Baseline, TableInv, Merged
  <1>3. CASE Merge
    <2>1. config' = config
      BY <1>3 DEF Merge
    <2>. QED BY <1>3, <2>1, MergeAligned, TablePrimed
  <1>4. CASE Balance
    <2>1. config' = config /\ Merged
      BY <1>4 DEF Balance, Merged
    <2>2. CASE config.balance
      <3>1. PICK order \in Orders : batch' = Reordered(batch, order)
        BY <1>4, <2>2 DEF Balance
      <3>. QED BY <1>0, <2>1, <3>1, ReorderedAligned, TablePrimed DEF TableInv
    <2>3. CASE ~ config.balance
      <3>1. batch' = batch
        BY <1>4, <2>3 DEF Balance
      <3>. QED BY <1>0, <2>1, <3>1, TablePrimed DEF TableInv
    <2>. QED BY <2>2, <2>3
  <1>5. CASE Reward
    <2>1. config' = config /\ Merged
      BY <1>5 DEF Reward, Merged
    <2>2. \A k \in Rows : Speaks("rm_scores", Scores[k], SampleIn(batch, k))
      <3>1. \A k \in Rows : Scores[k].from = {SampleOf(k)}
        BY <1>0, <2>1, ScoresTyped DEF TableInv
      <3>. QED BY <3>1, PlainColumn DEF SampleIn, SampleOf
    <2>3. /\ OneRowEach(With(batch, "rm_scores", Scores))
          /\ Aligned(With(batch, "rm_scores", Scores))
      BY <1>0, <2>1, <2>2, WithAligned DEF TableInv
    <2>4. batch' = batch \/ batch' = With(batch, "rm_scores", Scores)
      BY <1>5 DEF Reward
    <2>. QED BY <1>0, <2>1, <2>3, <2>4, TablePrimed DEF TableInv
  <1>6. CASE OldLogProb
    <2>1. CASE config.bypass /\ ~ HasRolloutLogProbs
      BY <1>6, <2>1 DEF OldLogProb, TableInv, Merged
    <2>2. CASE ~ (config.bypass /\ ~ HasRolloutLogProbs)
      <3>. DEFINE col == IF config.bypass \/ Reuses
                         THEN batch["rollout_log_probs"] ELSE Computed(actor)
      <3>1. config' = config /\ Merged
        BY <1>6, <2>2 DEF OldLogProb, Merged
      <3>2. batch' = With(batch, "old_log_probs", col)
        BY <1>6, <2>2 DEF OldLogProb
      <3>3. \A k \in Rows : Computed(actor)[k].from = {SampleIn(batch, k)}
        BY <1>0, <3>1, ComputedTyped DEF TableInv, TypeOK, SampleIn, SampleOf
      <3>4. ASSUME HasRolloutLogProbs, NEW k \in Rows
            PROVE  batch["rollout_log_probs"][k].from = {SampleIn(batch, k)}
        <4>1. Speaks("rollout_log_probs", batch["rollout_log_probs"][k], SampleIn(batch, k))
          BY <1>0, <3>1, <3>4 DEF HasRolloutLogProbs, TableInv, Aligned
        <4>. QED BY <4>1, PlainColumn
      <3>5. \A k \in Rows : col[k].from = {SampleIn(batch, k)}
        BY <2>2, <3>3, <3>4 DEF Reuses
      <3>. HIDE DEF col
      <3>6. \A k \in Rows : Speaks("old_log_probs", col[k], SampleIn(batch, k))
        BY <3>5, PlainColumn
      <3>7. OneRowEach(With(batch, "old_log_probs", col))
            /\ Aligned(With(batch, "old_log_probs", col))
        BY <1>0, <3>1, <3>6, WithAligned DEF TableInv
      <3>. QED BY <3>1, <3>2, <3>7, TablePrimed
    <2>. QED BY <2>1, <2>2
  <1>7. CASE RefAndValues
    <2>. DEFINE withRef == IF config.kl
                           THEN With(batch, "ref_log_prob", Computed(0)) ELSE batch
    <2>1. config' = config /\ Merged
      BY <1>7 DEF RefAndValues, Merged
    <2>2. \A k \in Rows : /\ Computed(0)[k].from = {SampleIn(batch, k)}
                          /\ Computed(critic)[k].from = {SampleIn(batch, k)}
      BY <1>0, <2>1, ComputedTyped DEF TableInv, TypeOK, SampleIn, SampleOf
    <2>3. \A k \in Rows : Speaks("ref_log_prob", Computed(0)[k], SampleIn(batch, k))
      BY <2>2, PlainColumn
    <2>4. /\ OneRowEach(withRef) /\ Aligned(withRef)
          /\ \A k \in Rows : SampleIn(withRef, k) = SampleIn(batch, k)
      BY <1>0, <2>1, <2>3, WithAligned DEF TableInv
    <2>5. batch' = IF UsesCritic THEN With(withRef, "values", Computed(critic)) ELSE withRef
      BY <1>7 DEF RefAndValues
    <2>. HIDE DEF withRef
    <2>6. \A k \in Rows : Speaks("values", Computed(critic)[k], SampleIn(withRef, k))
      BY <2>2, <2>4, PlainColumn
    <2>7. OneRowEach(batch') /\ Aligned(batch')
      BY <2>4, <2>5, <2>6, WithAligned
    <2>. QED BY <2>1, <2>7, TablePrimed
  <1>8. CASE Advantage
    <2>1. CASE free /\ ~ SkipsAdvantage
      BY <1>8, <2>1 DEF Advantage, TableInv, Merged
    <2>2. CASE ~ (free /\ ~ SkipsAdvantage)
      <3>1. config' = config /\ Merged
        BY <1>8, <2>2 DEF Advantage, Merged
      <3>2. OfRows(reward)
        BY <1>8 DEF Advantage, IInv, RewardInv
      <3>3. /\ OneRowEach(WithRewards) /\ Aligned(WithRewards)
            /\ \A k \in Rows : SampleIn(WithRewards, k) = SampleOf(k)
        BY <1>0, <3>1, <3>2, WithRewardsAligned DEF TableInv
      <3>4. \A k \in Rows : Speaks("advantages", Advantages[k], SampleIn(WithRewards, k))
        BY <1>0, <3>1, <3>2, <3>3, AdvantagesSpeak DEF TableInv
      <3>5. /\ OneRowEach(With(WithRewards, "advantages", Advantages))
            /\ Aligned(With(WithRewards, "advantages", Advantages))
        BY <3>3, <3>4, WithAligned
      <3>6. batch' = WithRewards \/ batch' = With(WithRewards, "advantages", Advantages)
        BY <1>8, <2>2 DEF Advantage
      <3>. QED BY <3>1, <3>3, <3>5, <3>6, TablePrimed
    <2>. QED BY <2>1, <2>2
  <1>9. CASE RewardArrives \/ GetReward \/ BuildTeacherBatch \/ UpdateCritic
             \/ BeginUpdate \/ TrainMiniBatch \/ EndUpdate \/ UNCHANGED vars
    <2>1. config' = config /\ batch' = batch /\ (Merged' => Merged)
      BY <1>9 DEF RewardArrives, GetReward, BuildTeacherBatch, UpdateCritic,
                  BeginUpdate, TrainMiniBatch, EndUpdate, vars, Merged
    <2>2. CASE Merged
      BY <1>0, <2>1, <2>2, TablePrimed DEF TableInv
    <2>3. CASE ~ Merged
      BY <2>1, <2>3 DEF TableInv
    <2>. QED BY <2>2, <2>3
  <1>10. CASE EndStep
    BY <1>10 DEF EndStep, TableInv, Merged
  <1>. QED BY <1>1, <1>2, <1>3, <1>4, <1>5, <1>6, <1>7, <1>8, <1>9, <1>10
       DEF Next, Driver, Terminated

-----------------------------------------------------------------------------
(***************************************************************************)
(* The other parts of the invariant.                                       *)
(***************************************************************************)
\* Only balancing and the end of the step touch the responses of a row.
LEMMA ResponsesKept ==
    ASSUME IInv, [Next]_vars, Merged, pc \notin {"balance", "end"}
    PROVE  /\ batch'["responses"] = batch["responses"]
           /\ \A k \in Rows : SampleOf(k)' = SampleOf(k)
  <1>. USE DEF Goto, Fail, data, weights, mode
  <1>. SUFFICES batch'["responses"] = batch["responses"]
    BY DEF SampleOf
  <1>1. "responses" \in DOMAIN batch
    BY DEF IInv, TableInv, OneRowEach
  <1>2. CASE Reward
    BY <1>1, <1>2 DEF Reward, With
  <1>3. CASE OldLogProb
    BY <1>1, <1>3 DEF OldLogProb, With
  <1>4. CASE RefAndValues
    BY <1>1, <1>4 DEF RefAndValues, With
  <1>5. CASE Advantage
    BY <1>1, <1>5 DEF Advantage, WithRewards, With
  <1>6. CASE RewardArrives \/ GetReward \/ BuildTeacherBatch \/ UpdateCritic
             \/ BeginUpdate \/ TrainMiniBatch \/ EndUpdate \/ UNCHANGED vars
    BY <1>6 DEF RewardArrives, GetReward, BuildTeacherBatch, UpdateCritic,
                BeginUpdate, TrainMiniBatch, EndUpdate, vars
  <1>7. CASE LoadBatch \/ Generate \/ Baseline \/ Merge \/ Balance \/ EndStep
    BY <1>7 DEF Merged, LoadBatch, Generate, Baseline, Merge, Balance, EndStep
  <1>. QED BY <1>2, <1>3, <1>4, <1>5, <1>6, <1>7 DEF Next, Driver, Terminated

LEMMA RolloutStep == IInv /\ [Next]_vars => RolloutInv'
  <1>. SUFFICES ASSUME IInv, [Next]_vars PROVE RolloutInv'
    OBVIOUS
  <1>0. RolloutInv
    BY DEF IInv
  <1>. USE DEF Goto, weights, mode, data, Fail
  <1>1. CASE LoadBatch
    BY <1>0, <1>1 DEF LoadBatch, RolloutInv, With, NoTable
  <1>2. CASE Generate
    <2>1. /\ gen' = [c \in GeneratedColumns |->
                    [k \in Rows |-> [from |-> {Interleaved(k)}, by |-> actor]]]
          /\ actor' = actor /\ config' = config /\ batch' = batch
          /\ pc' \in {"baseline", "merge"}
          /\ pc' = "baseline" => config.estimator = "remax"
      BY <1>2 DEF Generate
    <2>2. GeneratedColumns' = GeneratedColumns
      BY <2>1 DEF GeneratedColumns
    <2>3. pc = "generate"
      BY <1>2 DEF Generate
    <2>. QED BY <1>0, <2>1, <2>2, <2>3 DEF RolloutInv
  <1>3. CASE Baseline
    <2>1. CASE config.scores = "fn" \/ NoRewardFn
      BY <1>3, <2>1 DEF Baseline, RolloutInv
    <2>2. CASE ~ (config.scores = "fn" \/ NoRewardFn)
      <3>. DEFINE base == [p \in Prompts |-> [from |-> {<<p, 0>>}, by |-> actor]]
      <3>1. /\ pc = "baseline" /\ pc' = "merge" /\ batch' = With(batch, "reward_baselines", base)
            /\ config' = config /\ actor' = actor /\ gen' = gen
        BY <1>3, <2>2 DEF Baseline
      <3>2. GeneratedColumns' = GeneratedColumns
        BY <3>1 DEF GeneratedColumns
      <3>3. \A p \in Prompts : base[p].from = {<<p, 0>>}
        OBVIOUS
      <3>. HIDE DEF base
      <3>4. /\ DOMAIN batch' = DOMAIN batch \cup {"reward_baselines"}
            /\ \A c \in DOMAIN batch', p \in Prompts : batch'[c][p].from = {<<p, 0>>}
        BY <1>0, <3>1, <3>3 DEF RolloutInv, With
      <3>. QED BY <1>0, <3>1, <3>2, <3>4 DEF RolloutInv
    <2>. QED BY <2>1, <2>2
  <1>4. CASE RewardArrives \/ UNCHANGED vars
    <2>1. UNCHANGED <<pc, batch, gen, actor, config>>
      BY <1>4 DEF RewardArrives, vars
    <2>2. GeneratedColumns' = GeneratedColumns
      BY <2>1 DEF GeneratedColumns
    <2>. QED BY <1>0, <2>1, <2>2 DEF RolloutInv
  <1>5. CASE ~ (LoadBatch \/ Generate \/ Baseline \/ RewardArrives \/ UNCHANGED vars)
    <2>1. pc' \notin {"generate", "baseline", "merge"}
      BY <1>5 DEF Next, Driver, Terminated, Merge, Balance, Reward, OldLogProb,
                  RefAndValues, GetReward, BuildTeacherBatch, Advantage,
                  UpdateCritic, BeginUpdate, TrainMiniBatch, EndUpdate, EndStep
    <2>. QED BY <2>1 DEF RolloutInv
  <1>. QED BY <1>1, <1>2, <1>3, <1>4, <1>5

LEMMA VersionStep == IInv /\ [Next]_vars => VersionInv'
  <1>. SUFFICES ASSUME IInv, [Next]_vars PROVE VersionInv'
    OBVIOUS
  <1>0. VersionInv /\ TypeOK /\ TableInv
    BY DEF IInv
  <1>. USE DEF Goto, weights, mode, data, Fail, PolicyColumns
  <1>1. CASE LoadBatch \/ Generate \/ Baseline \/ EndStep \/ EndUpdate
    BY <1>1 DEF LoadBatch, Generate, Baseline, EndStep, EndUpdate, VersionInv, Merged
  <1>2. CASE Merge
    <2>1. /\ gen = [c \in GeneratedColumns |->
                    [k \in Rows |-> [from |-> {Interleaved(k)}, by |-> actor]]]
          /\ DOMAIN batch \subseteq {"uid", "reward_baselines"}
      BY <1>2 DEF IInv, RolloutInv, Merge
    <2>2. /\ actor' = actor /\ pc' = "balance"
          /\ \A c \in DOMAIN batch' : c \notin {"uid", "reward_baselines"} =>
                c \in GeneratedColumns /\ batch'[c] = gen[c]
      BY <1>2, <2>1 DEF Merge
    <2>3. \A c \in DOMAIN batch' \cap PolicyColumns, k \in Rows : batch'[c][k].by = actor
      <3>. TAKE c \in DOMAIN batch' \cap PolicyColumns, k \in Rows
      <3>1. c \notin {"uid", "reward_baselines"}
        OBVIOUS
      <3>2. c \in GeneratedColumns /\ batch'[c] = gen[c]
        BY <2>2, <3>1
      <3>3. gen[c][k].by = actor
        BY <2>1, <3>2
      <3>. QED BY <3>2, <3>3
    <2>. QED BY <2>2, <2>3 DEF VersionInv, Policy
  <1>3. CASE Balance
    <2>1. actor' = actor /\ pc' = "reward" /\ pc = "balance"
      BY <1>3 DEF Balance
    <2>2. \A c \in DOMAIN batch \cap PolicyColumns, k \in Rows : batch[c][k].by = actor
      BY <1>0, <2>1 DEF VersionInv, Policy, Merged
    <2>3. \A order \in Orders, k \in Rows : order[k] \in Rows
      BY OrdersPermute
    <2>4. \A c \in DOMAIN batch' \cap PolicyColumns, k \in Rows : batch'[c][k].by = actor
      BY <1>3, <2>2, <2>3 DEF Balance, Reordered
    <2>. QED BY <2>1, <2>4 DEF VersionInv, Policy
  <1>4. CASE Reward \/ RefAndValues \/ Advantage
    <2>1. CASE pc' = "failed"
      BY <2>1 DEF VersionInv, Merged
    <2>2. CASE pc' # "failed"
      <3>1. /\ actor' = actor /\ Merged /\ pc \notin {"training", "end"}
            /\ pc' \notin {"training", "end"}
        BY <1>4, <2>2 DEF Reward, RefAndValues, Advantage, Merged
      <3>2. \A c \in DOMAIN batch' : c \in PolicyColumns => c \in DOMAIN batch /\ batch'[c] = batch[c]
        BY <1>4, <2>2 DEF Reward, RefAndValues, Advantage, WithRewards, With
      <3>. QED BY <1>0, <3>1, <3>2 DEF VersionInv, Policy
    <2>. QED BY <2>1, <2>2
  <1>5. CASE OldLogProb
    <2>1. CASE config.bypass /\ ~ HasRolloutLogProbs
      BY <1>5, <2>1 DEF OldLogProb, VersionInv, Merged
    <2>2. CASE ~ (config.bypass /\ ~ HasRolloutLogProbs)
      <3>. DEFINE col == IF config.bypass \/ Reuses
                         THEN batch["rollout_log_probs"] ELSE Computed(actor)
      <3>1. /\ actor' = actor /\ pc' = "ref_values" /\ pc = "old_log_prob" /\ Merged
            /\ batch' = With(batch, "old_log_probs", col)
        BY <1>5, <2>2 DEF OldLogProb, Merged
      <3>2. \A c \in DOMAIN batch \cap PolicyColumns, k \in Rows : batch[c][k].by = actor
        BY <1>0, <3>1 DEF VersionInv, Policy
      <3>3. \A k \in Rows : Computed(actor)[k].by = actor
        BY DEF Computed
      <3>4. \A k \in Rows : col[k].by = actor
        BY <2>2, <3>2, <3>3 DEF Reuses, HasRolloutLogProbs
      <3>. HIDE DEF col
      <3>5. \A c \in DOMAIN batch' \cap PolicyColumns, k \in Rows : batch'[c][k].by = actor
        BY <3>1, <3>2, <3>4 DEF With
      <3>. QED BY <3>1, <3>5 DEF VersionInv, Policy
    <2>. QED BY <2>1, <2>2
  <1>6. CASE GetReward \/ BuildTeacherBatch \/ UpdateCritic \/ RewardArrives \/ UNCHANGED vars
    <2>1. /\ actor' = actor /\ batch' = batch /\ update' = update
          /\ pc' # "failed" => \/ pc' = pc
                               \/ /\ Merged /\ pc \notin {"training", "end"}
                                  /\ pc' \notin {"training", "end"}
      BY <1>6 DEF GetReward, BuildTeacherBatch, UpdateCritic, RewardArrives, vars, Merged
    <2>2. CASE pc' = "failed"
      BY <2>2 DEF VersionInv, Merged
    <2>. QED BY <1>0, <2>1, <2>2 DEF VersionInv, Policy, Merged
  <1>7. CASE BeginUpdate
    <2>1. CASE pc' \in {"failed", "end"}
      BY <2>1 DEF VersionInv, Merged
    <2>2. CASE pc' \notin {"failed", "end"}
      <3>1. /\ pc = "update_actor" /\ pc' = "training" /\ batch' = batch
            /\ update' = [NoUpdate EXCEPT !.start = actor, !.epoch = 1, !.mini = 1]
        BY <1>7, <2>2 DEF BeginUpdate
      <3>2. update'.start = actor
        BY <3>1 DEF NoUpdate
      <3>. QED BY <1>0, <3>1, <3>2 DEF VersionInv, Policy, Merged
    <2>. QED BY <2>1, <2>2
  <1>8. CASE TrainMiniBatch
    <2>1. CASE pc' = "failed"
      BY <2>1 DEF VersionInv, Merged
    <2>2. CASE pc' # "failed"
      <3>1. /\ pc = "training" /\ pc' = "training" /\ batch' = batch
        BY <1>8, <2>2 DEF TrainMiniBatch
      <3>2. update'.start = update.start
        BY <1>0, <1>8, <2>2 DEF TrainMiniBatch, TypeOK
      <3>. QED BY <1>0, <3>1, <3>2 DEF VersionInv, Policy, Merged
    <2>. QED BY <2>1, <2>2
  <1>. QED BY <1>1, <1>2, <1>3, <1>4, <1>5, <1>6, <1>7, <1>8
       DEF Next, Driver, Terminated

LEMMA RewardStep == IInv /\ [Next]_vars => RewardInv'
  <1>. SUFFICES ASSUME IInv, [Next]_vars PROVE RewardInv'
    OBVIOUS
  <1>0. RewardInv /\ TypeOK /\ TableInv
    BY DEF IInv
  <1>. USE DEF Goto, weights, mode, data, Fail
  <1>1. CASE Reward
    <2>1. Merged /\ pc \notin {"balance", "end"}
      BY <1>1 DEF Reward, Merged
    <2>2. Scores \in [Rows -> Cell] /\ \A k \in Rows : Scores[k].from = {SampleOf(k)}
      BY <1>0, <2>1, ScoresTyped DEF TableInv
    <2>3. \A k \in Rows : SampleOf(k)' = SampleOf(k)
      BY <2>1, ResponsesKept
    <2>4. /\ pc' = "old_log_prob" /\ config' = config /\ free' = RewardFree
          /\ IF config.async /\ ~ RewardFree THEN future'.value = Scores
             ELSE reward' = Scores
      BY <1>1 DEF Reward
    <2>. QED BY <2>2, <2>3, <2>4 DEF RewardInv, OfRows, Awaits
  <1>2. CASE OldLogProb \/ RefAndValues
    <2>1. CASE pc' = "failed"
      BY <2>1 DEF RewardInv
    <2>2. CASE pc' # "failed"
      <3>1. Merged /\ pc \in {"old_log_prob", "ref_values"}
        BY <1>2 DEF OldLogProb, RefAndValues, Merged
      <3>2. \A k \in Rows : SampleOf(k)' = SampleOf(k)
        BY <3>1, ResponsesKept
      <3>3. /\ pc' \in {"ref_values", "adv"}
            /\ UNCHANGED <<config, free, future, reward>>
        BY <1>2, <2>2 DEF OldLogProb, RefAndValues
      <3>. QED BY <1>0, <3>1, <3>2, <3>3 DEF RewardInv, OfRows, Awaits
    <2>. QED BY <2>1, <2>2
  <1>3. CASE RewardArrives
    <2>1. /\ UNCHANGED <<config, pc, batch, free, reward>>
          /\ future'.value = future.value
      BY <1>0, <1>3 DEF RewardArrives, TypeOK
    <2>2. \A k \in Rows : SampleOf(k)' = SampleOf(k)
      BY <2>1 DEF SampleOf
    <2>. QED BY <1>0, <2>1, <2>2 DEF RewardInv, OfRows, Awaits
  <1>4. CASE GetReward
    <2>1. /\ pc = "adv" /\ pc' = "teacher" /\ batch' = batch
          /\ reward' = IF Awaits THEN future.value ELSE reward
      BY <1>4 DEF GetReward
    <2>2. \A k \in Rows : SampleOf(k)' = SampleOf(k)
      BY <2>1 DEF SampleOf
    <2>. QED BY <1>0, <2>1, <2>2 DEF RewardInv, OfRows
  <1>5. CASE BuildTeacherBatch
    <2>1. pc = "teacher" /\ batch' = batch /\ reward' = reward
          /\ pc' \in {"failed", "advantage"}
      BY <1>5 DEF BuildTeacherBatch
    <2>2. \A k \in Rows : SampleOf(k)' = SampleOf(k)
      BY <2>1 DEF SampleOf
    <2>. QED BY <1>0, <2>1, <2>2 DEF RewardInv, OfRows
  <1>6. CASE UNCHANGED vars
    <2>1. \A k \in Rows : SampleOf(k)' = SampleOf(k)
      BY <1>6 DEF SampleOf, vars
    <2>. QED BY <1>0, <1>6, <2>1 DEF RewardInv, OfRows, Awaits, vars
  <1>7. CASE ~ (Reward \/ OldLogProb \/ RefAndValues \/ RewardArrives \/ GetReward
                \/ BuildTeacherBatch \/ UNCHANGED vars)
    <2>1. pc' \notin {"old_log_prob", "ref_values", "adv", "teacher", "advantage"}
      BY <1>7 DEF Next, Driver, Terminated, LoadBatch, Generate, Baseline, Merge,
                  Balance, Advantage, UpdateCritic, BeginUpdate, TrainMiniBatch,
                  EndUpdate, EndStep
    <2>. QED BY <2>1 DEF RewardInv
  <1>. QED BY <1>1, <1>2, <1>3, <1>4, <1>5, <1>6, <1>7

LEMMA ModeStep == IInv /\ [Next]_vars => ModeInv'
  <1>. SUFFICES ASSUME IInv, [Next]_vars PROVE ModeInv'
    OBVIOUS
  <1>0. ModeInv
    BY DEF IInv
  <1>. USE DEF Goto, weights, mode, data, Fail, ModeInv
  <1>1. CASE LoadBatch
    BY <1>0, <1>1 DEF LoadBatch
  <1>2. CASE Reward
    BY <1>0, <1>2 DEF Reward, RewardFree
  <1>3. CASE OldLogProb
    BY <1>0, <1>3 DEF OldLogProb
  <1>4. CASE EndStep
    BY <1>0, <1>4 DEF EndStep
  <1>5. CASE ~ (LoadBatch \/ Reward \/ OldLogProb \/ EndStep)
    <2>1. UNCHANGED <<config, bypassed, free, missing>>
      BY <1>5 DEF Next, Driver, Terminated, Generate, Baseline, Merge, Balance,
                  RewardArrives, RefAndValues, GetReward, BuildTeacherBatch,
                  Advantage, UpdateCritic, BeginUpdate, TrainMiniBatch, EndUpdate, vars
    <2>. QED BY <1>0, <2>1
  <1>. QED BY <1>1, <1>2, <1>3, <1>4, <1>5

LEMMA ColumnStep == IInv /\ [Next]_vars => ColumnInv'
  <1>. SUFFICES ASSUME IInv, [Next]_vars PROVE ColumnInv'
    OBVIOUS
  <1>0. ColumnInv /\ TypeOK
    BY DEF IInv
  <1>. USE DEF Goto, weights, mode, data, Fail
  <1>1. CASE Merge
    <2>1. pc' = "balance" /\ config' = config
          /\ DOMAIN batch' = DOMAIN batch \cup DOMAIN gen
      BY <1>1 DEF Merge
    <2>2. DOMAIN gen = GeneratedColumns /\ DOMAIN batch \subseteq {"uid", "reward_baselines"}
      BY <1>1 DEF IInv, RolloutInv, Merge
    <2>3. "rollout_log_probs" \in GeneratedColumns <=> config.rolloutLogProbs
      BY DEF GeneratedColumns
    <2>. QED BY <2>1, <2>2, <2>3 DEF ColumnInv
  <1>2. CASE Balance
    <2>1. pc = "balance" /\ pc' = "reward" /\ config' = config
          /\ DOMAIN batch' = DOMAIN batch
      BY <1>2 DEF Balance, Reordered
    <2>. QED BY <1>0, <2>1 DEF ColumnInv
  <1>3. CASE Reward
    <2>1. pc = "reward" /\ pc' = "old_log_prob" /\ config' = config
          /\ ("rollout_log_probs" \in DOMAIN batch' <=> "rollout_log_probs" \in DOMAIN batch)
      BY <1>3 DEF Reward, With
    <2>. QED BY <1>0, <2>1 DEF ColumnInv
  <1>4. CASE OldLogProb
    <2>1. \/ pc' = "failed"
          \/ pc' = "ref_values" /\ "old_log_probs" \in DOMAIN batch'
      BY <1>4 DEF OldLogProb, With
    <2>. QED BY <2>1 DEF ColumnInv
  <1>5. CASE RefAndValues
    <2>1. pc = "ref_values" /\ pc' = "adv" /\ DOMAIN batch \subseteq DOMAIN batch'
      BY <1>5 DEF RefAndValues, With
    <2>. QED BY <1>0, <2>1 DEF ColumnInv
  <1>6. CASE Advantage
    <2>1. CASE pc' = "failed"
      BY <2>1 DEF ColumnInv
    <2>2. CASE pc' # "failed"
      <3>1. /\ pc = "advantage" /\ pc' = "update_critic"
            /\ UNCHANGED <<config, bypassed, shown>>
            /\ batch' = IF SkipsAdvantage THEN WithRewards
                        ELSE With(WithRewards, "advantages", Advantages)
        BY <1>6, <2>2 DEF Advantage
      <3>2. DOMAIN batch \subseteq DOMAIN WithRewards
        BY DEF WithRewards, With
      <3>3. DOMAIN batch \subseteq DOMAIN batch'
        BY <3>1, <3>2 DEF With
      <3>4. SkipsAdvantage \/ "advantages" \in DOMAIN batch'
        BY <3>1 DEF With
      <3>5. SkipsAdvantage' = SkipsAdvantage
        BY <3>1 DEF SkipsAdvantage, Vopd, WorkerVopd
      <3>. QED BY <1>0, <3>1, <3>3, <3>4, <3>5 DEF ColumnInv, HasAdvantages
    <2>. QED BY <2>1, <2>2
  <1>7. CASE GetReward \/ BuildTeacherBatch
    <2>1. /\ pc \in {"adv", "teacher"} /\ pc' \in {"teacher", "advantage", "failed"}
          /\ batch' = batch
      BY <1>7 DEF GetReward, BuildTeacherBatch
    <2>. QED BY <1>0, <2>1 DEF ColumnInv
  <1>8. CASE UpdateCritic \/ BeginUpdate \/ TrainMiniBatch \/ RewardArrives \/ UNCHANGED vars
    <2>1. /\ UNCHANGED <<config, batch, bypassed, shown>>
          /\ \/ pc' = pc
             \/ pc' \in {"failed", "end"}
             \/ /\ pc \in {"update_critic", "update_actor", "training"}
                /\ pc' \in {"update_critic", "update_actor", "training"}
      BY <1>8 DEF UpdateCritic, BeginUpdate, TrainMiniBatch, RewardArrives, vars
    <2>2. SkipsAdvantage' = SkipsAdvantage /\ HasAdvantages' = HasAdvantages
      BY <2>1 DEF SkipsAdvantage, Vopd, WorkerVopd, HasAdvantages
    <2>. QED BY <1>0, <2>1, <2>2 DEF ColumnInv
  <1>9. CASE LoadBatch \/ Generate \/ Baseline \/ EndUpdate \/ EndStep
    <2>1. pc' \in {"generate", "baseline", "merge", "failed", "end", "done", "load"}
      BY <1>9 DEF LoadBatch, Generate, Baseline, EndUpdate, EndStep
    <2>. QED BY <2>1 DEF ColumnInv
  <1>. QED BY <1>1, <1>2, <1>3, <1>4, <1>5, <1>6, <1>7, <1>8, <1>9
       DEF Next, Driver, Terminated

\* _get_solution finds a good response to the same prompt, other than the one
\* the teacher judges, whenever there is one.
LEMMA DemoIsRight ==
    ASSUME TypeOK, Merged, OneRowEach(batch), Aligned(batch), OfRows(reward),
           NEW k \in Rows
    PROVE  LET others == (good \cap SamplesOf(SampleOf(k)[1])) \ {SampleOf(k)}
           IN IF DemoFor(k) = None THEN others = {} ELSE DemoFor(k) \in others
  <1>. DEFINE others == (good \cap SamplesOf(SampleOf(k)[1])) \ {SampleOf(k)}
  <1>1. \A j \in Rows : /\ SampleOf(j) \in Samples /\ reward[j].from = {SampleOf(j)}
                        /\ SampleOf(j) = SampleOf(k) => j = k
    BY MergedRows DEF OfRows
  <1>2. \A s \in Samples : \E j \in Rows : SampleOf(j) = s
    BY MergedRows
  <1>3. \A j \in Rows : j \in Solutions(k) <=>
            /\ SampleOf(j)[1] = SampleOf(k)[1] /\ SampleOf(j) \in good /\ j # k
    BY <1>1, SameUid DEF Solutions
  <1>4. \A j \in Solutions(k) : j \in Rows /\ SampleOf(j) \in others
    <2>1. \A j \in Solutions(k) : j \in Rows
      BY DEF Solutions
    <2>. QED BY <1>1, <1>3, <2>1 DEF SamplesOf
  <1>5. \A s \in others : \E j \in Rows : SampleOf(j) = s /\ j \in Solutions(k)
    <2>. TAKE s \in others
    <2>1. s \in Samples /\ s[1] = SampleOf(k)[1] /\ s # SampleOf(k) /\ s \in good
      BY DEF SamplesOf
    <2>2. PICK j \in Rows : SampleOf(j) = s
      BY <1>2, <2>1
    <2>. QED BY <1>3, <2>1, <2>2
  <1>6. CASE Solutions(k) = {}
    <2>1. DemoFor(k) = None
      BY <1>6 DEF DemoFor
    <2>2. others = {}
      BY <1>5, <1>6
    <2>. QED BY <2>1, <2>2
  <1>7. CASE Solutions(k) # {}
    <2>1. First(Solutions(k)) \in Solutions(k)
      BY <1>7, FirstOf DEF Solutions
    <2>2. DemoFor(k) = SampleOf(First(Solutions(k)))
      BY <1>7 DEF DemoFor, SampleOf
    <2>3. DemoFor(k) \in others
      BY <1>4, <2>1, <2>2
    <2>4. DemoFor(k) # None
      BY <1>1, <1>4, <2>1, <2>2, SampleCells
    <2>. QED BY <2>3, <2>4
  <1>. QED BY <1>6, <1>7

\* An image or an answer is that of the prompt, and is there if none is missing.
LEMMA InputIsRight ==
    ASSUME TypeOK, Merged, OneRowEach(batch), Aligned(batch), NEW k \in Rows
    PROVE  /\ InputFor(k) \in {None, <<SampleOf(k)[1], 0>>}
           /\ InputFor(k) = None => missing # {}
  <1>1. SampleOf(k) \in Samples /\ UidOf(k) = {<<SampleOf(k)[1], 0>>}
    BY MergedRows
  <1>2. TheOne(UidOf(k)) = <<SampleOf(k)[1], 0>>
    BY <1>1, TheOnly
  <1>3. <<SampleOf(k)[1], 0>> # None
    BY <1>1, SampleCells
  <1>. QED BY <1>2, <1>3 DEF InputFor

LEMMA ShownStep == IInv /\ [Next]_vars => ShownInv'
  <1>. SUFFICES ASSUME IInv, [Next]_vars PROVE ShownInv'
    OBVIOUS
  <1>0. ShownInv /\ TypeOK /\ TableInv
    BY DEF IInv
  <1>. USE DEF Goto, weights, mode, data, Fail
  <1>1. CASE BuildTeacherBatch
    <2>1. CASE Vopd /\ NoRewardFn /\ missing # {}
      BY <1>1, <2>1 DEF BuildTeacherBatch, ShownInv
    <2>2. CASE ~ (Vopd /\ NoRewardFn /\ missing # {})
      <3>1. /\ pc = "teacher" /\ pc' = "advantage"
            /\ shown' = IF Vopd THEN [k \in Rows |-> ShownTo(k)] ELSE None
            /\ UNCHANGED <<config, bypassed, batch, good, missing>>
        BY <1>1, <2>2 DEF BuildTeacherBatch
      <3>2. Merged /\ OneRowEach(batch) /\ Aligned(batch) /\ OfRows(reward)
        BY <1>0, <3>1 DEF Merged, TableInv, IInv, RewardInv
      <3>3. Vopd' = Vopd
        BY <3>1 DEF Vopd, WorkerVopd
      <3>4. Vopd => shown' # None
        <4>1. shown' \in [Rows -> Prompts \X (0 .. N) \cup {None}] \cup {None}
          BY TypeStep DEF TypeOK
        <4>2. CASE Vopd
          <5>1. shown' = [k \in Rows |-> ShownTo(k)]
            BY <3>1, <4>2
          <5>2. DOMAIN shown' = Rows /\ \A k \in Rows : shown'[k] = ShownTo(k)
            BY <5>1
          <5>3. \A k \in Rows : ShownTo(k) \in Prompts \X (0 .. N) \cup {None}
            <6>. TAKE k \in Rows
            <6>1. \A s \in Samples : s \in Prompts \X (0 .. N) /\ <<s[1], 0>> \in Prompts \X (0 .. N)
              BY SampleCells
            <6>2. SampleOf(k) \in Samples
              BY <1>0, <3>2, MergedRows
            <6>3. InputFor(k) \in Prompts \X (0 .. N) \cup {None}
              BY <1>0, <3>2, <6>1, <6>2, InputIsRight
            <6>4. DemoFor(k) = None \/ DemoFor(k) \in SamplesOf(SampleOf(k)[1])
              BY <1>0, <3>2, DemoIsRight
            <6>5. DemoFor(k) \in Prompts \X (0 .. N) \cup {None}
              BY <6>1, <6>4 DEF SamplesOf
            <6>. QED BY <6>3, <6>5 DEF ShownTo
          <5>4. shown' \in [Rows -> Prompts \X (0 .. N) \cup {None}]
            BY <5>1, <5>3
          <5>. QED BY <5>4, StepAssumption
        <4>. QED BY <4>2
      <3>5. ASSUME Vopd, NEW k \in Rows
            PROVE  RightlyShown(k)'
        <4>1. shown'[k] = ShownTo(k)
          BY <3>1, <3>5
        <4>2. SampleOf(k)' = SampleOf(k) /\ good' = good /\ missing' = missing
              /\ config' = config
          BY <3>1 DEF SampleOf
        <4>3. CASE config.teacher = "demo"
          <5>1. shown'[k] = DemoFor(k)
            BY <4>1, <4>3 DEF ShownTo
          <5>. QED BY <1>0, <3>2, <4>2, <4>3, <5>1, DemoIsRight DEF RightlyShown, SamplesOf
        <4>4. CASE config.teacher # "demo"
          <5>1. shown'[k] = InputFor(k)
            BY <4>1, <4>4 DEF ShownTo
          <5>. QED BY <1>0, <3>2, <4>2, <4>4, <5>1, InputIsRight DEF RightlyShown
        <4>. QED BY <4>3, <4>4
      <3>6. shown' # None => Vopd
        BY <3>1
      <3>. QED BY <3>1, <3>3, <3>4, <3>5, <3>6 DEF ShownInv
    <2>. QED BY <2>1, <2>2
  <1>2. CASE Advantage \/ UpdateCritic \/ BeginUpdate \/ TrainMiniBatch \/ EndUpdate
    <2>1. CASE pc' = "failed"
      BY <2>1 DEF ShownInv
    <2>2. CASE pc' # "failed"
      <3>1. /\ pc \in {"advantage", "update_critic", "update_actor", "training"}
            /\ pc' \in {"update_critic", "update_actor", "training", "end"}
            /\ UNCHANGED <<config, bypassed, shown, good, missing>>
        BY <1>2, <2>2 DEF Advantage, UpdateCritic, BeginUpdate, TrainMiniBatch, EndUpdate
      <3>2. Merged /\ pc \notin {"balance", "end"}
        BY <3>1 DEF Merged
      <3>3. \A k \in Rows : SampleOf(k)' = SampleOf(k)
        BY <3>2, ResponsesKept
      <3>4. \A k \in Rows : RightlyShown(k) => RightlyShown(k)'
        BY <3>1, <3>3 DEF RightlyShown, SamplesOf
      <3>5. Vopd' = Vopd
        BY <3>1 DEF Vopd, WorkerVopd
      <3>. QED BY <1>0, <3>1, <3>4, <3>5 DEF ShownInv
    <2>. QED BY <2>1, <2>2
  <1>3. CASE RewardArrives \/ UNCHANGED vars
    <2>1. UNCHANGED <<pc, config, bypassed, shown, good, missing, batch>>
      BY <1>3 DEF RewardArrives, vars
    <2>2. \A k \in Rows : RightlyShown(k) => RightlyShown(k)'
      BY <2>1 DEF RightlyShown, SamplesOf, SampleOf
    <2>3. Vopd' = Vopd
      BY <2>1 DEF Vopd, WorkerVopd
    <2>. QED BY <1>0, <2>1, <2>2, <2>3 DEF ShownInv
  <1>4. CASE EndStep
    BY <1>4 DEF EndStep, ShownInv
  <1>5. CASE LoadBatch \/ Generate \/ Baseline \/ Merge \/ Balance \/ Reward
             \/ OldLogProb \/ RefAndValues \/ GetReward
    <2>1. /\ shown' = shown
          /\ pc \notin {"advantage", "update_critic", "update_actor", "training",
                        "end", "failed"}
          /\ pc' \notin {"advantage", "update_critic", "update_actor", "training", "end"}
      BY <1>5 DEF LoadBatch, Generate, Baseline, Merge, Balance, Reward, OldLogProb,
                  RefAndValues, GetReward
    <2>. QED BY <1>0, <2>1 DEF ShownInv
  <1>. QED BY <1>1, <1>2, <1>3, <1>4, <1>5 DEF Next, Driver, Terminated

LEMMA UpdateStep == IInv /\ [Next]_vars => UpdateInv'
  <1>. SUFFICES ASSUME IInv, [Next]_vars PROVE UpdateInv'
    OBVIOUS
  <1>0. UpdateInv /\ TypeOK /\ VersionInv /\ ColumnInv
    BY DEF IInv
  <1>. USE DEF Goto, weights, mode, data, Fail
  <1>1. CASE BeginUpdate
    <2>1. CASE pc' = "training"
      <3>1. /\ update' = [NoUpdate EXCEPT !.start = actor, !.epoch = 1, !.mini = 1]
            /\ actor' = actor
        BY <1>1, <2>1 DEF BeginUpdate
      <3>2. update' = [start |-> actor, epoch |-> 1, mini |-> 1, anchors |-> {},
                       seen |-> [k \in Rows |-> 0]]
        BY <3>1 DEF NoUpdate
      <3>3. /\ update'.start = actor /\ update'.epoch = 1 /\ update'.mini = 1
            /\ update'.anchors = {}
        BY <3>2
      <3>4. update'.start = actor'
        BY <3>1, <3>3
      <3>. QED BY <3>3, <3>4 DEF UpdateInv
    <2>. QED BY <2>1 DEF UpdateInv
  <1>2. CASE TrainMiniBatch
    <2>1. CASE pc' = "failed"
      BY <2>1 DEF UpdateInv
    <2>2. CASE pc' # "failed"
      <3>. DEFINE rows == MiniRows(update.mini)
                  last == update.mini = MiniBatches
                  found == IF OnPolicy THEN {actor}
                           ELSE {batch["old_log_probs"][k].by : k \in rows}
      <3>1. /\ pc = "training" /\ update.epoch <= config.epochs /\ config' = config
            /\ rows \subseteq Rows
            /\ update.epoch \in Nat
        BY <1>0, <1>2 DEF TrainMiniBatch, MiniRows, TypeOK
      <3>2. update' = [update EXCEPT
                    !.mini = IF last THEN 1 ELSE @ + 1,
                    !.epoch = IF last THEN @ + 1 ELSE @,
                    !.anchors = @ \cup found,
                    !.seen = [k \in Rows |-> IF k \in rows THEN @[k] + 1 ELSE @[k]]]
        BY <1>2, <2>2 DEF TrainMiniBatch
      <3>3. found \subseteq {update.start}
        <4>1. CASE OnPolicy
          <5>1. config.epochs = 1 /\ update.epoch >= 1
            BY <1>0, <3>1, <4>1 DEF OnPolicy, UpdateInv
          <5>2. update.epoch = 1
            BY <3>1, <5>1
          <5>. QED BY <1>0, <3>1, <4>1, <5>2 DEF UpdateInv
        <4>2. CASE ~ OnPolicy
          <5>1. "old_log_probs" \in DOMAIN batch
            BY <1>0, <3>1 DEF ColumnInv
          <5>2. \A k \in Rows : batch["old_log_probs"][k].by = update.start
            BY <1>0, <3>1, <5>1 DEF VersionInv, Policy, PolicyColumns, Merged
          <5>. QED BY <3>1, <4>2, <5>2
        <4>. QED BY <4>1, <4>2
      <3>. HIDE DEF rows, found
      <3>4. /\ update'.start = update.start
            /\ update'.anchors = update.anchors \cup found
            /\ update'.epoch = IF last THEN update.epoch + 1 ELSE update.epoch
            /\ update'.mini = IF last THEN 1 ELSE update.mini + 1
        BY <1>0, <3>2 DEF TypeOK
      <3>5. OnPolicy' = OnPolicy
        BY <3>1 DEF OnPolicy, MiniBatches, MiniSize
      <3>6. OnPolicy => last
        BY <1>0, <3>1 DEF UpdateInv, OnPolicy
      <3>7. OnPolicy => update'.mini = 1 /\ update'.epoch # 1
        BY <1>0, <3>1, <3>4, <3>6 DEF UpdateInv
      <3>8. update'.epoch >= 1
        BY <1>0, <3>1, <3>4 DEF UpdateInv
      <3>9. update'.anchors \subseteq {update'.start}
        BY <1>0, <3>1, <3>3, <3>4 DEF UpdateInv
      <3>. QED BY <3>5, <3>7, <3>8, <3>9 DEF UpdateInv
    <2>. QED BY <2>1, <2>2
  <1>3. CASE RewardArrives \/ UNCHANGED vars
    <2>1. UNCHANGED <<pc, config, actor, update>>
      BY <1>3 DEF RewardArrives, vars
    <2>2. OnPolicy' = OnPolicy
      BY <2>1 DEF OnPolicy, MiniBatches, MiniSize
    <2>. QED BY <1>0, <2>1, <2>2 DEF UpdateInv
  <1>4. CASE ~ (BeginUpdate \/ TrainMiniBatch \/ RewardArrives \/ UNCHANGED vars)
    <2>1. pc' # "training"
      BY <1>4 DEF Next, Driver, Terminated, LoadBatch, Generate, Baseline, Merge,
                  Balance, Reward, OldLogProb, RefAndValues, GetReward,
                  BuildTeacherBatch, Advantage, UpdateCritic, EndUpdate, EndStep
    <2>. QED BY <2>1 DEF UpdateInv
  <1>. QED BY <1>1, <1>2, <1>3, <1>4

LEMMA FailureStep == IInv /\ [Next]_vars => ColumnsAreThere'
  <1>. SUFFICES ASSUME IInv, [Next]_vars PROVE ColumnsAreThere'
    OBVIOUS
  <1>0. TypeOK /\ ColumnInv /\ ModeInv /\ ShownInv /\ ColumnsAreThere
    BY DEF IInv
  <1>. USE DEF Goto, weights, mode, data, Fail
  <1>1. config' = config
    BY DEF Next, Driver, Terminated, LoadBatch, Generate, Baseline, Merge, Balance,
           Reward, RewardArrives, OldLogProb, RefAndValues, GetReward,
           BuildTeacherBatch, Advantage, UpdateCritic, BeginUpdate, TrainMiniBatch,
           EndUpdate, EndStep, vars
  <1>2. MayFail' = MayFail
    BY <1>1 DEF MayFail, WorkerVopd, UsesCritic, NoRewardFn
  <1>. SUFFICES ASSUME pc' = "failed" PROVE MayFail
    BY <1>2 DEF ColumnsAreThere
  <1>3. CASE Baseline
    BY <1>3 DEF Baseline, IInv, RolloutInv, MayFail
  <1>4. CASE OldLogProb
    <2>1. config.bypass /\ ~ HasRolloutLogProbs /\ pc = "old_log_prob"
      BY <1>4 DEF OldLogProb
    <2>. QED BY <1>0, <2>1 DEF ColumnInv, HasRolloutLogProbs, MayFail
  <1>5. CASE BuildTeacherBatch
    <2>1. NoRewardFn /\ missing # {}
      BY <1>5 DEF BuildTeacherBatch
    <2>. QED BY <1>0, <2>1 DEF NoRewardFn, ModeInv, MayFail
  <1>6. CASE Advantage
    <2>1. free /\ ~ SkipsAdvantage /\ pc = "advantage"
      BY <1>6 DEF Advantage
    <2>2. config.teacher \in {"image", "hint"} /\ ~ config.fallback
      BY <1>0, <2>1 DEF ModeInv
    <2>3. CASE ~ Vopd
      BY <1>0, <2>2, <2>3 DEF Vopd, WorkerVopd, ModeInv, MayFail
    <2>4. CASE Vopd
      <3>1. PICK k \in Rows : shown[k] = None
        BY <2>1, <2>4 DEF SkipsAdvantage
      <3>2. RightlyShown(k)
        BY <1>0, <2>1, <2>4 DEF ShownInv
      <3>3. missing # {}
        BY <2>2, <3>1, <3>2 DEF RightlyShown
      <3>. QED BY <1>0, <2>2, <3>3 DEF ModeInv, MayFail
    <2>. QED BY <2>3, <2>4
  <1>7. CASE UpdateCritic
    <2>1. UsesCritic /\ ~ HasAdvantages /\ pc = "update_critic"
      BY <1>7 DEF UpdateCritic
    <2>2. WorkerVopd
      BY <1>0, <2>1 DEF ColumnInv, SkipsAdvantage, Vopd
    <2>. QED BY <2>1, <2>2 DEF MayFail
  <1>8. CASE BeginUpdate
    <2>1. /\ pc = "update_actor"
          /\ IF WorkerVopd THEN shown = None ELSE ~ HasAdvantages
      BY <1>8 DEF BeginUpdate
    <2>2. CASE WorkerVopd
      <3>1. ~ Vopd
        BY <1>0, <2>1, <2>2 DEF ShownInv
      <3>. QED BY <1>0, <2>2, <3>1 DEF Vopd, ModeInv, MayFail
    <2>3. CASE ~ WorkerVopd
      BY <1>0, <2>1, <2>3 DEF ColumnInv, SkipsAdvantage, Vopd
    <2>. QED BY <2>2, <2>3
  <1>9. CASE TrainMiniBatch
    <2>1. pc = "training" /\ \E k \in MiniRows(update.mini) : LacksAdvantage(k)
      BY <1>9 DEF TrainMiniBatch
    <2>2. PICK k \in Rows : LacksAdvantage(k)
      BY <2>1 DEF MiniRows
    <2>. QED BY <1>0, <2>1, <2>2 DEF LacksAdvantage, ColumnInv, SkipsAdvantage
  <1>10. CASE RewardArrives \/ UNCHANGED vars
    BY <1>0, <1>10 DEF RewardArrives, vars, ColumnsAreThere
  <1>11. CASE LoadBatch \/ Generate \/ Merge \/ Balance \/ Reward \/ RefAndValues
              \/ GetReward \/ EndUpdate \/ EndStep
    BY <1>11 DEF LoadBatch, Generate, Merge, Balance, Reward, RefAndValues, GetReward,
                 EndUpdate, EndStep
  <1>. QED BY <1>3, <1>4, <1>5, <1>6, <1>7, <1>8, <1>9, <1>10, <1>11
       DEF Next, Driver, Terminated

-----------------------------------------------------------------------------
(***************************************************************************)
(* The theorems.                                                           *)
(***************************************************************************)
LEMMA InvHolds == Spec => []IInv
  <1>1. IInv /\ [Next]_vars => IInv'
    BY TypeStep, TableStep, RolloutStep, VersionStep, ColumnStep, RewardStep,
       ModeStep, ShownStep, UpdateStep, FailureStep DEF IInv
  <1>. QED BY InvAtStart, <1>1, PTL DEF Spec

\* The table never holds a column of the wrong shape, nor a cell that is not
\* made from samples of the batch.
THEOREM TypesAreKept == Spec => []TypeOK
  <1>1. IInv => TypeOK
    BY DEF IInv
  <1>. QED BY InvHolds, <1>1, PTL

\* Repeating, reordering and computing in another process keep every column of a
\* row about the response of that row, and a GRPO advantage compares it with
\* all responses to its prompt.
THEOREM RowsStayAligned == Spec => []RowsAligned
  <1>1. IInv => RowsAligned
    <2>. SUFFICES ASSUME IInv, Merged, NEW k \in Rows, NEW c \in DOMAIN batch
         PROVE  CASE c \in {"uid", "reward_baselines"} ->
                        batch[c][k].from = {<<SampleOf(k)[1], 0>>}
                  [] c = "advantages" ->
                        /\ SampleOf(k) \in batch[c][k].from
                        /\ batch[c][k].from \subseteq SamplesOf(SampleOf(k)[1])
                        /\ config.estimator = "grpo" =>
                                batch[c][k].from = SamplesOf(SampleOf(k)[1])
                  [] OTHER -> batch[c][k].from = {SampleOf(k)}
      BY DEF RowsAligned
    <2>1. Speaks(c, batch[c][k], SampleIn(batch, k))
      BY DEF IInv, TableInv, Aligned
    <2>2. SampleIn(batch, k) = SampleOf(k)
      BY DEF SampleIn, SampleOf
    <2>. QED BY <2>1, <2>2 DEF Speaks
  <1>. QED BY InvHolds, <1>1, PTL

\* Every mini-batch of a step is measured against the weights that generated the
\* responses of the step.
THEOREM StepsAreOnPolicy == Spec => []OnPolicyStep
  <1>1. IInv => OnPolicyStep
    <2>. SUFFICES ASSUME IInv, pc = "training"
         PROVE  /\ update.anchors \subseteq {update.start}
                /\ \A k \in Rows : batch["responses"][k].by = update.start
      BY DEF OnPolicyStep
    <2>1. "responses" \in DOMAIN batch
      BY DEF IInv, TableInv, Merged, OneRowEach
    <2>. QED BY <2>1 DEF IInv, UpdateInv, VersionInv, Policy, PolicyColumns, Merged
  <1>. QED BY InvHolds, <1>1, PTL

\* The teacher is shown a good response to the same prompt other than the one it
\* judges, one whenever there is one, or the image or answer of the prompt.
THEOREM TeachersSeeTheirOwn == Spec => []TeacherSeesItsOwn
  <1>1. IInv => TeacherSeesItsOwn
    <2>. SUFFICES ASSUME IInv, shown # None, Merged, NEW k \in Rows
         PROVE  LET others == (good \cap SamplesOf(SampleOf(k)[1])) \ {SampleOf(k)}
                IN IF config.teacher = "demo"
                   THEN IF shown[k] = None THEN others = {} ELSE shown[k] \in others
                   ELSE shown[k] \in {None, <<SampleOf(k)[1], 0>>}
      BY DEF TeacherSeesItsOwn
    <2>1. RightlyShown(k)
      BY DEF IInv, ShownInv, Merged
    <2>. QED BY <2>1 DEF RightlyShown
  <1>. QED BY InvHolds, <1>1, PTL

\* Only the configurations of MayFail run into a column nobody has filled.
THEOREM ColumnsAreFilled == Spec => []ColumnsAreThere
  <1>1. IInv => ColumnsAreThere
    BY DEF IInv
  <1>. QED BY InvHolds, <1>1, PTL

=============================================================================
