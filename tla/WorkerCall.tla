------------------------------ MODULE WorkerCall ------------------------------
(***************************************************************************)
(* One call of a worker group on a batch, as compute_log_prob: the driver  *)
(* balances the batch and sends every data-parallel rank its rows; each    *)
(* rank forms micro-batches, runs them through the model together with all *)
(* other ranks, and puts the results back in order; the driver collects    *)
(* them.                                                                   *)
(*                                                                         *)
(* The workers form a mesh of dp times sp ranks; the sp ranks of a         *)
(* sequence-parallel group share their rows.  The model is sharded over    *)
(* all workers, so that a forward pass is a collective of all of them.     *)
(* A result is the row it was computed from.                               *)
(***************************************************************************)
EXTENDS SeqlenBalancing

CONSTANTS
    Configs,        \* the batches and options the call is made with
    Width           \* the padded length of a row, the most tokens it can have

ASSUME CallAssumption ==
    /\ Width \in Nat \ {0}
    /\ \A c \in Configs :
        /\ c.tokens \subseteq 1 .. Width /\ c.tokens # {}   \* lengths of rows
        /\ c.dp \in Nat \ {0} /\ c.sp \in Nat \ {0}
        /\ c.groups \in Nat \ {0} /\ c.n \in Nat \ {0}
        /\ (c.groups * c.n) % c.dp = 0
        /\ c.balance \in BOOLEAN
        /\ c.prefixGrouper \in BOOLEAN
        /\ c.prefixGrouper => c.groups % c.dp = 0
        /\ c.dynamic \in BOOLEAN        \* use_dynamic_bsz
        /\ c.maxTokens \in Nat
        /\ c.maxTokens * c.sp >= Width  \* asserted by rearrange_micro_batches
        /\ c.microSize \in Nat \ {0}    \* micro_batch_size

VARIABLES
    config,
    lengths,        \* the tokens of each row
    pc,             \* what the driver does next
    order,          \* the rows in the order of the batch
    at,             \* at[w]: where worker w is in the call
    chunk,          \* chunk[w]: the rows it was sent
    count,          \* count[w]: how many micro-batches it needs
    micros,         \* micros[w]: the positions in each micro-batch
    ran,            \* how many of them each worker has run
    results,        \* results[w]: the rows whose results it has, in this order
    output          \* what the call returns

driverVars == <<pc, order, output>>
workerVars == <<at, chunk, count, micros, ran, results>>
vars == <<config, lengths, driverVars, workerVars>>

Size == config.groups * config.n
Rows == 1 .. Size
Workers == 1 .. config.dp * config.sp

TypeOK ==
    /\ config \in Configs
    /\ lengths \in [Rows -> 1 .. Width]
    /\ pc \in {"balance", "dispatch", "collect", "done", "failed"}
    /\ order \in [Rows -> Rows]
    /\ at \in [Workers -> {"idle", "prepare", "reduce", "run", "returned"}]
    /\ chunk \in [Workers -> Seq(Rows)]
    /\ count \in [Workers -> Nat]
    /\ DOMAIN micros = Workers
    /\ \A w \in Workers : micros[w] \in Seq(Seq(1 .. Len(chunk[w])))
    /\ ran \in [Workers -> Nat]
    /\ results \in [Workers -> Seq(Rows)]
    /\ output \in Seq(Rows)

ForAll(x) == [w \in Workers |-> x]

Init ==
    /\ config \in Configs
    /\ lengths \in [Rows -> config.tokens]
    /\ pc = "balance"
    /\ order = [i \in Rows |-> i]
    /\ at = ForAll("idle") /\ chunk = ForAll(<<>>) /\ count = ForAll(0)
    /\ micros = ForAll(<<>>) /\ ran = ForAll(0) /\ results = ForAll(<<>>)
    /\ output = <<>>

-----------------------------------------------------------------------------
(***************************************************************************)
(* The driver.                                                             *)
(***************************************************************************)
Work == [i \in Rows |-> Workload(lengths[i])]

PartitionsByRow == BalancedPartitions(Work, config.dp, TRUE)     \* mutant
Partitions ==
    IF config.prefixGrouper
    THEN GroupBalancedPartitions(Work, config.n, config.dp)
    ELSE BalancedPartitions(Work, config.dp, TRUE)

Arranged(part) ==
    IF config.prefixGrouper THEN part ELSE SmallAtBothEnds(Work, part)

\* _balance_batch
Balance ==
    /\ pc = "balance"
    /\ IF ~ config.balance THEN pc' = "dispatch" /\ UNCHANGED order
       ELSE IF IsPartition(Partitions, Size) /\ EquallySized(Partitions, Size)
       THEN /\ order' = FlattenSeq([i \in 1 .. config.dp |-> Arranged(Partitions[i])])
            /\ pc' = "dispatch"
       ELSE pc' = "failed" /\ UNCHANGED order
    /\ UNCHANGED <<config, lengths, output, workerVars>>

\* What the workers register for their mesh: their data-parallel rank, and
\* whether their results are collected.
DpRank(w) == (w - 1) \div config.sp
IsCollect(w) == (w - 1) % config.sp = 0

PerRank == Size \div config.dp
ChunkOf(rank) == SubSeq(order, rank * PerRank + 1, (rank + 1) * PerRank)

\* dispatch_lazy_compute_data_proto and execute_all.
Dispatch ==
    /\ pc = "dispatch"
    /\ chunk' = [w \in Workers |-> ChunkOf(DpRank(w))]
    /\ at' = ForAll("prepare")
    /\ pc' = "collect"
    /\ UNCHANGED <<config, lengths, order, output, count, micros, ran, results>>

\* collect_lazy_compute_data_proto, once every worker has answered.
Collect ==
    /\ pc = "collect"
    /\ \A w \in Workers : at[w] = "returned"
    /\ output' = FlattenSeq(
            [w \in Workers |-> IF IsCollect(w) THEN results[w] ELSE <<>>])
    /\ pc' = "done"
    /\ UNCHANGED <<config, lengths, order, workerVars>>

-----------------------------------------------------------------------------
(***************************************************************************)
(* The workers.                                                            *)
(***************************************************************************)
LengthsOf(w) == [i \in 1 .. Len(chunk[w]) |-> lengths[chunk[w][i]]]
WorkOf(w) == [i \in 1 .. Len(chunk[w]) |-> Workload(lengths[chunk[w][i]])]

MaxTokens == config.maxTokens * config.sp

Prepare(w) ==
    /\ at[w] = "prepare"
    /\ IF config.dynamic
       THEN /\ count' = [count EXCEPT ![w] = MicroBatchesFor(LengthsOf(w), MaxTokens)]
            /\ at' = [at EXCEPT ![w] = "reduce"]
            /\ UNCHANGED micros
       ELSE /\ micros' = [micros EXCEPT ![w] = Split(Len(chunk[w]), config.microSize)]
            /\ at' = [at EXCEPT ![w] = "run"]
            /\ UNCHANGED count
    /\ UNCHANGED <<config, lengths, driverVars, chunk, ran, results>>

\* The ranks agree on the largest number of micro-batches.
OwnCount(w) == count[w]                                          \* mutant
AgreedCount(w) == Max({count[v] : v \in Workers})

\* all_reduce, after which every worker divides its rows.
Agree ==
    /\ pc = "collect"
    /\ \A w \in Workers : at[w] = "reduce"
    /\ LET divided(w) == BalancedPartitions(WorkOf(w), AgreedCount(w), FALSE)
       IN IF \A w \in Workers : /\ AgreedCount(w) <= Len(chunk[w])
                                /\ IsPartition(divided(w), Len(chunk[w]))
          THEN /\ micros' = [w \in Workers |->
                        RearrangedMicroBatches(WorkOf(w), AgreedCount(w))]
               /\ at' = ForAll("run")
               /\ UNCHANGED pc
          ELSE pc' = "failed" /\ UNCHANGED <<micros, at>>
    /\ UNCHANGED <<config, lengths, order, output, chunk, count, ran, results>>

\* A forward pass of the next micro-batch, in which all workers take part.
Forward ==
    /\ pc = "collect"
    /\ \A w \in Workers : at[w] = "run" /\ ran[w] < Len(micros[w])
    /\ results' = [w \in Workers |->
            LET micro == micros[w][ran[w] + 1]
            IN results[w] \o [i \in 1 .. Len(micro) |-> chunk[w][micro[i]]]]
    /\ ran' = [w \in Workers |-> ran[w] + 1]
    /\ UNCHANGED <<config, lengths, driverVars, at, chunk, count, micros>>

\* The results of all micro-batches go back in the order of the rows.
Return(w) ==
    /\ at[w] = "run" /\ ran[w] = Len(micros[w])
    /\ results' = IF config.dynamic
                  THEN [results EXCEPT ![w] = Restored(@, FlattenSeq(micros[w]))]
                  ELSE results
    /\ at' = [at EXCEPT ![w] = "returned"]
    /\ UNCHANGED <<config, lengths, driverVars, chunk, count, micros, ran>>

Terminated == pc \in {"done", "failed"} /\ UNCHANGED vars

Proceed ==
    \/ Balance \/ Dispatch \/ Collect \/ Agree \/ Forward
    \/ \E w \in Workers : Prepare(w) \/ Return(w)

Next == Proceed \/ Terminated

Spec == Init /\ [][Next]_vars

-----------------------------------------------------------------------------
\* The call returns one result per row of the batch, computed from this row:
\* dispatch, micro-batches, restoration and collection are inverse to each
\* other, and balancing only permutes the batch.
RowsReturned ==
    /\ pc \notin {"balance", "failed"} => ToSet(order) = Rows
    /\ pc = "done" => output = order

\* Balancing leaves no two ranks further apart than dp neighbours in the order
\* of workloads are at most, and no two micro-batches of a rank further than
\* the largest row.  With the prefix grouper "samples with the same uid are
\* guaranteed to be in the same partition": the responses of a prompt, which
\* share its prefix, go to one rank.
RankWork(rank) == SumOver(Work, ChunkOf(rank))
NeighbourSpread ==
    LET sorted == Ascending(Work)
    IN Max({Work[sorted[i * config.dp]] - Work[sorted[(i - 1) * config.dp + 1]] :
                i \in 1 .. Size \div config.dp})
RanksBalanced ==
    \A q, r \in 0 .. config.dp - 1 : RankWork(q) - RankWork(r) <= NeighbourSpread
RowsOfGroup(g) == {(g - 1) * config.n + i : i \in 1 .. config.n}
GroupsStayTogether ==
    \A g \in 1 .. config.groups : \E rank \in 0 .. config.dp - 1 :
        RowsOfGroup(g) \subseteq ToSet(ChunkOf(rank))
MicrosBalanced(w) ==
    \A p, q \in ToSet(micros[w]) :
        SumOver(WorkOf(w), p) - SumOver(WorkOf(w), q) <= Max(ToSet(WorkOf(w)))
WorkBalanced ==
    /\ (config.balance /\ ~ config.prefixGrouper /\ pc = "dispatch") => RanksBalanced
    /\ (config.balance /\ config.prefixGrouper /\ pc = "dispatch") => GroupsStayTogether
    /\ \A w \in Workers : (config.dynamic /\ at[w] = "run") => MicrosBalanced(w)

\* No worker waits in a forward pass for another that has none left, and no
\* assertion about the partitions fails: the agreed number of micro-batches is
\* never more than a rank has rows, and leaves none of them empty.
InForward(w) == at[w] = "run" /\ ran[w] < Len(micros[w])
NeverStuck ==
    /\ pc # "failed"
    /\ \A v, w \in Workers :
        InForward(v) => InForward(w) \/ at[w] \in {"prepare", "reduce"}

=============================================================================
