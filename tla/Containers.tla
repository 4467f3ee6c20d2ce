------------------------------ MODULE Containers ------------------------------
(***************************************************************************)
(* The batches that travel between the trainer and the workers: DataProto  *)
(* (protocol.py), whose tensors are in a tensor dictionary and whose other *)
(* columns are arrays beside it, and the tensor dictionary alone           *)
(* (tensordict_utils.py) of the engine-based workers.  A column is the     *)
(* sequence of the rows' values; a value is the number of the row it was   *)
(* made for.  An operation that raises an exception returns Failed, one    *)
(* that returns a list of batches then returns <<>>.                       *)
(***************************************************************************)
EXTENDS Integers, Sequences, FiniteSets, SequencesExt, Functions

Failed == [failed |-> TRUE]
NaN == 0            \* a float that is not a number: no tensor holding it equals any
Unsized == -1       \* the batch size of a dictionary without columns

\* Positions of rows: torch and numpy index alike, each container by itself.
At(column, rows) == [i \in DOMAIN rows |-> column[rows[i]]]
AtAll(columns, rows) == [k \in DOMAIN columns |-> At(columns[k], rows)]
Clip(x, n) == IF x < 0 THEN (IF n + x < 0 THEN 0 ELSE n + x) ELSE IF x > n THEN n ELSE x
\* The positions of a slice [start:stop:step].
Slice(n, start, stop, step) ==
    LET from == Clip(start, n)
        to == Clip(stop, n)
    IN IF to <= from THEN <<>>
       ELSE [i \in 1..(to - from + step - 1) \div step |-> from + (i - 1) * step + 1]
Interleaved(n, times) == [i \in 1..n * times |-> (i - 1) \div times + 1]
Tiled(n, times) == [i \in 1..n * times |-> ((i - 1) % n) + 1]
\* Each row as often as times says.
Repeated(times) == FlattenSeq([i \in DOMAIN times |-> [j \in 1..times[i] |-> i]])
\* torch.chunk: pieces of ceil(n / chunks) rows, which can be fewer than chunks.
TorchChunk(n, chunks) ==
    LET size == (n + chunks - 1) \div chunks
    IN IF n = 0 THEN [i \in 1..chunks |-> <<>>]
       ELSE [i \in 1..(n + size - 1) \div size |-> Slice(n, (i - 1) * size, i * size, 1)]
\* numpy.array_split: exactly chunks pieces, the first ones a row longer.
ArraySplit(n, chunks) ==
    LET short == n \div chunks
        Start(i) == IF i <= n % chunks THEN i * (short + 1) ELSE i * short + (n % chunks)
    IN [i \in 1..chunks |-> Slice(n, Start(i - 1), Start(i), 1)]

-----------------------------------------------------------------------------
(***************************************************************************)
(* DataProto                                                               *)
(***************************************************************************)
\* batch: whether there is a tensor dictionary; its columns have size rows.
CheckConsistency(p) == p.batch => \A k \in DOMAIN p.rest : Len(p.rest[k]) = p.size
Proto(batch, size, tensors, rest, meta) ==
    LET p == [batch |-> batch, size |-> size, tensors |-> tensors, rest |-> rest, meta |-> meta]
    IN IF CheckConsistency(p) THEN p ELSE Failed

FromDict(tensors, rest, meta, autoPadding) ==
    LET sizes == {Len(tensors[k]) : k \in DOMAIN tensors}
        marked == IF autoPadding THEN ("auto_padding" :> TRUE) @@ meta ELSE meta
    IN IF Cardinality(sizes) > 1 THEN Failed
       ELSE Proto(sizes # {}, IF sizes = {} THEN 0 ELSE CHOOSE n \in sizes : TRUE,
                  tensors, rest, marked)

\* The length of a batch without tensors is that of its first column.
Length(p) ==
    IF p.batch THEN p.size
    ELSE IF DOMAIN p.rest = {} THEN 0 ELSE Len(p.rest[CHOOSE k \in DOMAIN p.rest : TRUE])

\* The rows of p at these positions of the tensors and of the other columns.
Pick(p, rows, others) ==
    Proto(p.batch, IF p.batch THEN Len(rows) ELSE 0, AtAll(p.tensors, rows),
          AtAll(p.rest, others), p.meta)
SelectIdxs(p, rows) == Pick(p, rows, rows)
\* A Boolean mask selects the rows where it is true.
SelectMask(p, mask) == SelectIdxs(p, SelectSeq([i \in DOMAIN mask |-> i], LAMBDA i : mask[i]))
SliceOf(p, start, stop, step) ==
    Pick(p, Slice(p.size, start, stop, step), Slice(Length(p), start, stop, step))
GetItem(p, i) ==
    [tensors |-> [k \in DOMAIN p.tensors |-> p.tensors[k][i]],
     rest |-> [k \in DOMAIN p.rest |-> p.rest[k][i]], meta |-> p.meta]
Reorder(p, rows) == IF p.batch THEN Pick(p, rows, rows) ELSE Failed

\* Mutant: the other columns are always tiled.
RepeatTiled(p, times, interleave) ==
    Pick(p, IF interleave THEN Interleaved(p.size, times) ELSE Tiled(p.size, times),
         Tiled(Length(p), times))
Repeat(p, times, interleave) ==
    IF interleave THEN Pick(p, Interleaved(p.size, times), Interleaved(Length(p), times))
    ELSE Pick(p, Tiled(p.size, times), Tiled(Length(p), times))
SampleLevelRepeat(p, times) == Pick(p, Repeated(times), Repeated(times))

\* The entries of each key, in order; keys are those of the first dictionary
\* and an unknown one is an error.
KeysKnown(dicts) == \A i \in DOMAIN dicts : DOMAIN dicts[i] \subseteq DOMAIN dicts[1]
ListOfDictToDictOfList(dicts) ==
    IF dicts = <<>> THEN <<>>
    ELSE [k \in DOMAIN dicts[1] |->
            LET having == SelectSeq(dicts, LAMBDA d : k \in DOMAIN d)
            IN [i \in DOMAIN having |-> having[i][k]]]

\* A data loader's collate function: the items' rows are stacked.
CollateFn(items) ==
    IF ~ KeysKnown([i \in DOMAIN items |-> items[i].rest])
        \/ \E i \in DOMAIN items : DOMAIN items[i].tensors # DOMAIN items[1].tensors
    THEN Failed
    ELSE Proto(TRUE, Len(items),
               ListOfDictToDictOfList([i \in DOMAIN items |-> items[i].tensors]),
               ListOfDictToDictOfList([i \in DOMAIN items |-> items[i].rest]), <<>>)

\* Every metric is a list of the workers' values: metrics is a sequence of
\* dictionaries.  Other entries have to agree.
MetaAgrees(metas) ==
    \A i, j \in DOMAIN metas : \A k \in (DOMAIN metas[i] \cap DOMAIN metas[j]) \ {"metrics"} :
        metas[i][k] = metas[j][k]
MergeMeta(metas) ==
    LET reporting == SelectSeq(metas, LAMBDA m : "metrics" \in DOMAIN m)
        metrics == FlattenSeq([i \in DOMAIN reporting |-> reporting[i].metrics])
        keys == UNION {DOMAIN metas[i] : i \in DOMAIN metas} \ {"metrics"}
        merged == [k \in keys |-> metas[CHOOSE i \in DOMAIN metas : k \in DOMAIN metas[i]][k]]
    IN IF metrics = <<>> THEN merged
       ELSE ("metrics" :> <<ListOfDictToDictOfList(metrics)>>) @@ merged
MetricsFit(metas) ==
    KeysKnown(FlattenSeq([i \in DOMAIN metas |->
        IF "metrics" \in DOMAIN metas[i] THEN metas[i].metrics ELSE <<>>]))

Concat(ps) ==
    LET metas == [i \in DOMAIN ps |-> ps[i].meta]
        rests == [i \in DOMAIN ps |-> ps[i].rest]
        gathered == ListOfDictToDictOfList(rests)
    IN IF \/ ~ KeysKnown(rests) \/ ~ MetaAgrees(metas) \/ ~ MetricsFit(metas)
          \/ ps[1].batch /\ \E i \in DOMAIN ps :
                ~ ps[i].batch \/ DOMAIN ps[i].tensors # DOMAIN ps[1].tensors
       THEN Failed
       ELSE Proto(ps[1].batch,
                  IF ps[1].batch THEN FoldSeq(LAMBDA p, n : p.size + n, 0, ps) ELSE 0,
                  IF ps[1].batch
                  THEN [k \in DOMAIN ps[1].tensors |->
                            FlattenSeq([i \in DOMAIN ps |-> ps[i].tensors[k]])]
                  ELSE <<>>,
                  [k \in DOMAIN gathered |-> FlattenSeq(gathered[k])], MergeMeta(metas))

IsPaddingEnabled(p, globally) ==
    globally \/ ("auto_padding" \in DOMAIN p.meta /\ p.meta["auto_padding"])
\* The other columns are cut where the tensors were; without tensors evenly.
Chunk(p, chunks, globally) ==
    LET n == Length(p)
        rows == IF p.batch THEN TorchChunk(n, chunks) ELSE ArraySplit(n, chunks)
    IN IF \/ ~ IsPaddingEnabled(p, globally) /\ n % chunks # 0
          \/ Len(rows) # chunks
       THEN <<>>
       ELSE [i \in 1..chunks |-> Pick(p, rows[i], rows[i])]
Split(p, size) ==
    [i \in 1..(Length(p) + size - 1) \div size |-> SliceOf(p, (i - 1) * size, i * size, 1)]

\* Copies of the first rows are appended; unpad removes them from the end.
PadSize(n, divisor) == IF n % divisor = 0 THEN 0 ELSE divisor - (n % divisor)
PadPieces(n, size) ==
    [i \in 1..(IF size = 0 THEN 0 ELSE (size + n - 1) \div n) |->
        LET remaining == size - (i - 1) * n IN IF remaining < n THEN remaining ELSE n]
PadDataProtoToDivisor(p, divisor) ==
    LET take == PadPieces(Length(p), PadSize(Length(p), divisor))
    IN IF take = <<>> THEN p
       ELSE Concat(<<p>> \o [i \in DOMAIN take |-> SliceOf(p, 0, take[i], 1)])
UnpadDataProto(p, padSize) == IF padSize = 0 THEN p ELSE SliceOf(p, 0, - padSize, 1)
\* The first or the last row again, before a batch is dispatched.
Padding(p, size, candidate) ==
    IF size = 0 THEN p
    ELSE LET row == SelectIdxs(p, <<IF candidate = "first" THEN 1 ELSE Length(p)>>)
             padded == Concat(<<p, Repeat(row, size, TRUE)>>)
         IN IF padded = Failed THEN Failed ELSE [padded EXCEPT !.meta = p.meta]

\* A key of both: the columns have to be equal.  The arrays are compared so
\* that NaN equals NaN, the tensors are not.
TensorEqual(a, b) == a = b /\ \A i \in DOMAIN a : a[i] # NaN
DeepEqual(a, b) == a = b
UnionTensorDict(sizeA, a, sizeB, b) ==
    /\ sizeA = sizeB
    /\ \A k \in DOMAIN a \cap DOMAIN b : TensorEqual(a[k], b[k])
UnionNumpyDict(a, b) == \A k \in DOMAIN a \cap DOMAIN b : DeepEqual(a[k], b[k])
UnionTwoDict(a, b) == \A k \in DOMAIN a \cap DOMAIN b : a[k] = b[k]
UnionOf(p, q) ==
    IF \/ ~ p.batch \/ ~ q.batch
       \/ ~ UnionTensorDict(p.size, p.tensors, q.size, q.tensors)
       \/ ~ UnionNumpyDict(p.rest, q.rest) \/ ~ UnionTwoDict(p.meta, q.meta)
    THEN Failed
    ELSE [p EXCEPT !.tensors = @ @@ q.tensors, !.rest = q.rest @@ @, !.meta = q.meta @@ @]

\* The named columns; None for all of them is DOMAIN.
Select(p, tensorKeys, restKeys, metaKeys) ==
    IF ~ tensorKeys \subseteq DOMAIN p.tensors THEN Failed
    ELSE Proto(p.batch, p.size, Restrict(p.tensors, tensorKeys),
               Restrict(p.rest, restKeys \cap DOMAIN p.rest),
               Restrict(p.meta, metaKeys \cap DOMAIN p.meta))
Without(f, keys) == Restrict(f, DOMAIN f \ keys)
Popped(p, tensorKeys, restKeys, metaKeys) ==
    IF ~ (tensorKeys \subseteq DOMAIN p.tensors /\ restKeys \subseteq DOMAIN p.rest
            /\ metaKeys \subseteq DOMAIN p.meta)
    THEN Failed
    ELSE FromDict(Restrict(p.tensors, tensorKeys), Restrict(p.rest, restKeys),
                  Restrict(p.meta, metaKeys), FALSE)
\* What is left of p: a dictionary without columns keeps its size.
AfterPop(p, tensorKeys, restKeys, metaKeys) ==
    [p EXCEPT !.tensors = Without(@, tensorKeys), !.rest = Without(@, restKeys),
              !.meta = Without(@, metaKeys)]
Rename(p, old, new) ==
    IF Len(old) # Len(new) THEN Failed
    ELSE [p EXCEPT !.tensors =
            [k \in (DOMAIN @ \ ToSet(old)) \cup ToSet(new) |->
                IF k \in ToSet(new) THEN @[old[CHOOSE i \in DOMAIN new : new[i] = k]] ELSE @[k]]]

\* Mini-batches of an epoch in the order in which the data loader draws rows.
MakeIterator(p, size, order) ==
    IF p.size % size # 0 THEN <<>>
    ELSE [m \in 1..p.size \div size |->
            LET d == CollateFn([i \in 1..size |-> GetItem(p, order[(m - 1) * size + i])])
            IN IF d = Failed THEN Failed ELSE [d EXCEPT !.meta = p.meta]]

\* Rows of `newSize` groups and back, for both kinds of columns.
Grouped(column, newSize) ==
    LET width == Len(column) \div newSize
    IN [i \in 1..newSize |-> SubSeq(column, (i - 1) * width + 1, i * width)]
FoldBatchDim(p, newSize) ==
    IF p.size % newSize # 0 THEN Failed
    ELSE Proto(p.batch, newSize, [k \in DOMAIN p.tensors |-> Grouped(p.tensors[k], newSize)],
               [k \in DOMAIN p.rest |-> Grouped(p.rest[k], newSize)], p.meta)
UnfoldBatchDim(p) ==
    LET width == Len(p.tensors[CHOOSE k \in DOMAIN p.tensors : TRUE][1])
    IN Proto(p.batch, p.size * width, [k \in DOMAIN p.tensors |-> FlattenSeq(p.tensors[k])],
             [k \in DOMAIN p.rest |-> FlattenSeq(p.rest[k])], p.meta)
\* Columns that hold groups are spread over rows, the others repeated.
UnfoldColumnChunks(p, times, keys) ==
    LET Spread(column) == FlattenSeq([i \in DOMAIN column |-> Grouped(column[i], times)]) IN
    Proto(p.batch, p.size * times,
          [k \in DOMAIN p.tensors |->
            IF k \in keys THEN Spread(p.tensors[k])
            ELSE At(p.tensors[k], Interleaved(p.size, times))],
          [k \in DOMAIN p.rest |->
            IF k \in keys THEN Spread(p.rest[k])
            ELSE At(p.rest[k], Interleaved(Length(p), times))], p.meta)

\* A result not fetched yet: the outputs of the workers, of which a worker of
\* the next group takes chunk i when it gets them.
FutureChunk(outputs, chunks) == [i \in 1..chunks |-> [outputs |-> outputs, index |-> i, of |-> chunks]]
FutureGet(future) ==
    LET all == Concat(future.outputs)
        pieces == Chunk(all, future.of, FALSE)
    IN IF all = Failed \/ pieces = <<>> THEN Failed ELSE pieces[future.index]

\* Every rank's batch becomes the concatenation of all of them; the metadata
\* stays its own.
AllGatherDataProto(p, group) ==
    LET Joined(columns) == FlattenSeq([r \in DOMAIN group |-> columns[r]])
    IN [p EXCEPT
            !.size = FoldSeq(LAMBDA q, n : q.size + n, 0, group),
            !.tensors = [k \in DOMAIN @ |-> Joined([r \in DOMAIN group |-> group[r].tensors[k]])],
            !.rest = [k \in DOMAIN @ |-> Joined([r \in DOMAIN group |-> group[r].rest[k]])]]

-----------------------------------------------------------------------------
(***************************************************************************)
(* Tensor dictionaries.  ragged: the tensors whose rows differ in length   *)
(* (nested, jagged), solid: those of them with a third dimension.  stacks: *)
(* columns of other values; data: values for the whole batch.              *)
(***************************************************************************)
Dict(tensors, ragged, solid, stacks, data) ==
    LET sizes == {Len(tensors[k]) : k \in DOMAIN tensors} \cup {Len(stacks[k]) : k \in DOMAIN stacks}
    IN [size |-> IF sizes = {} THEN Unsized ELSE CHOOSE n \in sizes : TRUE,
        tensors |-> tensors, ragged |-> ragged, solid |-> solid, stacks |-> stacks, data |-> data]
\* All columns have the same number of rows and no key is used twice.
GetTensorDict(tensors, ragged, solid, stacks, data) ==
    IF \/ Cardinality({Len(tensors[k]) : k \in DOMAIN tensors}
                        \cup {Len(stacks[k]) : k \in DOMAIN stacks}) > 1
       \/ DOMAIN data \cap (DOMAIN tensors \cup DOMAIN stacks) # {}
    THEN Failed
    ELSE Dict(tensors, ragged, solid, stacks, data)

ToTensorDict(p, ragged, solid) ==
    IF ~ p.batch \/ DOMAIN p.tensors \cap DOMAIN p.rest # {} THEN Failed
    ELSE GetTensorDict(p.tensors, ragged \cap DOMAIN p.tensors, solid \cap DOMAIN p.tensors,
                       p.rest, p.meta)
\* The batch size is that of the first tensor: without one there is none,
\* which check_consistency refuses.
FromTensorDict(td, meta) ==
    IF DOMAIN td.tensors = {} THEN Failed
    ELSE Proto(TRUE, td.size, td.tensors, td.stacks, td.data @@ meta)

\* Nested tensors are concatenated by rows, the rest by torch; dictionaries
\* without rows are the first one.  (Pieces of one batch share their data.)
ConcatTensorDict(tds) ==
    IF \E i \in DOMAIN tds : tds[i].ragged # tds[1].ragged THEN Failed
    ELSE IF tds[1].size = Unsized
    THEN IF \A i \in DOMAIN tds : tds[i].size = Unsized THEN tds[1] ELSE Failed
    ELSE IF tds[1].solid # {}      \* only two dimensions are taken
            \/ \E i \in DOMAIN tds : DOMAIN tds[i].tensors # DOMAIN tds[1].tensors
                                        \/ DOMAIN tds[i].stacks # DOMAIN tds[1].stacks
    THEN Failed
    ELSE Dict([k \in DOMAIN tds[1].tensors |-> FlattenSeq([i \in DOMAIN tds |-> tds[i].tensors[k]])],
              tds[1].ragged, {},
              [k \in DOMAIN tds[1].stacks |-> FlattenSeq([i \in DOMAIN tds |-> tds[i].stacks[k]])],
              tds[1].data)

\* Solid tensors are taken out and cut by hand.  The loop that puts the pieces
\* back rebinds the name of the dictionary, so that a second solid tensor is
\* looked up in the last piece, where it is not.
ChunkTensorDict(td, chunks) ==
    IF td.size % chunks # 0 \/ Cardinality(td.solid) > 1 THEN <<>>
    ELSE LET size == td.size \div chunks
             cut == TorchChunk(td.size, chunks)
             Piece(i) == [k \in DOMAIN td.tensors |->
                IF k \in td.solid THEN SubSeq(td.tensors[k], (i - 1) * size + 1, i * size)
                ELSE At(td.tensors[k], cut[i])]
         IN [i \in 1..chunks |-> Dict(Piece(i), td.ragged, td.solid, AtAll(td.stacks, cut[i]), td.data)]

IndexSelectTensorDict(td, rows) ==
    Dict(AtAll(td.tensors, rows), td.ragged, td.solid, AtAll(td.stacks, rows), td.data)
PadToDivisor(td, divisor) ==
    LET take == PadPieces(td.size, PadSize(td.size, divisor))
        pieces == [i \in DOMAIN take |-> IndexSelectTensorDict(td, Slice(td.size, 0, take[i], 1))]
    IN IF take = <<>> THEN td ELSE ConcatTensorDict(<<td>> \o pieces)
Unpad(td, padSize) ==
    IF padSize = 0 THEN td ELSE IndexSelectTensorDict(td, Slice(td.size, 0, - padSize, 1))
IteratorOf(td, size, order) ==
    IF td.size % size # 0 THEN <<>>
    ELSE [m \in 1..td.size \div size |->
            IndexSelectTensorDict(td, SubSeq(order, (m - 1) * size + 1, m * size))]

\* Data are compared by value; a stack only with a stack.
UnionTensorDicts(a, b) ==
    IF a.size # b.size \/ ~ UnionTensorDict(a.size, a.tensors, b.size, b.tensors)
        \/ ~ UnionTwoDict(a.stacks, b.stacks) \/ ~ UnionTwoDict(a.data, b.data)
    THEN Failed
    ELSE [a EXCEPT !.tensors = @ @@ b.tensors, !.stacks = @ @@ b.stacks, !.data = @ @@ b.data,
                   !.ragged = @ \cup (b.ragged \ DOMAIN a.tensors),
                   !.solid = @ \cup (b.solid \ DOMAIN a.tensors)]
GetKeys(td, keys) ==
    IF ~ keys \subseteq DOMAIN td.tensors \cup DOMAIN td.stacks \cup DOMAIN td.data THEN Failed
    ELSE GetTensorDict(Restrict(td.tensors, keys \cap DOMAIN td.tensors), td.ragged \cap keys,
                       td.solid \cap keys, Restrict(td.stacks, keys \cap DOMAIN td.stacks),
                       Restrict(td.data, keys \cap DOMAIN td.data))
PopKeys(td, keys) ==
    [popped |-> GetKeys(td, keys),
     left |-> [td EXCEPT !.tensors = Without(@, keys), !.stacks = Without(@, keys),
                         !.data = Without(@, keys), !.ragged = @ \ keys, !.solid = @ \ keys]]
\* A list becomes a stack of its items, any other value data of the batch.
AssignNonTensor(td, key, value, isList) ==
    IF isList THEN [td EXCEPT !.stacks = (key :> value) @@ @,
                              !.size = IF @ = Unsized THEN Len(value) ELSE @]
    ELSE [td EXCEPT !.data = (key :> value) @@ @]
GetNonTensorData(td, key, default) == IF key \in DOMAIN td.data THEN td.data[key] ELSE default
Contiguous(td) == GetTensorDict(td.tensors, td.ragged, td.solid, td.stacks, td.data)
AssertTensorDictEq(a, b) ==
    /\ DOMAIN a.tensors = DOMAIN b.tensors /\ a.ragged = b.ragged
    /\ a.stacks = b.stacks /\ a.data = b.data
    /\ \A k \in DOMAIN a.tensors : TensorEqual(a.tensors[k], b.tensors[k])

\* The wire form of a dictionary: a tensor is (type, shape, bytes), a nested
\* one (layout, tensors of the rows), told apart by their length.
SerializeTensorDict(size, tensors, ragged) ==
    [size |-> size,
     items |-> [k \in DOMAIN tensors |->
        IF k \in ragged THEN <<"jagged", tensors[k]>> ELSE <<"int64", Len(tensors[k]), tensors[k]>>]]
DeserializeTensorDict(wire) ==
    [size |-> wire.size,
     tensors |-> [k \in DOMAIN wire.items |->
        IF Len(wire.items[k]) = 3 THEN wire.items[k][3] ELSE wire.items[k][2]],
     ragged |-> {k \in DOMAIN wire.items : Len(wire.items[k]) = 2}]
===============================================================================
