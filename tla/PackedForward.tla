------------------------------ MODULE PackedForward ------------------------------
(***************************************************************************)
(* The log probabilities of the responses of one micro-batch, without the  *)
(* padding between the rows and with the sequence divided over the ranks   *)
(* of a sequence-parallel group (dp_actor._forward_micro_batch, the FSDP   *)
(* engine, ulysses.py and the patched attention).                          *)
(*                                                                         *)
(* A row is given by the lengths of its prompt and of its response; its    *)
(* tokens are <<row, number>>.  The output of the model at a position is   *)
(* what that position sees: for every head the tokens up to it and the     *)
(* key-value head that it reads.  A log probability is the record of the   *)
(* output, the label, the top-k indices and the temperature it is made of. *)
(***************************************************************************)
EXTENDS Integers, Sequences, FiniteSets, FiniteSetsExt, SequencesExt

Pad == <<0, 0>>
Zero == "zero"      \* a log probability filled in for padding
Raises == <<>>      \* the forward pass fails

-----------------------------------------------------------------------------
(***************************************************************************)
(* A job has rows, the layout of the batch, the width R of the responses,  *)
(* the ranks sp of the sequence-parallel group, the heads of queries and   *)
(* of keys, and whether padding is removed.                                *)
(***************************************************************************)
Rows(job) == DOMAIN job.rows
PromptWidth(job) == Max({1} \cup {job.rows[i].prompt : i \in Rows(job)})
Width(job) == PromptWidth(job) + job.R

\* The rollout pads prompts on the left, the teacher batch only behind.
FirstColumn(job, i) ==
    IF job.layout = "sides" THEN PromptWidth(job) - job.rows[i].prompt ELSE 0
TokenAt(job, i, c) ==
    LET t == c - FirstColumn(job, i)
    IN IF t \in 1 .. job.rows[i].prompt + job.rows[i].response THEN <<i, t>> ELSE Pad

\* unpad_input: the columns of the attention mask, row by row.
Indices(job) ==
    LET columns == [n \in 1 .. Len(job.rows) * Width(job) |->
                        <<((n - 1) \div Width(job)) + 1, ((n - 1) % Width(job)) + 1>>]
    IN SelectSeq(columns, LAMBDA p : TokenAt(job, p[1], p[2]) # Pad)

IdsOf(job, indices) == [k \in DOMAIN indices |-> TokenAt(job, indices[k][1], indices[k][2])]
PositionsOf(ids) == [k \in DOMAIN ids |-> ids[k][2] - 1]

Rolled(s) == IF s = <<>> THEN s ELSE Tail(s) \o <<Head(s)>>

\* pad_input: back into the columns.
Unpacked(job, indices, values) ==
    [i \in Rows(job) |-> [c \in 1 .. Width(job) |->
        IF \E k \in DOMAIN indices : indices[k] = <<i, c>>
        THEN values[CHOOSE k \in DOMAIN indices : indices[k] = <<i, c>>]
        ELSE Zero]]

\* The columns whose outputs predict the response: the last R but one, or those
\* from the given start of the response on.
BuildResponsePositions(job, i) ==
    [k \in 1 .. job.R |-> FirstColumn(job, i) + job.rows[i].prompt - 1 + k]
ResponseColumns(job, i) ==
    IF job.layout = "sides" THEN [k \in 1 .. job.R |-> Width(job) - job.R - 1 + k]
    ELSE BuildResponsePositions(job, i)
SelectResponse(job, full) ==
    [i \in Rows(job) |-> [k \in 1 .. job.R |-> full[i][ResponseColumns(job, i)[k]]]]

-----------------------------------------------------------------------------
(***************************************************************************)
(* Sequence parallelism.                                                   *)
(***************************************************************************)
PadSize(job, n) == (job.sp - (n % job.sp)) % job.sp

Filled(s, n, x) == s \o [k \in 1 .. n |-> x]

\* The slice of every rank, of a sequence whose length sp divides.
Slices(job, s) ==
    LET part == Len(s) \div job.sp
    IN [r \in 1 .. job.sp |-> SubSeq(s, ((r - 1) * part) + 1, r * part)]

\* Padded, with positions that start a sequence of their own, and sliced.
PadAndSlice(job, s, x) == Slices(job, Filled(s, PadSize(job, Len(s)), x))
PadPositions(job, s) == s \o [k \in 1 .. PadSize(job, Len(s)) |-> k - 1]

\* Gathered from all ranks, and the padding taken off.
GatherAndUnpad(parts, padSize) ==
    LET all == FlattenSeq(parts) IN SubSeq(all, 1, Len(all) - padSize)

\* The all-to-all in front of attention: the whole sequence, a part of the heads.
GatherSeqScatterHeads(job, x, heads) ==
    LET part == Len(x[1])
        own == heads \div job.sp
    IN [r \in 1 .. job.sp |-> [g \in 1 .. part * job.sp |-> [h \in 1 .. own |->
            x[((g - 1) \div part) + 1][((g - 1) % part) + 1][((r - 1) * own) + h]]]]
\* And the one behind it: a part of the sequence, all heads.
GatherHeadsScatterSeq(job, y) ==
    LET part == Len(y[1]) \div job.sp
        own == Len(y[1][1])
    IN [r \in 1 .. job.sp |-> [p \in 1 .. part |-> [h \in 1 .. own * job.sp |->
            y[((h - 1) \div own) + 1][((r - 1) * part) + p][((h - 1) % own) + 1]]]]

\* Keys and values are repeated until every rank has a head of them.
Repeats(job) == Max({job.sp \div job.kvHeads, 1})
RepeatKv(job) ==
    [h \in 1 .. job.kvHeads * Repeats(job) |-> ((h - 1) \div Repeats(job)) + 1]

\* Attention over packed sequences: a position sees the tokens from the last
\* position 0 on, and the query heads of a rank share its key heads evenly.
FlashAttention(ids, positions, queries, keys) ==
    [g \in DOMAIN ids |-> [h \in DOMAIN queries[g] |->
        LET first == Max({k \in 1 .. g : positions[k] = 0})
            share == Len(queries[g]) \div Len(keys[g])
        IN <<queries[g][h][2], keys[g][((h - 1) \div share) + 1][2], SubSeq(ids, first, g)>>]]

\* The outputs of the model on every rank, for its slice of the tokens.
Model(job, ids, positions) ==
    LET Heads(n, head(_)) ==
            [r \in 1 .. job.sp |-> [p \in DOMAIN ids[r] |->
                [h \in 1 .. n |-> <<ids[r][p], head(h)>>]]]
        kv == RepeatKv(job)
        queries == GatherSeqScatterHeads(job, Heads(job.heads, LAMBDA h : h), job.heads)
        keys == GatherSeqScatterHeads(job, Heads(Len(kv), LAMBDA h : kv[h]), Len(kv))
        all == FlattenSeq(positions)
    IN GatherHeadsScatterSeq(job, [r \in 1 .. job.sp |->
        FlashAttention([g \in DOMAIN keys[r] |-> keys[r][g][1][1]], all, queries[r], keys[r])])

-----------------------------------------------------------------------------
Given(i, k) == <<"top", i, k>>      \* the indices to gather at response token k

LogProb(output, label, top, temperature) ==
    [output |-> output, label |-> label, top |-> top, temperature |-> temperature]

\* Without a token left the model runs on padding, one for each rank, and its
\* outputs are dropped.
PackedBatch(job, indices) ==
    LET ids == IdsOf(job, indices)
    IN IF ids = <<>>
       THEN [ids |-> [k \in 1 .. job.sp |-> Pad], positions |-> [k \in 1 .. job.sp |-> 0]]
       ELSE [ids |-> ids, positions |-> PositionsOf(ids)]

\* Without fused kernels the labels are rolled before the sequence is cut.
LabelsAfterSlicing(job, ids) ==                                  \* mutant
    LET parts == PadAndSlice(job, ids, Pad) IN [r \in 1 .. job.sp |-> Rolled(parts[r])]
Labels(job, ids) == PadAndSlice(job, Rolled(ids), Pad)

\* The fused forward functions roll the tokens they are given: a text model
\* its own slice, a vision model the whole sequence, of which the torch
\* version takes as many labels from the front as it has outputs.
FusedLabels(job, ids) ==
    LET parts == PadAndSlice(job, ids, Pad)
    IN IF job.fused = "text" THEN [r \in 1 .. job.sp |-> Rolled(parts[r])]
       ELSE [r \in 1 .. job.sp |-> SubSeq(Rolled(FlattenSeq(parts)), 1, Len(parts[r]))]

\* Top-k indices put at the columns that predict the response.
FullTopk(job, i, c) ==
    IF \E k \in 1 .. job.R : ResponseColumns(job, i)[k] = c
    THEN Given(i, CHOOSE k \in 1 .. job.R : ResponseColumns(job, i)[k] = c)
    ELSE Pad

\* The log probabilities of all packed tokens, rank by rank.
PackedLogProbs(job, indices) ==
    LET batch == PackedBatch(job, indices)
        outputs == Model(job, PadAndSlice(job, batch.ids, Pad),
                         Slices(job, PadPositions(job, batch.positions)))
        labels == IF job.fused = "none" THEN Labels(job, batch.ids)
                  ELSE FusedLabels(job, batch.ids)
        topk == PadAndSlice(job, [k \in DOMAIN batch.ids |->
                    IF k \in DOMAIN indices /\ job.fused = "none"
                    THEN FullTopk(job, indices[k][1], indices[k][2]) ELSE Pad], Pad)
        temperatures == PadAndSlice(job, [k \in DOMAIN batch.ids |->
                    IF k \in DOMAIN indices THEN indices[k][1] ELSE 0], 0)
    IN [r \in 1 .. job.sp |-> [p \in DOMAIN outputs[r] |->
            LogProb(outputs[r][p], labels[r][p], topk[r][p], temperatures[r][p])]]

\* Padding removed, all outputs computed.
ForwardPacked(job) ==
    LET indices == Indices(job)
        padSize == PadSize(job, Len(PackedBatch(job, indices).ids))
        values == GatherAndUnpad(PackedLogProbs(job, indices), padSize)
    IN SelectResponse(job, Unpacked(job, indices,
            IF indices = <<>> THEN <<>> ELSE values))

\* Padding removed, outputs computed at the response only; it needs the start
\* of the responses and one rank, and fails without any response token.
ForwardResponseOnly(job) ==
    LET indices == Indices(job)
        ids == IdsOf(job, indices)
        Where(i, k) == {n \in DOMAIN indices : indices[n] = <<i, BuildResponsePositions(job, i)[k]>>}
        outputs == Model(job, <<ids>>, <<PositionsOf(ids)>>)[1]
    IN [i \in Rows(job) |-> [k \in 1 .. job.R |->
        IF Where(i, k) = {} THEN Zero
        ELSE LET n == CHOOSE n \in Where(i, k) : TRUE
             IN LogProb(outputs[n], Rolled(ids)[n], Given(i, k), i)]]

\* The output at a column of a padded row.
PaddedOutput(job, i, c) ==
    LET ids == SelectSeq([d \in 1 .. c |-> TokenAt(job, i, d)], LAMBDA t : t # Pad)
    IN Model(job, <<ids>>, <<PositionsOf(ids)>>)[1][Len(ids)]

\* Padding kept: the labels are the responses themselves.
ForwardPadded(job) ==
    LET start(i) == FirstColumn(job, i) + job.rows[i].prompt
    IN [i \in Rows(job) |-> [k \in 1 .. job.R |->
        IF TokenAt(job, i, ResponseColumns(job, i)[k]) = Pad THEN Zero
        ELSE LogProb(PaddedOutput(job, i, ResponseColumns(job, i)[k]), TokenAt(job, i, start(i) + k),
                     Given(i, k), i)]]

\* Padding kept, with a fused kernel: the last R outputs but one, wherever the
\* response starts, and the next token of the padded row as the label.
ForwardPaddedFused(job) ==
    [i \in Rows(job) |-> [k \in 1 .. job.R |->
        LET c == Width(job) - job.R - 1 + k IN
        IF TokenAt(job, i, c) = Pad THEN Zero
        ELSE LogProb(PaddedOutput(job, i, c), TokenAt(job, i, c + 1), Pad, i)]]

-----------------------------------------------------------------------------
(***************************************************************************)
(* The engine: rows of their own length without padding (nested tensors),  *)
(* from the padded batch and back.  (Its padded path with fused kernels    *)
(* is left out.)                                                           *)
(***************************************************************************)
LeftRight2NoPadding(job, indices) ==
    LET ids == IdsOf(job, indices)
    IN [i \in Rows(job) |-> SelectSeq(ids, LAMBDA t : t[1] = i)]
Jagged(nested, values) ==
    LET before == [i \in DOMAIN nested |->
                        FoldFunctionOnSet(LAMBDA s, n : Len(s) + n, 0, nested, 1 .. i - 1)]
    IN [i \in DOMAIN nested |-> SubSeq(values, before[i] + 1, before[i] + Len(nested[i]))]
NoPadding2Padding(job, indices, nested) ==
    SelectResponse(job, Unpacked(job, indices, FlattenSeq(nested)))

\* The attention mask of padded rows has the shape of the loss mask: that is
\* the whole row in SFT, but only R columns of the response mask in PPO.
Attended(job, nested, i) ==
    IF job.sft THEN nested[i] ELSE SubSeq(nested[i], 1, Min({job.R, Len(nested[i])}))

EnginePadded(job, nested) ==
    LET ids == FlattenSeq(nested)
        Output(i, c) ==
            LET seen == SelectSeq(SubSeq(nested[i], 1, c),
                                  LAMBDA t : t \in ToSet(Attended(job, nested, i)))
            IN Model(job, <<seen>>, <<PositionsOf(seen)>>)[1][Len(seen)]
        outputs == FlattenSeq([i \in Rows(job) |-> [c \in DOMAIN nested[i] |-> Output(i, c)]])
    IN [k \in DOMAIN ids |-> LogProb(outputs[k], Rolled(ids)[k], Pad, ids[k][1])]

\* No top-k indices here; the temperature may differ from row to row.
ForwardEngine(job) ==
    LET indices == Indices(job)
        nested == LeftRight2NoPadding(job, indices)
        padSize == PadSize(job, Len(indices))
        packed == GatherAndUnpad(PackedLogProbs(job, indices), padSize)
        values == IF job.removePadding
                  THEN [k \in DOMAIN packed |-> [packed[k] EXCEPT !.top = Pad]]
                  ELSE EnginePadded(job, nested)
    IN NoPadding2Padding(job, indices, Jagged(nested, values))

\* Outputs of the response only are not to be had from a fused kernel.
ForwardMicroBatch(job) ==
    CASE job.engine -> ForwardEngine(job)
      [] ~ job.engine /\ ~ job.removePadding /\ job.fused = "none" -> ForwardPadded(job)
      [] ~ job.engine /\ ~ job.removePadding /\ job.fused # "none" -> ForwardPaddedFused(job)
      [] ~ job.engine /\ job.removePadding /\ job.layout = "teacher" /\ job.sp = 1 ->
            IF job.fused = "none" THEN ForwardResponseOnly(job) ELSE Raises
      [] OTHER -> ForwardPacked(job)
-----------------------------------------------------------------------------
\* The score of a response is the output at the largest position of its row:
\* its last token, unless the row has one token only.
EosIndex(job, i) ==
    LET n == job.rows[i].prompt + job.rows[i].response
    IN IF n <= 1 THEN 1 ELSE FirstColumn(job, i) + n

\* The outputs of the reward model, back in the columns.
RewardOutputs(job) ==
    LET indices == Indices(job)
        packed == PackedLogProbs(job, indices)
        outputs == [r \in DOMAIN packed |-> [p \in DOMAIN packed[r] |-> packed[r][p].output]]
    IN Unpacked(job, indices, GatherAndUnpad(outputs, PadSize(job, Len(indices))))

\* Its token-level scores: the score at the last token, the response part kept.
ExpandToTokenLevel(job, outputs) ==
    [i \in Rows(job) |-> [k \in 1 .. job.R |->
        LET c == Width(job) - job.R + k IN
        IF c = EosIndex(job, i) THEN outputs[i][c] ELSE Zero]]
ComputeRmScore(job) ==
    ExpandToTokenLevel(job,
        IF job.removePadding THEN RewardOutputs(job)
        ELSE [i \in Rows(job) |-> [c \in 1 .. Width(job) |->
                IF c = EosIndex(job, i) THEN PaddedOutput(job, i, c) ELSE Zero]])
================================================================================
