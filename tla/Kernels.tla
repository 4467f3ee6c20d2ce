--------------------------------- MODULE Kernels ---------------------------------
(***************************************************************************)
(* The fused kernels that compute log probabilities and entropies without  *)
(* storing the logits (utils/kernel/kernels.py, linear_cross_entropy.py),  *)
(* and their plain version, chunk by chunk (experimental/torch_functional). *)
(*                                                                         *)
(* A token has one hidden number, a word of the vocabulary one weight.     *)
(* Powers of two stand for the exponential function, so that everything is *)
(* a fraction; a log probability is kept as its probability, and an        *)
(* entropy as the pair of what is under its logarithm and the mean logit.  *)
(* The reductions to one sum or mean, which nothing calls, are left out.   *)
(***************************************************************************)
EXTENDS Fractions, SequencesExt

Exp2(n) == IF n >= 0 THEN <<2 ^ n, 1>> ELSE <<1, 2 ^ (0 - n)>>
MaxOf(a, b) == IF a < b THEN b ELSE a
MinOf(a, b) == IF a < b THEN a ELSE b
CeilDiv(a, b) == (a + b - 1) \div b
SumOf(s) == FoldLeft(LAMBDA a, b : a ++ b, Whole(0), s)
From0(n) == [k \in 1 .. n |-> k - 1]

-----------------------------------------------------------------------------
(***************************************************************************)
(* A job has hidden numbers, the weights of every rank, labels, the inverse *)
(* temperature, the gradients dlogprobs and dentropy, and the sizes of     *)
(* splits, blocks and chunks.  Tokens, words, ranks and blocks are counted *)
(* from 0, as in the kernels.                                              *)
(***************************************************************************)
NumTokens(job) == Len(job.hidden)
VocabSize(job) == Len(job.weight[1])
NumSplits(job) == CeilDiv(VocabSize(job), job.perSplit)

\* Rows of the weight beyond the bound are loaded as 0.
Logit(job, r, m, n, bound) ==
    job.hidden[m + 1] * job.rcp * (IF n < bound THEN job.weight[r + 1][n + 1] ELSE 0)
IsLabel(job, r, m, n) == n + r * VocabSize(job) = job.labels[m + 1]
RightBound(job, s) == MinOf((s + 1) * job.perSplit, VocabSize(job))

-----------------------------------------------------------------------------
(***************************************************************************)
(* Forward.                                                                *)
(***************************************************************************)
MinusInf == -99
Rescale(old, new) == IF old = MinusInf THEN Whole(0) ELSE Exp2(old - new)

\* One block of columns: the running maximum, and the sums relative to it.
BlockUnscaled(acc, l, hits) ==                                    \* mutant
    LET max == MaxOf(acc.max, FoldLeft(MaxOf, l[1], l))
    IN [max |-> max,
        accu |-> acc.accu ++ SumOf([c \in DOMAIN l |-> Exp2(l[c] - max)]),
        entropyB |-> acc.entropyB ++ SumOf([c \in DOMAIN l |-> Whole(l[c]) ** Exp2(l[c] - max)]),
        logit |-> acc.logit + FoldLeft(LAMBDA a, c : a + l[c], 0, hits)]
Block(acc, l, hits) ==
    LET max == MaxOf(acc.max, FoldLeft(MaxOf, l[1], l))
        coeff == Rescale(acc.max, max)
    IN [max |-> max,
        accu |-> (coeff ** acc.accu) ++ SumOf([c \in DOMAIN l |-> Exp2(l[c] - max)]),
        entropyB |-> (coeff ** acc.entropyB)
                     ++ SumOf([c \in DOMAIN l |-> Whole(l[c]) ** Exp2(l[c] - max)]),
        logit |-> acc.logit + FoldLeft(LAMBDA a, c : a + l[c], 0, hits)]

\* A split of the vocabulary, block by block; the last one may have no words.
Mainloop(job, r, m, s) ==
    LET Columns(b) == [c \in 1 .. job.blockN |-> s * job.perSplit + b * job.blockN + c - 1]
        Step(acc, b) ==
            LET cols == Columns(b)
            IN Block(acc, Eager([c \in DOMAIN cols |-> Logit(job, r, m, cols[c], RightBound(job, s))]),
                     SelectSeq([c \in DOMAIN cols |-> c], LAMBDA c : IsLabel(job, r, m, cols[c])))
    IN FoldLeft(Step, [max |-> MinusInf, accu |-> Whole(0), entropyB |-> Whole(0), logit |-> 0],
                From0(CeilDiv(job.perSplit, job.blockN)))

\* The split that owns the label writes its logit; over ranks the others are 0.
LabelLogit(job, r, m, parts) ==
    LET own == {s \in 0 .. NumSplits(job) - 1 :
                    /\ job.labels[m + 1] >= s * job.perSplit + r * VocabSize(job)
                    /\ job.labels[m + 1] < RightBound(job, s) + r * VocabSize(job)}
    IN IF own = {} THEN 0 ELSE parts[(CHOOSE s \in own : TRUE) + 1].logit

\* The splits at the positions of a block added to what came before, relative
\* to the new maximum; the maximum starts at 0.
EpilogueBlock(acc, parts, reducedMax, at) ==
    LET max == FoldLeft(LAMBDA a, k : MaxOf(a, reducedMax[k]), acc.max, at)
        Added(sum, x) == (Exp2(acc.max - max) ** sum)
            ++ SumOf([k \in DOMAIN at |-> Exp2(parts[at[k]].max - max) ** x[k]])
    IN [max |-> max,
        accu |-> Added(acc.accu, [k \in DOMAIN at |-> parts[at[k]].accu]),
        entropyB |-> Added(acc.entropyB, [k \in DOMAIN at |-> parts[at[k]].entropyB])]

\* Over ranks the maximum is that of all of them, while the sums are relative
\* to the rank's own.
Epilogue(job, parts, reducedMax) ==
    LET At(b) == SelectSeq([k \in DOMAIN parts |-> k], LAMBDA k : (k - 1) \div job.splitBlock = b)
    IN FoldLeft(LAMBDA acc, b : EpilogueBlock(acc, parts, reducedMax, At(b)),
                [max |-> 0, accu |-> Whole(0), entropyB |-> Whole(0)],
                From0(CeilDiv(Len(parts), job.splitBlock)))

\* What is returned and saved for a token, from the sums over all ranks.
EpilogueTpUpdate(max, accu, entropyB, logit) ==
    [max |-> max, accu |-> accu, entropyB |-> entropyB // accu, prob |-> Exp2(logit - max) // accu]

\* The forward pass for a token: of one rank, or all-reduced over the ranks.
TokenForward(job, m) ==
    LET ranks == DOMAIN job.weight
        Splits == [r \in ranks |-> Eager([s \in 1 .. NumSplits(job) |-> Mainloop(job, r - 1, m, s - 1)])]
        ReducedMax(parts) == [s \in 1 .. NumSplits(job) |->
                                FoldLeft(LAMBDA a, p : MaxOf(a, p[s].max), MinusInf, parts)]
        Rows(parts, max) == [r \in ranks |-> Epilogue(job, parts[r], max)]
        Updated(parts, rows) ==
            EpilogueTpUpdate(rows[1].max, SumOf([r \in ranks |-> rows[r].accu]),
                             SumOf([r \in ranks |-> rows[r].entropyB]),
                             FoldLeft(LAMBDA a, r : a + LabelLogit(job, r - 1, m, parts[r]), 0,
                                      [r \in ranks |-> r]))
    IN Using(Eager(Splits), LAMBDA parts : Using(ReducedMax(parts), LAMBDA max :
            Using(Eager(Rows(parts, max)), LAMBDA rows : Updated(parts, rows))))

EfficientEntropyForward(job) == Eager([m \in 1 .. NumTokens(job) |-> TokenForward(job, m - 1)])

-----------------------------------------------------------------------------
(***************************************************************************)
(* Backward, from what the forward pass saved.                             *)
(***************************************************************************)
DLogit(job, saved, r, m, n, bound) ==
    LET l == Logit(job, r, m, n, bound)
        p == Exp2(l - saved[m + 1].max) // saved[m + 1].accu
        hit == IF IsLabel(job, r, m, n) THEN Whole(1) ELSE Whole(0)
        dEntropy == Whole(0 - job.dentropy[m + 1])
        dLogprobs == Whole(0 - job.dlogprobs[m + 1])
    IN Whole(job.rcp) ** ((dLogprobs ** (p -- hit))
                          ++ (dEntropy ** p ** (Whole(l) -- saved[m + 1].entropyB)))

\* The tile of a program, rows first in groups of rows; the last group is smaller.
Tile(job, pid, blocksN) ==
    LET blocksM == CeilDiv(NumTokens(job), job.blockM)
        inGroup == job.group * blocksN
        first == (pid \div inGroup) * job.group
        size == MinOf(blocksM - first, job.group)
    IN <<first + ((pid % inGroup) % size), (pid % inGroup) \div size>>
Tiles(job, blocksN) ==
    [pid \in 1 .. CeilDiv(NumTokens(job), job.blockM) * blocksN |-> Tile(job, pid - 1, blocksN)]
Covering(job, tiles, m, c) ==
    {pid \in DOMAIN tiles : tiles[pid] = <<m \div job.blockM, c \div job.blockN>>}

\* d_logits of the columns from offset on; memory that no tile writes is unset.
Unset == Whole(99)
DLogits(job, saved, r, offset, width, bound) ==
    LET tiles == Tiles(job, CeilDiv(width, job.blockN))
    IN Eager([m \in 1 .. NumTokens(job) |-> Eager([c \in 1 .. width |->
            IF Covering(job, tiles, m - 1, c - 1) = {} THEN Unset
            ELSE DLogit(job, saved, r, m - 1, offset + c - 1, bound)])])

\* The gradients from the d_logits of the words offset, offset + 1, ...
DHidden(job, r, d, offset, width) ==
    [m \in 1 .. NumTokens(job) |->
        SumOf([c \in 1 .. width |-> d[m][c] ** Whole(job.weight[r + 1][offset + c])])]
DWeight(job, d, width) ==
    [c \in 1 .. width |-> SumOf([m \in 1 .. NumTokens(job) |-> d[m][c] ** Whole(job.hidden[m])])]

Gradient(hidden, weight) == [hidden |-> hidden, weight |-> weight]

TotalSeparate(job, saved, r) ==
    LET vocab == VocabSize(job)
        d == DLogits(job, saved, r, 0, vocab, vocab)
    IN Gradient(DHidden(job, r, d, 0, vocab), DWeight(job, d, vocab))

\* Every tile adds its share, as often as it is computed.
TotalFuse(job, saved, r) ==
    LET vocab == VocabSize(job)
        tiles == Tiles(job, CeilDiv(vocab, job.blockN))
        times(m, n) == Whole(Cardinality(Covering(job, tiles, m - 1, n - 1)))
        d == Eager([m \in 1 .. NumTokens(job) |-> Eager([n \in 1 .. vocab |->
                times(m, n) ** DLogit(job, saved, r, m - 1, n - 1, vocab)])])
    IN Gradient(DHidden(job, r, d, 0, vocab), DWeight(job, d, vocab))

\* One split of the vocabulary after the other, in one buffer, the last trimmed.
SplitDlogitsN(job, saved, r) ==
    LET Step(acc, s) ==
            LET offset == s * job.perSplit
                d == DLogits(job, saved, r, offset, job.perSplit, RightBound(job, s))
                width == RightBound(job, s) - offset
                more == DHidden(job, r, d, offset, width)
            IN Gradient(Eager([m \in DOMAIN more |-> IF s = 0 THEN more[m] ELSE acc.hidden[m] ++ more[m]]),
                        acc.weight \o DWeight(job, d, width))
    IN FoldLeft(Step, Gradient(<<>>, <<>>), From0(NumSplits(job)))

\* Two kernels that the host function does not launch: for every token all
\* blocks of words, and for every word all blocks of tokens.
KernelDHidden(job, saved, r) ==
    [m \in 1 .. NumTokens(job) |->
        SumOf([n \in 1 .. CeilDiv(VocabSize(job), job.blockN) * job.blockN |->
            IF n > VocabSize(job) THEN Whole(0)
            ELSE DLogit(job, saved, r, m - 1, n - 1, VocabSize(job)) ** Whole(job.weight[r + 1][n])])]
KernelDWeight(job, saved, r) ==
    [n \in 1 .. VocabSize(job) |->
        SumOf([m \in 1 .. CeilDiv(NumTokens(job), job.blockM) * job.blockM |->
            IF m > NumTokens(job) THEN Whole(0)
            ELSE DLogit(job, saved, r, m - 1, n - 1, VocabSize(job)) ** Whole(job.hidden[m])])]

EfficientEntropyBackward(job, saved, r, method) ==
    CASE method = "fuse_mn" -> TotalFuse(job, saved, r)
      [] method = "separate" -> TotalSeparate(job, saved, r)
      [] method = "split_n" -> SplitDlogitsN(job, saved, r)
      [] method = "kernels" -> Gradient(KernelDHidden(job, saved, r), KernelDWeight(job, saved, r))

-----------------------------------------------------------------------------
(***************************************************************************)
(* The plain version on one rank: softmax of a chunk of tokens at a time.  *)
(***************************************************************************)
PlainToken(job, m) ==
    LET l == Eager([n \in 1 .. VocabSize(job) |-> Logit(job, 0, m - 1, n - 1, VocabSize(job))])
        z == SumOf([n \in DOMAIN l |-> Exp2(l[n])])
        probs == Eager([n \in DOMAIN l |-> Exp2(l[n]) // z])
    IN [l |-> l, z |-> z, probs |-> probs,
        mean |-> SumOf([n \in DOMAIN l |-> probs[n] ** Whole(l[n])])]

Chunks(job) ==
    [k \in 1 .. CeilDiv(NumTokens(job), job.chunk) |->
        <<(k - 1) * job.chunk + 1, MinOf(k * job.chunk, NumTokens(job))>>]

FusedLinearForward(job) ==
    LET Chunk(k) == [m \in 1 .. k[2] - k[1] + 1 |->
                        LET t == PlainToken(job, k[1] + m - 1)
                        IN [prob |-> t.probs[job.labels[k[1] + m - 1] + 1], z |-> t.z, mean |-> t.mean]]
    IN FoldLeft(LAMBDA all, k : all \o Chunk(k), <<>>, Chunks(job))

\* The logarithms in log_probs + entropy cancel.
FusedLinearBackward(job) ==
    LET D(m) ==
            LET t == PlainToken(job, m)
            IN [n \in DOMAIN t.l |->
                    Whole(job.rcp) **
                    ((Whole(job.dlogprobs[m]) **
                        ((IF n = job.labels[m] + 1 THEN Whole(1) ELSE Whole(0)) -- t.probs[n]))
                     ++ (t.probs[n] ** (Whole(t.l[n]) -- t.mean) ** Whole(0 - job.dentropy[m])))]
        Chunk(acc, k) ==
            LET d == Eager([m \in 1 .. k[2] - k[1] + 1 |-> Eager(D(k[1] + m - 1))])
            IN Gradient(
                acc.hidden \o [m \in DOMAIN d |->
                    SumOf([n \in DOMAIN d[m] |-> d[m][n] ** Whole(job.weight[1][n])])],
                Eager([n \in DOMAIN acc.weight |-> acc.weight[n] ++
                    SumOf([m \in DOMAIN d |-> d[m][n] ** Whole(job.hidden[k[1] + m - 1])])]))
    IN FoldLeft(Chunk, Gradient(<<>>, [n \in 1 .. VocabSize(job) |-> Whole(0)]), Chunks(job))
=================================================================================
