-------------------------------- MODULE Shards --------------------------------
(***************************************************************************)
(* A model in pieces: on the ranks of the legacy Megatron model            *)
(* (models/qwen2/megatron), in the checkpoints of FSDP and of              *)
(* Megatron-core, and what the savers and mergers make of the pieces.      *)
(*                                                                         *)
(* A parameter is the sequence of its rows (columns, where it is cut along *)
(* dimension 1), and the i-th one is the value <<layer, name, i>>, so that *)
(* a piece shows where it comes from.  NoLayer stands for the layer of the *)
(* embedding, the last norm and the head.  Ranks and layers count from 0.  *)
(***************************************************************************)
EXTENDS Integers, Sequences, FiniteSets, SequencesExt, FiniteSetsExt, Functions

NoLayer == -1
Refused == << >>
Key(layer, name) == <<layer, name>>

\* torch.chunk: pieces of ceil(n / pieces), which can be fewer than asked for.
Chunk(s, pieces) ==
    LET size == (Len(s) + pieces - 1) \div pieces
    IN [k \in 1 .. (Len(s) + size - 1) \div size |->
            SubSeq(s, (k - 1) * size + 1, Min({k * size, Len(s)}))]
Part(s, from, to) == SubSeq(s, from + 1, to)        \* s[from:to]
Concat(f, n) == FlattenSeq([k \in 1 .. n |-> f[k - 1]])

Units(layer, name, n) == [i \in 1 .. n |-> <<layer, name, i>>]

\* m has its sizes, whether embedding and head are one (tied), and the head of
\* a value model: "lm" (not one), "lm_head", "reward_head", or "none" when the
\* checkpoint is that of a language model.
HiddenSize(m) == m.heads * m.headDim
HasLmHead(m) == m.value # "reward_head" /\ ~ m.tied
FullModel(m) ==
    LET sizes == ("in_norm" :> 1) @@ ("q" :> HiddenSize(m)) @@ ("k" :> m.kvHeads * m.headDim)
                    @@ ("v" :> m.kvHeads * m.headDim) @@ ("o" :> HiddenSize(m))
                    @@ ("post_norm" :> 1) @@ ("gate" :> m.inter) @@ ("up" :> m.inter)
                    @@ ("down" :> m.inter)
        outer == ("embed" :> m.vocab) @@ ("norm" :> 1)
                    @@ (IF HasLmHead(m)
                        THEN "lm_head" :> IF m.value = "lm_head" THEN 1 ELSE m.vocab
                        ELSE IF m.value = "reward_head" /\ ~ m.tied THEN "reward_head" :> 1
                        ELSE << >>)
    IN [key \in (0 .. m.layers - 1) \X (DOMAIN sizes) |-> Units(key[1], key[2], sizes[key[2]])]
       @@ [key \in {NoLayer} \X (DOMAIN outer) |-> Units(NoLayer, key[2], outer[key[2]])]

-----------------------------------------------------------------------------
(***************************************************************************)
(* Where a layer is.  p has the sizes tp, dp and pp of the parallel groups *)
(* and the number vpp of model chunks of a stage.                          *)
(***************************************************************************)
WorldSize(p) == p.tp * p.dp * p.pp
GlobalRank(p, tpRank, dpRank, ppRank) == (ppRank * p.dp + dpRank) * p.tp + tpRank
\* Megatron's order of the ranks.
Coordinates(p, rank) ==
    [tp |-> rank % p.tp, dp |-> (rank \div p.tp) % p.dp, pp |-> rank \div (p.tp * p.dp)]

LayersPerModel(m, p) == (m.layers \div p.pp) \div p.vpp
\* The global layer number -> its stage, chunk and number inside the chunk.
LayerMap(m, p) ==
    LET n == LayersPerModel(m, p)
        Global(pp, v, i) == v * (m.layers \div p.vpp) + pp * n + i
    IN [layer \in 0 .. m.layers - 1 |->
            CHOOSE at \in (0 .. p.pp - 1) \X (0 .. p.vpp - 1) \X (0 .. n - 1) :
                Global(at[1], at[2], at[3]) = layer]
\* A stage's chunks one after another instead.
OffsetByStage(m, p, ppRank, chunk) ==
    ppRank * (m.layers \div p.pp) + chunk * LayersPerModel(m, p)
\* The first layer of a chunk, as the model computes it when it is built.
Offset(m, p, ppRank, chunk) ==
    LET perStage == m.layers \div p.pp
        perChunk == perStage \div p.vpp
    IN IF p.vpp > 1 THEN chunk * (m.layers \div p.vpp) + ppRank * perChunk
       ELSE ppRank * perStage
\* The attention and the loader assert these.
Accepted(m, p) ==
    /\ m.heads % p.tp = 0
    /\ m.kvHeads % p.tp = 0
    /\ LayersPerModel(m, p) * p.pp * p.vpp = m.layers

-----------------------------------------------------------------------------
(***************************************************************************)
(* Loading: each rank takes its rows of the parameters of its layers.      *)
(***************************************************************************)
QSize(m, tp) == HiddenSize(m) \div tp
KvSize(m, tp) == IF m.kvHeads >= tp THEN (m.headDim * m.kvHeads) \div tp ELSE m.headDim
\* With fewer key heads than ranks (which the attention refuses) neighbours
\* share one.
KvStart(m, tp, i) ==
    IF m.kvHeads >= tp THEN i * KvSize(m, tp) ELSE ((i * m.kvHeads) \div tp) * m.headDim
FetchTpShardQkv(m, tp, q, k, v, tpRank) ==
    LET RankPart(i) ==
            Part(q, i * QSize(m, tp), (i + 1) * QSize(m, tp))
            \o Part(k, KvStart(m, tp, i), KvStart(m, tp, i) + KvSize(m, tp))
            \o Part(v, KvStart(m, tp, i), KvStart(m, tp, i) + KvSize(m, tp))
        fused == Concat([i \in 0 .. tp - 1 |-> RankPart(i)], tp)
    IN Chunk(fused, tp)[tpRank + 1]
FetchTpShardGateUp(m, tp, gate, up, tpRank) ==
    LET size == m.inter \div tp
        fused == Concat([i \in 0 .. tp - 1 |->
                    Part(gate, i * size, (i + 1) * size) \o Part(up, i * size, (i + 1) * size)], tp)
    IN Chunk(fused, tp)[tpRank + 1]
FetchTpShard(tp, full, tpRank) == Chunk(full, tp)[tpRank + 1]

FetchLayer(m, p, full, layer, tpRank) ==
    LET Of(name) == full[Key(layer, name)] IN
    [in_norm |-> Of("in_norm"), post_norm |-> Of("post_norm"),
     qkv |-> FetchTpShardQkv(m, p.tp, Of("q"), Of("k"), Of("v"), tpRank),
     gate_up |-> FetchTpShardGateUp(m, p.tp, Of("gate"), Of("up"), tpRank),
     o |-> FetchTpShard(p.tp, Of("o"), tpRank), down |-> FetchTpShard(p.tp, Of("down"), tpRank)]

Initial == <<<<NoLayer, "initial", 1>>>>
\* With tied embeddings the head of the last stage is a copy of the first
\* stage's embedding, taken when the model is built and never again.
LoadHead(m, p, full, tpRank) ==
    CASE m.tied -> Initial
      [] m.value = "lm" -> FetchTpShard(p.tp, full[Key(NoLayer, "lm_head")], tpRank)
      [] m.value = "lm_head" -> full[Key(NoLayer, "lm_head")]
      [] m.value = "reward_head" -> full[Key(NoLayer, "reward_head")]
      [] OTHER -> Initial

\* What a rank holds when it takes its pieces of the layers.
LoadLayers(m, p, full, rank, layers) ==
    LET at == Coordinates(p, rank)
        map == LayerMap(m, p)
        here == {layer \in layers : map[layer][1] = at.pp}
    IN [layers |-> [place \in {Tail(map[layer]) : layer \in here} |->
                        FetchLayer(m, p, full,
                            CHOOSE layer \in here : Tail(map[layer]) = place, at.tp)],
        embed |-> IF at.pp = 0 THEN FetchTpShard(p.tp, full[Key(NoLayer, "embed")], at.tp)
                  ELSE << >>,
        norm |-> IF at.pp = p.pp - 1 THEN full[Key(NoLayer, "norm")] ELSE << >>,
        head |-> IF at.pp = p.pp - 1 THEN LoadHead(m, p, full, at.tp) ELSE << >>]
\* Each rank reads the layers that it has.
LoadStateDict(m, p, full) ==
    LET Own(ppRank) == UNION {{Offset(m, p, ppRank, v) + i : i \in 0 .. LayersPerModel(m, p) - 1} :
                                v \in 0 .. p.vpp - 1}
    IN [rank \in 0 .. WorldSize(p) - 1 |->
            LoadLayers(m, p, full, rank, Own(Coordinates(p, rank).pp))]
\* The older loader: rank 0 sends the pieces of all layers to the ranks of its
\* model-parallel group, which send what they keep to their replicas.
LoadByBroadcast(m, p, full) ==
    LET first == [at \in (0 .. p.pp - 1) \X (0 .. p.tp - 1) |->
                    LoadLayers(m, p, full, GlobalRank(p, at[2], 0, at[1]), 0 .. m.layers - 1)]
    IN [rank \in 0 .. WorldSize(p) - 1 |->
            first[<<Coordinates(p, rank).pp, Coordinates(p, rank).tp>>]]

-----------------------------------------------------------------------------
(***************************************************************************)
(* Saving: rank 0 collects each parameter from the ranks of its stage.     *)
(***************************************************************************)
SplitQkv(m, tp, shards) ==
    LET q == QSize(m, tp)
        kv == KvSize(m, tp)
        keep == IF m.kvHeads >= tp THEN 0 .. tp - 1
                ELSE {i \in 0 .. tp - 1 : (i * m.kvHeads) % tp = 0}
        fused == Concat(shards, tp)
        Cut(i, from, to) == Part(fused, i * (q + 2 * kv) + from, i * (q + 2 * kv) + to)
        Kept(i, from, to) == IF i \in keep THEN Cut(i, from, to) ELSE << >>
    IN [q |-> Concat([i \in 0 .. tp - 1 |-> Cut(i, 0, q)], tp),
        k |-> Concat([i \in 0 .. tp - 1 |-> Kept(i, q, q + kv)], tp),
        v |-> Concat([i \in 0 .. tp - 1 |-> Kept(i, q + kv, q + 2 * kv)], tp)]
SplitGateUp(m, tp, shards) ==
    LET size == m.inter \div tp
        fused == Concat(shards, tp)
    IN [gate |-> Concat([i \in 0 .. tp - 1 |-> Part(fused, 2 * size * i, 2 * size * i + size)], tp),
        up |-> Concat([i \in 0 .. tp - 1 |->
                    Part(fused, 2 * size * i + size, 2 * size * (i + 1))], tp)]

\* The head of a value model is stored as lm_head, whatever it was called; the
\* attribute tested for reward_head exists nowhere.
MergeMegatronCkpt(m, p, ranks) ==
    LET map == LayerMap(m, p)
        Holder(ppRank, tpRank) == ranks[GlobalRank(p, tpRank, 0, ppRank)]
        LayerOn(layer, tpRank) == Holder(map[layer][1], tpRank).layers[Tail(map[layer])]
        Collected(layer, name) == Concat([t \in 0 .. p.tp - 1 |-> LayerOn(layer, t)[name]], p.tp)
        Qkv(layer) == SplitQkv(m, p.tp, [t \in 0 .. p.tp - 1 |-> LayerOn(layer, t).qkv])
        GateUp(layer) == SplitGateUp(m, p.tp, [t \in 0 .. p.tp - 1 |-> LayerOn(layer, t).gate_up])
        Value(layer, name) ==
            IF name \in {"q", "k", "v"} THEN Qkv(layer)[name]
            ELSE IF name \in {"gate", "up"} THEN GateUp(layer)[name]
            ELSE IF name \in {"o", "down"} THEN Collected(layer, name)
            ELSE LayerOn(layer, 0)[name]
        Outer(name) ==
            CASE name = "embed" -> Concat([t \in 0 .. p.tp - 1 |-> Holder(0, t).embed], p.tp)
              [] name = "norm" -> Holder(p.pp - 1, 0).norm
              [] m.value = "lm" -> Concat([t \in 0 .. p.tp - 1 |-> Holder(p.pp - 1, t).head], p.tp)
              [] OTHER -> Holder(p.pp - 1, 0).head
    IN [key \in (DOMAIN map) \X {"in_norm", "q", "k", "v", "o", "post_norm", "gate", "up", "down"} |->
            Value(key[1], key[2])]
       @@ [key \in {NoLayer} \X ({"embed", "norm"} \cup (IF m.tied THEN {} ELSE {"lm_head"})) |->
            Outer(key[2])]

-----------------------------------------------------------------------------
(***************************************************************************)
(* The forward pass.  The hidden state of a token is the token (its row    *)
(* and position), the tokens that the attention has let it see, and the    *)
(* layers it has gone through.                                             *)
(***************************************************************************)
\* The columns of the attention of a rank: a query head, and the key head it
\* meets after the key heads have been repeated.
QkvSplit(m, tp, qkv) ==
    LET q == (m.heads \div tp) * m.headDim
        kv == (m.kvHeads \div tp) * m.headDim
    IN [q |-> Part(qkv, 0, q), k |-> Part(qkv, q, q + kv), v |-> Part(qkv, q + kv, q + 2 * kv)]
RepeatKv(m, head) == head \div (m.heads \div m.kvHeads)
HeadOf(m, column, head) == Part(column, head * m.headDim, (head + 1) * m.headDim)
AttentionHeads(m, tp, qkv) ==
    LET cut == QkvSplit(m, tp, qkv) IN
    [h \in 0 .. (m.heads \div tp) - 1 |->
        [q |-> HeadOf(m, cut.q, h), k |-> HeadOf(m, cut.k, RepeatKv(m, h)),
         v |-> HeadOf(m, cut.v, RepeatKv(m, h))]]
GateSize(m, tp) == m.inter \div tp
Mlp(m, tp, gateUp) ==
    [i \in 1 .. GateSize(m, tp) |-> <<gateUp[i], gateUp[i + GateSize(m, tp)]>>]

\* mask is the attention mask, row by row; the padding that was removed is not
\* among the tokens.
Unpadded(mask) ==
    FlattenSeq([r \in DOMAIN mask |->
        LET seen == SelectSeq([s \in DOMAIN mask[r] |-> s], LAMBDA s : mask[r][s] = 1)
        IN [j \in DOMAIN seen |-> <<r, seen[j]>>]])
Nothing == [token |-> <<0, 0>>, sees |-> {}, through |-> << >>]
PadToSequenceParallel(tokens, tp) ==
    LET short == IF Len(tokens) % tp = 0 THEN 0 ELSE tp - (Len(tokens) % tp)
    IN tokens \o [k \in 1 .. short |-> Nothing]
Embedded(tokens) == [k \in DOMAIN tokens |-> [token |-> tokens[k], sees |-> {}, through |-> << >>]]

\* Attention over the rows packed one after another, each token after its own.
Attention(states) ==
    [k \in DOMAIN states |->
        [states[k] EXCEPT !.sees =
            {states[j].token : j \in {j \in 1 .. k : states[j].token[1] = states[k].token[1]}}]]
\* With sequence parallelism each rank has a part of the tokens: they are
\* gathered for the attention, without the padding, and divided again.
DecoderLayer(p, states, total, layer) ==
    LET gathered == IF p.sequenceParallel THEN FlattenSeq(states) ELSE states[1]
        attended == Attention(SubSeq(gathered, 1, total))
        padded == attended \o [k \in 1 .. Len(gathered) - total |-> Nothing]
        done == [k \in DOMAIN padded |-> [padded[k] EXCEPT !.through = Append(@, layer)]]
    IN IF p.sequenceParallel THEN Chunk(done, p.tp) ELSE <<done>>
ChunkForward(m, p, states, total, ppRank, chunk) ==
    FoldLeft(LAMBDA s, i : DecoderLayer(p, s, total, Offset(m, p, ppRank, chunk) + i - 1),
             states, [i \in 1 .. LayersPerModel(m, p) |-> i])
\* The chunks in the order of the pipeline; what comes out at the positions of
\* the mask, and nothing at the padding.
Forward(m, p, mask) ==
    LET tokens == Unpadded(mask)
        total == Len(tokens)
        start == IF p.sequenceParallel THEN Chunk(PadToSequenceParallel(Embedded(tokens), p.tp), p.tp)
                 ELSE <<Embedded(tokens)>>
        stages == [k \in 1 .. p.pp * p.vpp |-> <<(k - 1) % p.pp, (k - 1) \div p.pp>>]
        last == FoldLeft(LAMBDA s, at : ChunkForward(m, p, s, total, at[1], at[2]), start, stages)
        out == SubSeq(FlattenSeq(last), 1, total)
    IN [r \in DOMAIN mask |-> [s \in DOMAIN mask[r] |->
            IF mask[r][s] = 0 THEN Nothing
            ELSE out[CHOOSE k \in 1 .. total : tokens[k] = <<r, s>>]]]

-----------------------------------------------------------------------------
(***************************************************************************)
(* Merging a checkpoint of FSDP.  c has the mesh, <<fsdp>> or <<ddp,       *)
(* fsdp>>, and whether the parameters are DTensors, with their placement.  *)
(***************************************************************************)
FsdpWorld(c) == IF Len(c.mesh) = 1 THEN c.mesh[1] ELSE c.mesh[1] * c.mesh[2]
Shard0(s, pieces, k) == IF k < Len(Chunk(s, pieces)) THEN Chunk(s, pieces)[k + 1] ELSE << >>
\* The file of a rank, as FSDP writes it.
FsdpFile(c, full, rank) ==
    LET fsdp == c.mesh[Len(c.mesh)] IN
    [key \in DOMAIN full |->
        IF c.placement = "shard" THEN Shard0(full[key], fsdp, rank % fsdp) ELSE full[key]]
\* Without a DTensor the mesh is taken to be the array [world size], of shape 1.
TotalShards(c) == IF c.dtensor THEN c.mesh[Len(c.mesh)] ELSE 1
MergeByPlacement(c, pieces) ==
    IF c.dtensor /\ c.placement = "replicate" THEN pieces[0] ELSE Concat(pieces, TotalShards(c))
MergeFsdp(c, full) ==
    IF c.dtensor /\ c.placement = "partial" THEN Refused
    ELSE LET files == [rank \in 0 .. TotalShards(c) - 1 |-> FsdpFile(c, full, rank)] IN
         [key \in DOMAIN files[0] |->
            MergeByPlacement(c, [rank \in DOMAIN files |-> files[rank][key]])]

\* LoRA: a key has its parameter and the part it is of it.
SaveLoraAdapter(state) ==
    LET lora == {key \in DOMAIN state : key.part = "lora"} IN
    [adapter |-> [key \in lora |-> state[key]],
     model |-> IF lora = {} THEN state
               ELSE LET rest == DOMAIN state \ lora
                        Plain(key) == [key EXCEPT !.part = "weight"]
                    IN [key \in {Plain(k) : k \in rest} |->
                            state[CHOOSE k \in rest : Plain(k) = key]]]

-----------------------------------------------------------------------------
(***************************************************************************)
(* Merging a checkpoint of Megatron-core, which is loaded with one rank    *)
(* per stage, so that no parameter is cut.                                 *)
(***************************************************************************)
\* The layers of every stage, middle ones alike; the first of the most even.
GetDynamicPipelineShards(layers, stages) ==
    LET middle == stages - 2
        FirstOf(k) == (layers - k * middle) \div 2
        LastOf(k) == (layers - k * middle) - FirstOf(k)
        possible == {k \in 0 .. layers - 1 : FirstOf(k) \in 1 .. k /\ LastOf(k) \in 1 .. k}
        Diff(k) == k - FirstOf(k)
    IN IF layers < stages \/ stages < 1 THEN Refused
       ELSE IF stages = 1 THEN <<layers>>
       ELSE IF stages = 2 THEN <<layers \div 2, layers - layers \div 2>>
       ELSE IF possible = {} THEN Refused
       ELSE LET best == CHOOSE k \in possible : \A j \in possible :
                            Diff(k) < Diff(j) \/ (Diff(k) = Diff(j) /\ k <= j)
            IN <<FirstOf(best)>> \o [k \in 1 .. middle |-> best] \o <<LastOf(best)>>
LayersCum(shards, rank) == FoldSeq(LAMBDA x, y : x + y, 0, SubSeq(shards, 1, rank))

\* What Megatron-core keeps: queries, key and value of each group of heads
\* side by side, gate and up one after the other.
McoreLayer(m, full, layer) ==
    LET Of(name) == full[Key(layer, name)]
        perGroup == m.headDim * (m.heads \div m.kvHeads)
    IN ("qkv" :> Concat([g \in 0 .. m.kvHeads - 1 |->
                    Part(Of("q"), g * perGroup, (g + 1) * perGroup)
                    \o Part(Of("k"), g * m.headDim, (g + 1) * m.headDim)
                    \o Part(Of("v"), g * m.headDim, (g + 1) * m.headDim)], m.kvHeads))
       @@ ("fc1" :> Of("gate") \o Of("up")) @@ ("fc2" :> Of("down")) @@ ("proj" :> Of("o"))
       @@ ("qkv_norm" :> Of("in_norm")) @@ ("fc1_norm" :> Of("post_norm"))
McoreStage(m, full, shards, rank) ==
    [layers |-> [i \in 0 .. shards[rank + 1] - 1 |->
                    McoreLayer(m, full, LayersCum(shards, rank) + i)],
     outer |-> (IF rank = 0 THEN "embed" :> full[Key(NoLayer, "embed")] ELSE << >>)
               @@ (IF rank = Len(shards) - 1
                   THEN ("norm" :> full[Key(NoLayer, "norm")])
                        @@ ("lm_head" :> IF m.tied THEN full[Key(NoLayer, "embed")]
                                         ELSE full[Key(NoLayer, "lm_head")])
                   ELSE << >>)]

\* The first name of the mapping that occurs in the parameter's.
ReplaceName(name) ==
    CASE name = "qkv_norm" -> "in_norm" [] name = "fc1_norm" -> "post_norm"
      [] name = "proj" -> "o" [] name = "fc2" -> "down" [] OTHER -> name
SplitTensors(m, name, s) ==
    LET perKv == m.heads \div m.kvHeads
        kv == Len(s) \div (perKv + 2)
        groups == Chunk(s, m.kvHeads)
        q == (kv * perKv) \div m.kvHeads
        one == kv \div m.kvHeads
        From(from, to) == FlattenSeq([g \in DOMAIN groups |-> Part(groups[g], from, to)])
    IN IF name = "fc1" THEN ("gate" :> Chunk(s, 2)[1]) @@ ("up" :> Chunk(s, 2)[2])
       ELSE IF name = "qkv"
       THEN ("q" :> From(0, q)) @@ ("k" :> From(q, q + one)) @@ ("v" :> From(q + one, q + 2 * one))
       ELSE ReplaceName(name) :> s
MergeStage(m, stage, cum) ==
    LET split == [i \in DOMAIN stage.layers |->
                    [name \in DOMAIN stage.layers[i] |-> SplitTensors(m, name, stage.layers[i][name])]]
        PartOf(i, name) == CHOOSE from \in DOMAIN split[i] : name \in DOMAIN split[i][from]
        names == UNION {DOMAIN split[0][from] : from \in DOMAIN split[0]}
        outer == DOMAIN stage.outer \ (IF m.tied THEN {"lm_head"} ELSE {})
    IN [key \in {i + cum : i \in DOMAIN stage.layers} \X names |->
            split[key[1] - cum][PartOf(key[1] - cum, key[2])][key[2]]]
       @@ [key \in {NoLayer} \X outer |-> stage.outer[key[2]]]
MergeMcore(m, full, stages) ==
    LET shards == GetDynamicPipelineShards(m.layers, stages) IN
    IF shards = Refused THEN Refused
    ELSE [rank \in 0 .. stages - 1 |->
            MergeStage(m, McoreStage(m, full, shards, rank), LayersCum(shards, rank))]

\* The files of the ranks: as many as they have layers, with the keys divided
\* over them.  Refused when a rank has none.
SavesPerLayer(layers) == IF layers < 30 THEN 1 ELSE 2
ArraySplit(n, pieces) ==
    LET Start(i) == i * (n \div pieces) + Min({i, n % pieces})
    IN [i \in 0 .. pieces - 1 |-> Start(i) + 1 .. Start(i + 1)]
SaveIndexes(merged, shards, rank) ==
    LET keys == FoldSet(LAMBDA key, s : Append(s, key), << >>, DOMAIN merged)
        perLayer == SavesPerLayer(LayersCum(shards, Len(shards)))
        files == ArraySplit(Len(keys), shards[rank + 1] * perLayer)
        first == LayersCum(shards, rank) * perLayer
    IN [i \in {first + j : j \in DOMAIN files} |-> {keys[k] : k \in files[i - first]}]
=============================================================================
