------------------------------ MODULE MCAlgorithms ------------------------------
(***************************************************************************)
(* Three responses of two prompts, with up to three tokens.                *)
(***************************************************************************)
EXTENDS Algorithms

Masks == {<<0, 0, 0>>, <<1, 0, 0>>, <<1, 1, 0>>, <<1, 1, 1>>, <<1, 0, 1>>}
End(mask) == IF mask = <<0, 0, 0>> THEN 1 ELSE Max({t \in 1 .. 3 : mask[t] = 1})

RowOf(i, g, mask, score) ==
    [group |-> g, mask |-> mask,
     reward |-> [t \in 1 .. 3 |-> IF t = End(mask) THEN score ELSE 0],
     value |-> [t \in 1 .. 3 |-> (i + 2 * t) % 4],
     energy |-> [t \in 1 .. 3 |-> 1 + ((i * t) % 3)]]

Scores3 == {<<0, 0, 0>>, <<0, 1, 3>>, <<1, 1, 0>>, <<3, 0, 1>>}

MCBatches ==
    {<<RowOf(1, g[1], m[1], s[1]), RowOf(2, g[2], m[2], s[2]), RowOf(3, g[3], m[3], s[3])>> :
        g \in {<<1, 1, 1>>, <<1, 2, 1>>},
        m \in Masks \X Masks \X {<<0, 0, 0>>, <<1, 1, 0>>, <<1, 0, 1>>}, s \in Scores3}

\* Two rows of two tokens, the second one fixed.
Second == [adv |-> <<1, -1>>, new |-> <<1, 0>>, old |-> <<0, 0>>, rollout |-> <<0, 2>>,
           mask |-> <<1, 1>>]
Option(level, k, low, high) ==
    [level |-> level, k |-> k, low |-> Whole(low), high |-> Whole(high)]
Options ==
    {{Option("token", "k1", -1, 1)}, {Option("seq_sum", "k1", -1, 2)},
     {Option("seq_mean", "k2", 0, 1), Option("seq_sum", "k1", -2, 1)},
     {Option("token", "k3", 0, 1), Option("seq_max", "k2", 0, 1)}}

MCMicros ==
    {[micro |-> <<[adv |-> a, new |-> n, old |-> <<0, 0>>, rollout |-> r, mask |-> m], Second>>,
      cov |-> <<Whole(0), Whole(3)>>, level |-> l, threshold |-> 1, options |-> o] :
        a \in {<<1, 1>>, <<-1, -1>>, <<1, -1>>, <<0, 1>>},
        n \in [1 .. 2 -> {-5, -3, -1, 0, 1, 3, 4}],
        r \in {<<0, 0>>, <<1, -1>>, <<-1, -1>>, <<-2, 1>>},
        m \in {<<1, 1>>, <<1, 0>>}, l \in {"token", "sequence"},
        o \in {{Option("token", "k1", -1, 1)}, {Option("seq_sum", "k1", -1, 2)}}}
    \cup
    {[micro |-> <<[adv |-> <<1, 0>>, new |-> <<0, 1>>, old |-> old, rollout |-> r, mask |-> m], Second>>,
      cov |-> <<Whole(0), Whole(3)>>, level |-> l, threshold |-> 1, options |-> o] :
        old \in [1 .. 2 -> -4 .. 4], r \in {<<0, 0>>, <<1, -1>>},
        m \in {<<1, 1>>, <<1, 0>>}, l \in {"token", "sequence"}, o \in Options}
\* Rows of all lengths on one to four ranks, for the actor and the engine; the
\* actor also has batches whose rows are all masked out.
TwoRows(prompts) ==
    [1 .. 2 -> {[prompt |-> p, response |-> r] : p \in prompts, r \in 0 .. 2}]
Job(rows, layout, h, removePadding, engine, sft) ==
    [rows |-> rows, layout |-> layout, R |-> 2, sp |-> h[1], heads |-> h[2], kvHeads |-> h[3],
     removePadding |-> removePadding, engine |-> engine, sft |-> sft, fused |-> "none"]
\* Fused kernels, on one rank and on several.
Fused(jobs, kind) == {[j EXCEPT !.fused = kind] : j \in jobs}
TextJobs(sp) == {Job(rows, "sides", <<sp, 6, 6>>, TRUE, FALSE, FALSE) : rows \in TwoRows(1 .. 3)}
Parallel == {<<1, 2, 1>>, <<2, 4, 2>>, <<3, 6, 6>>, <<4, 8, 2>>}
MCForwards ==
    {Job(rows, l, h, TRUE, FALSE, FALSE) :
        rows \in TwoRows(1 .. 3), l \in {"sides", "teacher"}, h \in Parallel}
    \cup {Job(rows, l, <<1, 2, 1>>, FALSE, FALSE, FALSE) :
        rows \in TwoRows(1 .. 3), l \in {"sides", "teacher"}}
    \cup {Job(rows, "sides", h, TRUE, TRUE, TRUE) : rows \in TwoRows(1 .. 3), h \in Parallel}
    \cup {Job(rows, "sides", <<1, 2, 1>>, FALSE, TRUE, sft) : rows \in TwoRows(1 .. 3), sft \in BOOLEAN}
    \cup {Job([i \in 1 .. 2 |-> [prompt |-> 0, response |-> 0]], "sides", <<sp, 6, 6>>,
              TRUE, FALSE, FALSE) : sp \in 1 .. 3}
    \cup UNION {Fused(TextJobs(1), kind) : kind \in {"text", "vlm"}}
    \cup Fused({Job(rows, "sides", <<1, 2, 1>>, FALSE, FALSE, FALSE) : rows \in TwoRows(1 .. 3)}, "text")
\* The forward passes in which labels are rolled inside the model.
MCFused == UNION {Fused(TextJobs(sp), kind) : sp \in 1 .. 2, kind \in {"text", "vlm"}}
\* Two or three tokens, one or two ranks, and vocabularies that fill their
\* last split and that do not.
KernelJob(h, w, labels, d, sizes) ==
    [hidden |-> h, weight |-> w, labels |-> labels, rcp |-> sizes[5],
     dlogprobs |-> d[1], dentropy |-> d[2], perSplit |-> sizes[1], blockN |-> sizes[2],
     splitBlock |-> sizes[3], blockM |-> sizes[4], group |-> 2, chunk |-> 2]
MCKernelJobs ==
    {KernelJob(h, w, <<0, l, 1>>, d, sizes) :
        h \in {<<1, 2, 1>>, <<-1, 1, 0>>, <<1, 1, 2>>, <<2, -1, 1>>},
        w \in {<<<<0, 1, 2, 1, -1>>>>, <<<<1, 0, 2, 1>>>>, <<<<0, 2, 1>>, <<3, 1, 0>>>>},
        l \in 0 .. 3, d \in {<<<<1, 0, 2>>, <<0, 1, 0>>>>, <<<<0, 1, 1>>, <<1, 0, 1>>>>},
        sizes \in {<<2, 1, 2, 1, 1>>, <<4, 2, 1, 1, 1>>, <<2, 2, 1, 2, 1>>}}
MCLoss == [low |-> -2, high |-> 2, dual |-> 3]

\* Batch sizes for up to four GPUs; the check refuses most of them.
MCConfigs ==
    {c \in [train : 1 .. 4, n : {1, 2, 4}, mini : 1 .. 4, micro : {-1, 1, 2, 4},
            microPerGpu : {-1, 1, 2}, logProb : {-1, 1, 4}, logProbPerGpu : {-1, 2},
            gpus : {1, 2, 4}, sp : {1, 2}] :
        c.gpus % c.sp = 0 /\ W!ValidateConfig(c)}
MCWorkerKinds ==
    {W!Worker(stack, offload, policy, lora) :
        stack \in {"fsdp", "engine"}, offload \in SUBSET {"param", "optimizer"},
        policy \in {FALSE}, lora \in BOOLEAN}
    \cup {W!Worker("fsdp", offload, TRUE, FALSE) : offload \in SUBSET {"param", "optimizer"}}

\* Two or five rows, the first of which may be a NaN, with and without a third
\* dimension, and marked for automatic padding or not.
MCProtos ==
    {C!FromDict([k \in {"ids", "ragged"} \cup solid |-> rows], [k \in {"uid"} |-> rows],
                [temperature |-> 1], auto) :
        rows \in {[i \in 1 .. n |-> i - nan] : n \in {2, 5}, nan \in 0 .. 1},
        solid \in {{}, {"solid"}}, auto \in BOOLEAN}

\* Four layers on one or two stages with one or two chunks, two heads or four
\* in groups of one or two on one or two ranks; meshes on which the parameters
\* divide evenly and not, or do not go round; pipelines of up to four stages.
Sized(layers, h, inter, vocab, tied, value) ==
    [layers |-> layers, heads |-> h[1], kvHeads |-> h[2], headDim |-> 2, inter |-> inter,
     vocab |-> vocab, tied |-> tied, value |-> value]
MCModelJobs ==
    {[kind |-> "legacy", model |-> Sized(4, h, 4, 4, hd[1], hd[2]), mask |-> mask,
      p |-> [tp |-> g[1], dp |-> g[2], pp |-> g[3], vpp |-> g[4], sequenceParallel |-> sp]] :
        h \in {<<2, 2>>, <<4, 2>>},
        hd \in {<<TRUE, "lm">>, <<FALSE, "lm">>, <<FALSE, "lm_head">>, <<FALSE, "reward_head">>,
                <<FALSE, "none">>},
        mask \in {<<<<0, 1, 1>>, <<1, 1, 0>>>>, <<<<0, 1, 0>>, <<1, 1, 1>>>>},
        g \in {<<1, 1, 2, 1>>, <<2, 2, 1, 1>>, <<2, 1, 2, 2>>, <<4, 1, 1, 1>>},
        sp \in BOOLEAN}
    \cup {[kind |-> "fsdp", model |-> Sized(1, <<2, 1>>, 3, 5, FALSE, "lm"),
           c |-> [mesh |-> mesh, dtensor |-> d, placement |-> place]] :
        mesh \in {<<1>>, <<2>>, <<3>>, <<2, 2>>, <<2, 3>>}, d \in BOOLEAN,
        place \in {"shard", "replicate", "partial"}}
    \cup {[kind |-> "mcore", model |-> Sized(layers, <<4, 2>>, 2, 2, tied, "lm"), stages |-> n] :
        layers \in 1 .. 5, tied \in BOOLEAN, n \in 1 .. 4}

\* Pools of up to three nodes whose groups come in any order, split in two or
\* three and again; up to three roles; up to four workers and five rows.
MCRoles ==
    LET Attrs(mode) == [mode |-> mode, execute |-> "ALL"]
        Class(wake) == <<"init">> :> Attrs("ONE_TO_ALL") @@ <<"update">> :> Attrs("ND_COMPUTE")
                            @@ <<"wake">> :> Attrs(wake)
    IN {<<"actor">>, <<"actor", "rollout">>, <<"actor", "rollout", "ref">>, <<"critic">>, <<"ref">>}
        \X {Class("DIRECT_ROLLOUT_METHOD"), Class("ALL_TO_ALL")}
MCGroupJobs ==
    UNION {{[kind |-> "pool", pool |-> G!Pool("a", j[1], 3), ips |-> ips, sizes |-> j[2], again |-> j[3]] :
                ips \in [DOMAIN j[1] -> 1 .. 3]} :
            j \in {<<<<4>>, <<2, 2>>, <<1, 1>>>>, <<<<2, 2>>, <<1, 3>>, <<1, 2>>>>,
                   <<<<2, 2>>, <<3, 1>>, <<1>>>>, <<<<2, 2, 2>>, <<2, 4>>, <<2, 2>>>>,
                   <<<<2, 2, 2>>, <<1, 1, 4>>, <<1, 3>>>>}}
    \cup {[kind |-> "merge", a |-> G!Pool("a", <<2, 2>>, 10), b |-> G!Pool("b", [i \in 1 .. n |-> 2], 10),
           ips |-> ips, ipsB |-> SubSeq(<<2, 1>>, 1, n)] : n \in 1 .. 2, ips \in (1 .. 3) \X (1 .. 3)}
    \cup {[kind |-> "extract", store |-> store,
           pgs |-> G!PlacementGroups(G!Pool("a", have, 10), <<1, 2, 3>>)] :
        have \in [1 .. 3 -> 1 .. 3], store \in UNION {[1 .. n -> 1 .. 3] : n \in 1 .. 3}}
    \cup {[kind |-> "device", env |-> env, noset |-> noset, id |-> 1] : noset \in BOOLEAN,
           env \in [{"cuda", "hip", "rocr"} -> {"", "0", "1"}]}
    \cup {[kind |-> "roles", roles |-> roles] :
        roles \in {r \in MCRoles \X MCRoles \X MCRoles :
                    Cardinality({r[1][1], r[2][1], r[3][1]}) = 3}}
    \cup {[kind |-> "call", mode |-> mode, dp |-> dp, sp |-> sp, arg |-> arg] :
        mode \in {"DP_COMPUTE_PROTO", "DP_COMPUTE_PROTO_WITH_FUNC", "ND_COMPUTE"},
        dp \in 1 .. 3, sp \in 1 .. 2,
        arg \in UNION {{G!Batch(b), G!Dictionary(C!ToTensorDict(b, {}, {}))} :
            b \in {C!FromDict([k \in {"ids"} |-> [i \in 1 .. n |-> i]], <<>>, <<>>, auto) :
                    n \in 1 .. 6, auto \in BOOLEAN}}}
    \cup {[kind |-> "list", mode |-> mode, world |-> world, items |-> [i \in 1 .. n |-> i]] :
        mode \in {"ONE_TO_ALL", "ALL_TO_ALL", "DP_COMPUTE", "DIRECT_ROLLOUT_METHOD"},
        world \in 1 .. 3, n \in 1 .. 3}
\* Conversations that begin with a system prompt or a question, have an answer
\* and images already, or end with a tool, under wide and narrow limits.
MCRequests ==
    LET M(id, role, images) == V!Message(id, role, 1, images) IN
    {[messages |-> messages, limits |-> limits] :
        messages \in {<<M(1, "user", 0)>>, <<M(1, "system", 0), M(2, "user", 1)>>,
                      <<M(1, "user", 1), M(2, "assistant", 0), M(3, "tool", 1)>>},
        limits \in {[model |-> 100, response |-> 100], [model |-> 20, response |-> 100],
                    [model |-> 24, response |-> 3], [model |-> 9, response |-> 5]}}
MCSampleJobs ==
    LET M(id, role, text) == V!Message(id, role, text, 0)
        Conversations3 == {<<M(1, first, 1), M(2, a, 2), M(3, b, 1)>> :
            first \in {"system", "user"}, a \in {"user", "assistant"}, b \in {"assistant", "tool"}}
        Kinds == {"image", "video"}
    IN
    {[kind |-> "turns", messages |-> messages,
      c |-> [max |-> max, truncation |-> truncation, pad |-> pad, ignoreMismatch |-> ignore]] :
        messages \in Conversations3 \cup {<<M(1, "user", 1)>>, <<M(1, "user", 1), M(2, "system", 1), M(3, "assistant", 1)>>},
        max \in {3, 10, 16, 30}, truncation \in {"left", "right", "error"}, pad \in {"right", "none"},
        ignore \in BOOLEAN}
    \cup {[kind |-> "answer", question |-> M(1, "user", q), answer |-> M(2, "assistant", a),
           c |-> [max |-> max, truncation |-> truncation]] :
        q \in 0 .. 2, a \in 0 .. 2, max \in 1 .. 14, truncation \in {"left", "right", "error"}}
    \cup {[kind |-> "pair", question |-> M(1, "user", q), answer |-> M(2, "assistant", a),
           rejected |-> M(3, "assistant", b), c |-> [max |-> max, addEos |-> eos]] :
        q \in 1 .. 2, a \in 0 .. 2, b \in 0 .. 2, max \in 2 .. 5, eos \in BOOLEAN}
    \cup {[kind |-> "pictures", messages |-> <<m1, m2>>,
           media |-> [kind \in Kinds |-> IF kind = "image" THEN [i \in 1 .. n |-> i] ELSE [i \in 1 .. v |-> i]]] :
        m1 \in {<<"text", "image">>, <<"image", "video", "image">>, <<"text">>},
        m2 \in {<<"video", "text", "image">>, <<"image">>, <<"text">>}, n \in 0 .. 3, v \in 0 .. 2}
    \cup {[kind |-> "file", drawn |-> drawn,
           c |-> [files |-> <<[i \in 1 .. a |-> [id |-> i, length |-> (i + z) % 3]], <<[id |-> 9, length |-> 2]>>>>,
                  maxSamples |-> most, filter |-> filter, maxPrompt |-> 1]] :
        drawn \in {<<>>, <<3, 1>>}, a \in 2 .. 5, z \in 0 .. 1, most \in {-1, 2}, filter \in BOOLEAN}
    \cup {[kind |-> "columns", docs |-> [i \in 1 .. 2 |-> [messages |-> i, extraInfo |-> info[i]]],
           ragged |-> [i \in 1 .. 2 |-> [k \in has[i] |-> [tensor |-> k = "ids", value |-> [j \in 1 .. i |-> j]]]]] :
        info \in [1 .. 2 -> {<<>>, "index" :> 5, "index" :> 6 @@ "tools_kwargs" :> 7}],
        has \in [1 .. 2 -> SUBSET {"ids", "note"}]}
=================================================================================
