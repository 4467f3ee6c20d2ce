----------------------------- MODULE WorkerGroups -----------------------------
(***************************************************************************)
(* The single controller (verl/single_controller): pools of GPUs and how   *)
(* they are split and merged, the workers a group starts on a pool, the    *)
(* classes that put several roles into one process, and the call of a      *)
(* group's method, from the dispatch of its arguments to the collection of *)
(* what the workers return.  A name made with "_" is the sequence of its   *)
(* parts.  What raises an exception returns Failed.                        *)
(***************************************************************************)
EXTENDS Containers

Added(ns) == FoldSeq(LAMBDA n, sum : n + sum, 0, ns)
SortedBy(s, Before(_, _)) ==
    LET at == SetToSortSeq(DOMAIN s, LAMBDA i, j : Before(s[i], s[j])
                                        \/ (~ Before(s[j], s[i]) /\ i < j))
    IN [k \in DOMAIN at |-> s[at[k]]]

(***************************************************************************)
(* Pools.  A placement group has its bundles, of one GPU each, on one      *)
(* node; a pool asks for one group per entry of its store when somebody    *)
(* first wants them.  ips are the addresses of the nodes the cluster gives *)
(* to the groups, in the order they were asked for.                        *)
(***************************************************************************)
DefaultColocate == 10
Pool(name, store, colocate) ==
    [name |-> name, store |-> store, colocate |-> colocate, pgs |-> <<>>, sub |-> FALSE,
     start |-> 0, size |-> Added(store)]
LocalWorldSizeList(store) == FlattenSeq([i \in DOMAIN store |-> [j \in 1..store[i] |-> store[i]]])
LocalRankList(store) == FlattenSeq([i \in DOMAIN store |-> [j \in 1..store[i] |-> j - 1]])

PlacementGroups(p, ips) ==
    [i \in DOMAIN p.store |-> [id |-> <<p.name, i>>, ip |-> ips[i], bundles |-> p.store[i]]]
SortByNodeIp(pgs) == SortedBy(pgs, LAMBDA a, b : a.ip < b.ip)
\* The pool keeps the sorted groups; the call that made them returns them unsorted.
GetPlacementGroups(p, ips) ==
    IF p.pgs # <<>> THEN [pool |-> p, pgs |-> p.pgs]
    ELSE LET made == PlacementGroups(p, ips)
         IN [pool |-> [p EXCEPT !.pgs = SortByNodeIp(made)], pgs |-> made]

SubPool(p, pgs, start, size) ==
    [p EXCEPT !.pgs = pgs, !.sub = TRUE, !.start = start, !.size = size]
\* Mutant: every part of a part is counted from the beginning of the pool.
StartIgnored(p, sizes, i) == Added(SubSeq(sizes, 1, i - 1))
StartOfSplit(p, sizes, i) == (IF p.sub THEN p.start ELSE 0) + Added(SubSeq(sizes, 1, i - 1))
SplitResourcePool(p, sizes, ips) ==
    IF Added(sizes) # p.size THEN <<>>
    ELSE LET pgs == GetPlacementGroups(p, ips).pgs
         IN [i \in DOMAIN sizes |-> SubPool(p, pgs, StartOfSplit(p, sizes, i), sizes[i])]
SplitEvenly(p, size, ips) ==
    IF p.size % size # 0 THEN <<>>
    ELSE SplitResourcePool(p, [i \in 1..p.size \div size |-> size], ips)

\* Two whole pools; the constructor is called with other arguments than a part
\* of a pool takes.  The merged pool forgets how many processes share a GPU.
MergeResourcePool(a, b, ipsA, ipsB) ==
    IF a.colocate # b.colocate \/ a.sub THEN Failed
    ELSE [Pool(<<a.name, b.name>>, a.store \o b.store, DefaultColocate)
            EXCEPT !.pgs = GetPlacementGroups(a, ipsA).pgs \o GetPlacementGroups(b, ipsB).pgs]

\* The groups of these pools for a store: the largest request gets the largest.
ExtractPgFromExist(pgs, store) ==
    LET largest == SortedBy(pgs, LAMBDA a, b : a.bundles > b.bundles)
        asked == SortedBy([i \in DOMAIN store |-> <<store[i], i>>],
                          LAMBDA a, b : a[1] > b[1] \/ (a[1] = b[1] /\ a[2] > b[2]))
        Turn(i) == CHOOSE k \in DOMAIN asked : asked[k][2] = i
    IN IF \E k \in DOMAIN asked : k > Len(largest) \/ asked[k][1] > largest[k].bundles
       THEN <<>> ELSE [i \in DOMAIN store |-> largest[Turn(i)]]

(***************************************************************************)
(* The workers of a group.                                                 *)
(***************************************************************************)
ProtectedEnv == {"WORLD_SIZE", "RANK", "WG_PREFIX", "WG_BACKEND", "RAY_LOCAL_WORLD_SIZE",
                 "MASTER_ADDR", "MASTER_PORT"}
Created(p, pgs, rank, k, local, master) ==
    [rank |-> rank, world |-> p.size, localWorld |-> p.store[1], bundle |-> <<pgs[k].id, local>>,
     ip |-> pgs[k].ip, name |-> <<k - 1, local>>, share |-> p.colocate, master |-> master]
\* Neither or both of the address and the port of the master are given.
MasterOf(given, pg) ==
    CASE given = {} -> pg.ip [] given = {"addr", "port"} -> "given" [] OTHER -> "refused"

InitWithResourcePool(p, ips, given) ==
    LET pgs == SortByNodeIp(GetPlacementGroups(p, ips).pgs)
        local == p.store[1]
        master == MasterOf(given, pgs[1])
    IN IF \E k \in DOMAIN pgs : local > pgs[k].bundles THEN <<>>
       ELSE [r \in 1..Len(pgs) * local |->
                Created(p, pgs, r - 1, (r - 1) \div local + 1, (r - 1) % local, master)]
\* The master of a part is on the first node of the pool.
InitWithSubresourcePool(p, given) ==
    LET local == p.store[1]
        Place(r) == p.start + r - 1
        Group(r) == Place(r) \div local + 1
    IN IF \E r \in 1..p.size : Group(r) > Len(p.pgs) \/ local > p.pgs[Group(r)].bundles
       THEN <<>>
       ELSE [r \in 1..p.size |-> Created(p, p.pgs, r - 1, Group(r), Place(r) % local,
                                          MasterOf(given, p.pgs[1]))]
RayWorkerGroup(p, ips, given, env) ==
    IF env \cap ProtectedEnv # {} \/ Cardinality(given) = 1 THEN <<>>
    ELSE IF p.sub THEN InitWithSubresourcePool(p, given) ELSE InitWithResourcePool(p, ips, given)

\* The variables a process finds ("" if unset) become the one that torch reads;
\* when Ray leaves them alone, the GPU of the process is chosen by its number.
SetupVisibleDevices(env, noset, id) ==
    LET cuda == IF env.hip # "" THEN env.hip ELSE env.cuda
    IN IF \/ env.hip # "" /\ env.cuda # "" /\ env.hip # env.cuda
          \/ env.rocr # "" /\ cuda # ""
       THEN Failed
       ELSE [visible |-> IF env.rocr # "" THEN env.rocr ELSE cuda,
             localRank |-> IF noset THEN id ELSE 0]

(***************************************************************************)
(* The registered methods of a class: a function from the names to the     *)
(* dispatch and execute modes.  The methods of Worker are in every class.  *)
(***************************************************************************)
Query == <<"query_dispatch_info">>
WorkerMethods == Query :> [mode |-> "ONE_TO_ALL", execute |-> "ALL"]
Registered(methods) == methods @@ WorkerMethods

\* A method of the process, and the role (or the process itself) that runs it.
Bound(role, method, attrs) == [role |-> role, method |-> method, attrs |-> attrs]
Process == <<"process">>
OfProcess == [m \in DOMAIN WorkerMethods |-> Bound(Process, m, WorkerMethods[m])]
IsDirect(role, attrs) ==
    attrs.mode = "DIRECT_ROLLOUT_METHOD" /\ \E i \in DOMAIN role : role[i] = "rollout"
BindToParent(parent, role, class) ==
    LET direct == {m \in DOMAIN class : IsDirect(role, class[m])}
    IN IF parent = <<>> \/ direct \cap DOMAIN parent # {} THEN <<>>
       ELSE [n \in direct \cup {role \o m : m \in DOMAIN class \ direct} |->
                IF n \in direct THEN Bound(role, n, class[n])
                ELSE LET m == SubSeq(n, Len(role) + 1, Len(n)) IN Bound(role, m, class[m])]
            @@ parent
\* roles: <<name, class>> in the order of the dictionary.
ColocatedWorkerCls(roles) ==
    FoldLeft(LAMBDA parent, r : BindToParent(parent, r[1], Registered(r[2])), OfProcess, roles)

\* A bound method of a group: the method of the process it calls.
BindWorkerMethod(cls) == [n \in DOMAIN cls |-> n]
\* The group of one role: methods that begin with its name lose it.
Spawn(methods, role) ==
    LET own == {n \in DOMAIN methods : Len(n) > Len(role) /\ IsPrefix(role, n)}
    IN [m \in {SubSeq(n, Len(role) + 1, Len(n)) : n \in own} |-> methods[role \o m]] @@ methods
SpawnedRuns(cls, role, name) ==
    LET methods == Spawn(BindWorkerMethod(cls), role)
    IN IF name \in DOMAIN methods THEN cls[methods[name]] ELSE Failed

\* The fused class: one method of the process takes "<role>_fwmn_<method>".
FuseExecute(roles, role, name) ==
    LET named == {i \in DOMAIN roles : roles[i][1] = role}
    IN IF named = {} THEN Failed
       ELSE LET class == Registered(roles[CHOOSE i \in named : TRUE][2])
            IN IF name \in DOMAIN class THEN Bound(role, name, class[name]) ELSE Failed
\* methodNames: what fuse() bound to the whole group, and to no spawned one.
FusedRuns(roles, role, methodNames, name) ==
    IF name \in methodNames THEN OfProcess[name] ELSE FuseExecute(roles, role, name)

(***************************************************************************)
(* What a worker knows of its place in a mesh, kept by the role that       *)
(* registered it: a function from the meshes to [dp, collect].             *)
(***************************************************************************)
RegisterInfo(info, mesh, dp, collect) ==
    IF mesh \in DOMAIN info THEN Failed ELSE (mesh :> [dp |-> dp, collect |-> collect]) @@ info
\* The last of the values given, whatever meshes they were for.
SetDispatchCollect(info, mesh, dps, collects) ==
    RegisterInfo(info, mesh, dps[Len(dps)], collects[Len(collects)])
\* Of each process, the ranks of the role that runs the query.
QueryInfo(processes, role, mesh) ==
    IF \E w \in DOMAIN processes :
        role \notin DOMAIN processes[w] \/ mesh \notin DOMAIN processes[w][role]
    THEN <<>> ELSE [w \in DOMAIN processes |-> processes[w][role][mesh]]

(***************************************************************************)
(* A call.  An argument is a batch, a tensor dictionary, a list, a tuple   *)
(* or something else; keyword arguments are treated like the others.       *)
(***************************************************************************)
Batch(p) == [kind |-> "batch", is |-> p]
Dictionary(td) == [kind |-> "dict", is |-> td]
List(items) == [kind |-> "list", is |-> items]
Plain(x) == [kind |-> "plain", is |-> x]
Each(kind, pieces) == [i \in DOMAIN pieces |-> [kind |-> kind, is |-> pieces[i]]]

\* The pieces of an argument, <<>> if it cannot be cut.
Pieces(arg, chunks) ==
    CASE arg.kind = "batch" -> Each("batch", Chunk(arg.is, chunks, FALSE))
      [] arg.kind = "dict" -> Each("dict", ChunkTensorDict(arg.is, chunks))
      [] OTHER -> <<>>
\* Batches marked for it get copies of their first row; all have one length.
PaddingSize(args, world) ==
    LET marked == {i \in DOMAIN args : IsPaddingEnabled(args[i].is, FALSE)}
    IN IF marked = {} THEN 0 ELSE PadSize(Length(args[CHOOSE i \in marked : TRUE].is), world)
Padded(args, world) ==
    [i \in DOMAIN args |-> IF IsPaddingEnabled(args[i].is, FALSE)
                           THEN Batch(Padding(args[i].is, PaddingSize(args, world), "first"))
                           ELSE args[i]]
SameLength(args) ==
    \A i, j \in DOMAIN args : IsPaddingEnabled(args[i].is, FALSE) /\ IsPaddingEnabled(args[j].is, FALSE)
                                => Length(args[i].is) = Length(args[j].is)

Lists(args) == [i \in DOMAIN args |-> List(args[i])]
Refused == [args |-> <<>>, padding |-> 0, ok |-> FALSE]
Sent(args, padding) == [args |-> args, padding |-> padding, ok |-> TRUE]
Copies(x, n) == [i \in 1..n |-> x]
DispatchOneToAll(world, args) == Sent([i \in DOMAIN args |-> List(Copies(args[i], world))], 0)
DispatchDpCompute(world, args) ==
    IF \A i \in DOMAIN args : args[i].kind \in {"list", "tuple"} /\ Len(args[i].is) = world
    THEN Sent(args, 0) ELSE Refused
DispatchDpComputeDataProto(world, args) ==
    IF (\E i \in DOMAIN args : args[i].kind # "batch") \/ ~ SameLength(args) THEN Refused
    ELSE LET cut == [i \in DOMAIN args |-> Pieces(Padded(args, world)[i], world)]
         IN IF \E i \in DOMAIN args : cut[i] = <<>> THEN Refused
            ELSE Sent(Lists(cut), PaddingSize(args, world))
SplitArgs(chunks, args) == [i \in DOMAIN args |-> Pieces(args[i], chunks)]
DispatchWithFunc(world, args) ==
    LET cut == SplitArgs(world, Tail(args))
    IN IF \E i \in DOMAIN cut : cut[i] = <<>> THEN Refused
       ELSE Sent(<<List(Copies(args[1], world))>> \o Lists(cut), 0)
\* Workers of one data-parallel rank get the same piece.
DispatchNdCompute(info, args) ==
    LET size == 1 + (CHOOSE d \in {info[w].dp : w \in DOMAIN info} :
                        \A w \in DOMAIN info : info[w].dp <= d)
        cut == SplitArgs(size, args)
    IN IF info = <<>> \/ \E i \in DOMAIN cut : cut[i] = <<>> THEN Refused
       ELSE Sent([i \in DOMAIN cut |-> List([w \in DOMAIN info |-> cut[i][info[w].dp + 1]])], 0)
Dispatch(mode, world, info, args) ==
    CASE mode = "ONE_TO_ALL" -> DispatchOneToAll(world, args)
      [] mode = "ALL_TO_ALL" -> Sent(args, 0)
      [] mode = "DP_COMPUTE" -> DispatchDpCompute(world, args)
      [] mode \in {"DP_COMPUTE_PROTO", "DP_COMPUTE_METRIC"} ->
            DispatchDpComputeDataProto(world, args)
      [] mode = "DP_COMPUTE_PROTO_WITH_FUNC" -> DispatchWithFunc(world, args)
      [] mode = "ND_COMPUTE" -> IF info = <<>> THEN Refused ELSE DispatchNdCompute(info, args)
      [] OTHER -> Refused

\* Lists with one element for each worker are dealt out, when there is nothing
\* else; any other arguments go to every worker as they are.
ExecuteAll(world, args) ==
    IF \A i \in DOMAIN args : args[i].kind = "list" /\ Len(args[i].is) = world
    THEN [w \in 1..world |-> [i \in DOMAIN args |-> args[i].is[w]]]
    ELSE Copies(args, world)
Execute(execute, world, args) == IF execute = "ALL" THEN ExecuteAll(world, args) ELSE <<args>>

Concatenated(outputs) ==
    IF outputs = <<>> \/ \E i \in DOMAIN outputs : outputs[i].kind # outputs[1].kind THEN Plain(Failed)
    ELSE LET all == [i \in DOMAIN outputs |-> outputs[i].is]
         IN CASE outputs[1].kind = "batch" -> Batch(Concat(all))
              [] outputs[1].kind = "dict" -> Dictionary(ConcatTensorDict(all))
              [] OTHER -> Plain(Failed)
CollectNdCompute(info, outputs) ==
    FlattenSeq([w \in DOMAIN outputs |-> IF info[w].collect THEN <<outputs[w]>> ELSE <<>>])
Collect(mode, info, outputs) ==
    CASE mode \in {"DP_COMPUTE_PROTO", "DP_COMPUTE_PROTO_WITH_FUNC"} -> Concatenated(outputs)
      [] mode = "ND_COMPUTE" -> Concatenated(CollectNdCompute(info, outputs))
      [] OTHER -> List(outputs)
\* What was added at the end is dropped there: rows of a batch, or elements.
WithoutPadding(output, padding) ==
    IF padding = 0 THEN output
    ELSE CASE output.kind = "batch" ->
                Batch(SelectIdxs(output.is, [i \in 1..Length(output.is) - padding |-> i]))
           [] output.kind = "list" ->
                List(SubSeq(output.is, 1, Len(output.is) - padding))
           [] OTHER -> output

\* Returned: the position of the argument that the method gives back.
Functor(attrs, world, info, args, returned) ==
    LET sent == Dispatch(attrs.mode, world, info, args)
        received == Execute(attrs.execute, world, sent.args)
        outputs == [w \in DOMAIN received |-> received[w][returned]]
    IN IF ~ sent.ok THEN Plain(Failed)
       ELSE WithoutPadding(Collect(attrs.mode, info, outputs), sent.padding)
\* A call of a role's method on the group spawned for it: the ranks are asked
\* of the role whose query the spawned group runs.
CallSpawned(cls, role, name, processes, mesh, args, returned) ==
    LET runs == SpawnedRuns(cls, role, name)
        query == SpawnedRuns(cls, role, Query)
    IN Functor(runs.attrs, Len(processes), QueryInfo(processes, query.role, mesh), args, returned)
===============================================================================
