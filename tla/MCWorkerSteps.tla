---------------------------- MODULE MCWorkerSteps ----------------------------
(***************************************************************************)
(* What the workers do between the calls that switch modes, each part on   *)
(* its own: a call of the group on a batch (WorkerCall), the updates of    *)
(* the actor (ActorUpdate), the passes of a micro-batch with offloading    *)
(* (ActivationOffload).  A behaviour is about one of the three, its work,  *)
(* and the others stay in one of their initial states.                     *)
(***************************************************************************)
EXTENDS WorkerCall, ActorUpdate, ActivationOffload

-----------------------------------------------------------------------------
\* Calls: each row may have each of the lengths in tokens.
Call == [tokens |-> {1, 2, 3}, dp |-> 2, sp |-> 1, groups |-> 6, n |-> 1,
         balance |-> TRUE, prefixGrouper |-> FALSE, dynamic |-> TRUE, maxTokens |-> 3,
         microSize |-> 2]

MCConfigs ==
    {Call, [Call EXCEPT !.dp = 3], [Call EXCEPT !.maxTokens = 4],
     [Call EXCEPT !.dynamic = FALSE],
     [Call EXCEPT !.groups = 4, !.balance = FALSE],
     [Call EXCEPT !.groups = 4, !.sp = 2, !.maxTokens = 2],
     [Call EXCEPT !.groups = 4, !.sp = 2, !.dynamic = FALSE],
     [Call EXCEPT !.groups = 4, !.dp = 1],
     [Call EXCEPT !.groups = 4, !.n = 2, !.prefixGrouper = TRUE,
                  !.tokens = {1, 3}]}

-----------------------------------------------------------------------------
\* Updates: two ranks with two or three rows, of one or two tokens.
Kinds(targets) ==
    {[len |-> n, kept |-> k, target |-> t] : n \in 1 .. 2, k \in 0 .. 2, t \in targets}
Some == {[len |-> 1, kept |-> 1, target |-> TRUE], [len |-> 2, kept |-> 2, target |-> FALSE]}
Plain == {k \in Kinds({FALSE}) : k.kept <= k.len /\ <<k.len, k.kept>> # <<1, 0>>}
Long == {[len |-> n, kept |-> n, target |-> TRUE] : n \in 1 .. 2}

Option(steps, size, kindsOf, dynamic, mini, micro, epochs, agg, teacher) ==
    [steps |-> steps, rows |-> size, kinds |-> kindsOf, dynamic |-> dynamic, maxTokens |-> 2,
     mini |-> mini, micro |-> micro, epochs |-> epochs, agg |-> agg,
     teacher |-> teacher, interval |-> 2]

Aggs == {"token-mean", "seq-mean-token-sum", "seq-mean-token-mean",
         "seq-mean-token-sum-norm"}

MCUpdateConfigs ==
    {Option(1, 3, Plain, d, 2, m, 1, a, "none") : d \in BOOLEAN, m \in 1 .. 2,
            a \in {"token-mean", "seq-mean-token-mean"}}
    \cup {Option(1, 3, Long, d, 2, 1, 2, a, "none") : d \in BOOLEAN, a \in Aggs}
    \cup {Option(1, 3, Long, TRUE, 3, 1, 1, a, "none") : a \in Aggs}
    \cup {Option(3, 2, Some, d, 2, 1, 1, a, t) : d \in BOOLEAN,
            a \in {"token-mean", "seq-mean-token-sum"}, t \in {"ema", "progressive"}}
    \cup {Option(3, 2, {CHOOSE k \in Long : k.len = 1}, d, 1, 1, 1, "seq-mean-token-mean", t) : d \in BOOLEAN,
            t \in {"current", "fixed", "ema", "trust-region"}}

-----------------------------------------------------------------------------
\* Offloading: every number of groups for up to seven layers.
MCOffloadConfigs ==
    {c \in [layers : 2 .. 7, groups : 1 .. 6, teacher : BOOLEAN] : c.groups < c.layers}

-----------------------------------------------------------------------------
VARIABLE work

stepsVars == <<work, vars, updateVars, offloadVars>>

StepsInit ==
    /\ work \in {"call", "update", "offload"}
    /\ Init
    /\ work # "call" => /\ config = CHOOSE c \in Configs : TRUE
                        /\ lengths = [i \in Rows |-> CHOOSE n \in config.tokens : TRUE]
    /\ UpdateInit
    /\ work # "update" => options = CHOOSE c \in UpdateConfigs : TRUE
    /\ OffloadInit
    /\ work # "offload" => setup = CHOOSE c \in OffloadConfigs : TRUE

StepsNext ==
    \/ work = "call" /\ Next /\ UNCHANGED <<work, updateVars, offloadVars>>
    \/ work = "update" /\ UpdateNext /\ UNCHANGED <<work, vars, offloadVars>>
    \/ work = "offload" /\ OffloadNext /\ UNCHANGED <<work, vars, updateVars>>

StepsSpec == StepsInit /\ [][StepsNext]_stepsVars

=============================================================================
