----------------------------- MODULE CollectiveCall -----------------------------
(***************************************************************************)
(* What a caller may expect of collective_rpc: calls are made one at a     *)
(* time, every worker carries out each call at most once and in the order  *)
(* of the calls, a call that returns has been carried out by all, and a    *)
(* call that raises does so because a worker has failed.                   *)
(***************************************************************************)
EXTENDS Naturals

CONSTANT Workers

VARIABLES
    call,           \* the number of the last call
    outcome,        \* how it ended; "none" while it runs
    did,            \* did[w]: the last call worker w has carried out
    broken          \* a worker has failed

vars == <<call, outcome, did, broken>>

Init ==
    /\ call = 0 /\ outcome = "returned"
    /\ did = [w \in Workers |-> 0] /\ broken = FALSE

Start ==
    /\ outcome # "none"
    /\ call' = call + 1 /\ outcome' = "none"
    /\ UNCHANGED <<did, broken>>

CarryOut(w) ==
    /\ outcome = "none" /\ did[w] < call
    /\ did' = [did EXCEPT ![w] = call]
    /\ UNCHANGED <<call, outcome, broken>>

Break ==
    /\ outcome = "none" /\ broken' = TRUE
    /\ UNCHANGED <<call, outcome, did>>

Return ==
    /\ outcome = "none" /\ \A w \in Workers : did[w] = call
    /\ outcome' = "returned"
    /\ UNCHANGED <<call, did, broken>>

Raise ==
    /\ outcome = "none" /\ broken
    /\ outcome' = "raised"
    /\ UNCHANGED <<call, did, broken>>

Next == Start \/ Break \/ Return \/ Raise \/ \E w \in Workers : CarryOut(w)

Spec == Init /\ [][Next]_vars
=============================================================================
