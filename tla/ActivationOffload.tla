--------------------------- MODULE ActivationOffload ---------------------------
(***************************************************************************)
(* Activation offloading of one FSDP model in training: the tensors that a *)
(* layer saves for its backward pass are copied to the CPU while the next  *)
(* layers run, and copied back before the backward pass needs them.        *)
(*                                                                         *)
(* The host issues copies on two streams (d2h and h2d) beside the one that *)
(* computes; a copy is finished for the computation only once its stream   *)
(* has been waited for.  The tensors of a layer are one group, which the   *)
(* handler numbers by its own counter of commits.                          *)
(***************************************************************************)
EXTENDS Integers, FiniteSets

CONSTANTS OffloadConfigs, MaxPasses

\* layers: FSDP layers of the model; groups: num_offload_group; teacher: the same
\* module judges its responses, without gradients, between the two passes.
ASSUME OffloadAssumption ==
    /\ MaxPasses \in Nat \ {0}
    /\ \A c \in OffloadConfigs :
        /\ c.layers \in Nat /\ c.layers >= 2
        /\ c.groups \in 1 .. c.layers - 1
        /\ c.teacher \in BOOLEAN

VARIABLES
    setup,
    doing,          \* what the layer in work does next
    layer,
    passes,         \* micro-batches done
    tag,            \* tag[k]: the group layer k's tensors were saved in
    current,        \* current_group
    offloaded,      \* offloaded_group_count
    state,          \* tensor_tag_to_state: "tensor" on the GPU, or "cpu"
    buffered,       \* the groups of which tensor_tag_to_buf holds tensors
    mapping,        \* the keys of group_offload_mapping
    leaving,        \* offloads issued that no one has waited for
    coming          \* reloads issued that no one has waited for

handler == <<current, offloaded, state, buffered, mapping, leaving, coming>>
offloadVars == <<setup, doing, layer, passes, tag, handler>>

Layers == 0 .. setup.layers - 1
Groups == 0 .. setup.groups - 1

\* layer_window_map: the commit at which group g has been offloaded.
Window(g) ==
    LET rest == setup.layers % setup.groups
    IN (setup.layers \div setup.groups) * (g + 1) - 1
       + (IF g < rest THEN g + 1 ELSE rest)

OffloadTypeOK ==
    /\ setup \in OffloadConfigs
    /\ doing \in {"forward", "commit", "teacher", "backward", "use", "failed"}
    /\ layer \in Layers /\ passes \in 0 .. MaxPasses
    /\ tag \in [Layers -> Nat]
    /\ current \in Nat /\ offloaded \in 0 .. setup.groups
    /\ DOMAIN state \subseteq Nat
    /\ \A g \in DOMAIN state : state[g] \in {"tensor", "cpu"}
    /\ buffered \subseteq Groups /\ mapping \subseteq Groups
    /\ leaving \subseteq Groups /\ coming \subseteq Groups

NoGroups == [g \in {} |-> "tensor"]

OffloadInit ==
    /\ setup \in OffloadConfigs
    /\ doing = "forward" /\ layer = 0 /\ passes = 0
    /\ tag = [k \in Layers |-> 0]
    /\ current = 0 /\ offloaded = 0 /\ state = NoGroups
    /\ buffered = {} /\ mapping = {} /\ leaving = {} /\ coming = {}

-----------------------------------------------------------------------------
(***************************************************************************)
(* The forward pass.                                                       *)
(***************************************************************************)
Saved(g) ==
    [h \in DOMAIN state \cup {g} |-> IF h = g THEN "tensor" ELSE state[h]]

\* The wrapped forward method of a layer: its tensors are pushed.
Push ==
    /\ doing = "forward" /\ passes < MaxPasses
    /\ tag' = [tag EXCEPT ![layer] = current]
    /\ state' = Saved(current)
    /\ buffered' = IF current \in Groups THEN buffered \cup {current} ELSE buffered
    /\ doing' = "commit"
    /\ UNCHANGED <<setup, layer, passes, current, offloaded, mapping, leaving, coming>>

\* bulk_offload_group for the groups in G.
Offloaded(G) == [g \in DOMAIN state |-> IF g \in G THEN "cpu" ELSE state[g]]

\* synchronize_on_group_commit_forward and the increment.
NextOffload == IF offloaded < setup.groups - 1 THEN {offloaded + 1} ELSE {}
KickOff == IF current = 0 THEN {0} ELSE {}
AtWindow == offloaded \in Groups /\ Window(offloaded) = current

\* The buffer of a group is freed once its copy has been waited for.
Freed == IF AtWindow THEN buffered \ {offloaded} ELSE buffered

CommitForward ==
    /\ offloaded \in Groups
    /\ LET issued == KickOff \cup (IF AtWindow THEN NextOffload ELSE {})
       IN /\ state' = Offloaded(issued)
          /\ mapping' = mapping \cup issued
          /\ leaving' = IF AtWindow THEN NextOffload ELSE leaving \cup issued
    /\ buffered' = Freed
    /\ offloaded' = IF AtWindow THEN offloaded + 1 ELSE offloaded
    /\ current' = current + 1
    /\ UNCHANGED coming

\* The teacher's forward pass saves nothing, but commits after every layer too.
AfterForward == IF setup.teacher /\ doing = "commit" THEN "teacher" ELSE "backward"

Commit ==
    /\ doing \in {"commit", "teacher"}
    /\ CommitForward
    /\ IF layer < setup.layers - 1
       THEN layer' = layer + 1 /\ doing' = (IF doing = "commit" THEN "forward" ELSE doing)
       ELSE /\ doing' = AfterForward
            /\ layer' = IF AfterForward = "backward" THEN layer ELSE 0
    /\ UNCHANGED <<setup, passes, tag>>

\* layer_window_map has no entry for the number of groups offloaded.
WindowMissing ==
    /\ doing \in {"commit", "teacher"} /\ offloaded \notin Groups
    /\ doing' = "failed"
    /\ UNCHANGED <<setup, layer, passes, tag, handler>>

-----------------------------------------------------------------------------
(***************************************************************************)
(* The backward pass.                                                      *)
(***************************************************************************)
\* bulk_reload_group
Reloaded(g) ==
    [h \in DOMAIN state |-> IF h = g /\ state[h] = "cpu" THEN "tensor" ELSE state[h]]

\* on_group_commit_backward: a reload is issued one window ahead, after the last
\* one has been waited for; group 0 waits for its own.
StillComingUnwaited(reloads, now) ==                             \* mutant
    IF reloads THEN {offloaded - 1} ELSE coming
StillComing(reloads, now) ==
    IF now = 0 THEN {} ELSE IF reloads THEN {offloaded - 1} ELSE coming

CountAfter(reloads, now) ==
    IF now = 0 THEN 0
    ELSE IF reloads /\ offloaded > 1 THEN offloaded - 1 ELSE offloaded

CommitBackward ==
    /\ doing = "backward" /\ current > 0 /\ offloaded > 0
    /\ LET now == current - 1
           reloads == Window(offloaded - 1) = now
       IN /\ current' = now
          /\ reloads => offloaded - 1 \in mapping
          /\ state' = IF reloads THEN Reloaded(offloaded - 1) ELSE state
          /\ mapping' = IF reloads THEN mapping \ {offloaded - 1} ELSE mapping
          /\ coming' = StillComing(reloads, now)
          /\ offloaded' = CountAfter(reloads, now)
    /\ doing' = "use"
    /\ UNCHANGED <<setup, layer, passes, tag, buffered, leaving>>

\* tensor_pop of all tensors of the layer, which its backward pass reads.
Pop ==
    /\ doing = "use" /\ tag[layer] \in DOMAIN state
    /\ state' = [g \in DOMAIN state \ {tag[layer]} |-> state[g]]
    /\ buffered' = buffered \ {tag[layer]}
    /\ IF layer > 0
       THEN layer' = layer - 1 /\ doing' = "backward" /\ UNCHANGED passes
       ELSE layer' = 0 /\ doing' = "forward" /\ passes' = passes + 1
    /\ UNCHANGED <<setup, tag, current, offloaded, mapping, leaving, coming>>

OffloadEnds ==
    /\ doing = "failed" \/ passes = MaxPasses
    /\ UNCHANGED offloadVars

OffloadNext ==
    \/ Push \/ Commit \/ WindowMissing \/ CommitBackward
    \/ Pop \/ OffloadEnds

OffloadSpec == OffloadInit /\ [][OffloadNext]_offloadVars

-----------------------------------------------------------------------------
\* A layer's backward pass reads its own tensors, on the GPU, and only after the
\* copy from the CPU has been waited for; and the GPU memory of a group is given
\* up only after its copy has left it.
UsedWhenThere ==
    /\ doing = "use" =>
        /\ tag[layer] \in DOMAIN state /\ state[tag[layer]] = "tensor"
        /\ tag[layer] \notin coming
        /\ \A k \in Layers : tag[k] = tag[layer] => k = layer
    /\ \A g \in DOMAIN state : (state[g] = "cpu" /\ g \notin buffered) => g \notin leaving

\* Nothing of a micro-batch is left behind when the next one begins, and the
\* counters of the two passes meet, so that no commit looks for a window that is
\* not there.  (A teacher that shares the module of the actor always makes one:
\* its forward pass commits, and no backward pass takes that back.)
CleanBetweenPasses ==
    /\ (doing = "forward" /\ layer = 0) =>
        /\ current = 0 /\ offloaded = 0
        /\ state = NoGroups /\ buffered = {} /\ mapping = {}
    /\ doing = "failed" => setup.teacher

\* Offloading changes where a tensor is in the meantime and nothing else.
OffloadUnseen == UsedWhenThere /\ CleanBetweenPasses
=============================================================================
