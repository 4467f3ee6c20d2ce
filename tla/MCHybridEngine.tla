---------------------------- MODULE MCHybridEngine ----------------------------
(***************************************************************************)
(* The configurations HybridEngine is checked with.                        *)
(***************************************************************************)
EXTENDS HybridEngine

AllConfigs == [lora : BOOLEAN, dummyLoad : BOOLEAN, sleepLevel : {1, 2},
               freeCache : BOOLEAN, legacy : BOOLEAN]
InSyncConfigs == {c \in AllConfigs : KeepsInSync(c)}

=============================================================================
