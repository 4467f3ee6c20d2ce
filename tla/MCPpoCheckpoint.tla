--------------------------- MODULE MCPpoCheckpoint ---------------------------
(***************************************************************************)
(* Values of the constants of PpoCheckpoint for TLC.                       *)
(***************************************************************************)
EXTENDS PpoCheckpoint

\* Two ranks; rank 0 is the leader.
MCRanks == {0, 1}
MCShard == [r \in MCRanks |-> r]

\* An actor alone, or an actor and a critic with their own limits.
ActorOnly == <<"actor">>
ActorCritic == <<"actor", "critic">>
KeepOne == [m \in Models |-> 1]
KeepTwo == [m \in Models |-> 2]
KeepTwoThree == [m \in Models |-> IF m = "actor" THEN 2 ELSE 3]

=============================================================================
