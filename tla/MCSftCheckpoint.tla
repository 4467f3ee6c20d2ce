--------------------------- MODULE MCSftCheckpoint ---------------------------
(***************************************************************************)
(* Values of the constants of SftCheckpoint for TLC.                       *)
(***************************************************************************)
EXTENDS SftCheckpoint

MCRanks == {0, 1}
MCFiles == {"shard", "data"} \X MCRanks
MCShard == [r \in MCRanks |-> <<"shard", r>>]
MCDataFile == [r \in MCRanks |-> <<"data", r>>]
MCWriterSets == {{0}, {0, 1}}
KeepTwo == [m \in Models |-> 2]
=============================================================================
