\* One checkpoint kept: a crash after the rotation and before the tracker write.
SPECIFICATION Spec
CONSTANTS
    Ranks <- MCRanks
    Leader = 0
    Models = {"actor"}
    Steps = {1, 2, 3, 4, 5}
    Files <- MCRanks
    Shard <- MCShard
    Keep <- KeepOne
    SaveOrder <- ActorOnly
    LastStep = 5
    LoopSteps = 5
    SaveFreq = 1
    EsiExpires = FALSE
    AsyncSave = FALSE
    Resume = TRUE
    MaxCrashes = 2
    NoTracker = NoTracker
    EmptyTracker = EmptyTracker
    NoData = NoData
    TornData = TornData
INVARIANT TrackedCheckpointComplete
CHECK_DEADLOCK FALSE
