\* Actor and critic, two and three checkpoints kept, saves at every second
\* step, at the last step and when the instance is about to expire;
\* total_training_steps is below the length of the loop, so that a job killed
\* at its very end trains one step more.
SPECIFICATION FairSpec
CONSTANTS
    Ranks <- MCRanks
    Leader = 0
    Models = {"actor", "critic"}
    Steps = {1, 2, 3, 4}
    Files <- MCRanks
    Shard <- MCShard
    Keep <- KeepTwoThree
    SaveOrder <- ActorCritic
    LastStep = 3
    LoopSteps = 4
    SaveFreq = 2
    EsiExpires = TRUE
    AsyncSave = FALSE
    Resume = TRUE
    MaxCrashes = 2
    NoTracker = NoTracker
    EmptyTracker = EmptyTracker
    NoData = NoData
    TornData = TornData
INVARIANTS
    TrackedCheckpointComplete
    DataInSync
PROPERTIES
    EndsUnlessTrackerEmpty
    ImplementsDurableProgress
\* A finished job stops.
CHECK_DEADLOCK FALSE
