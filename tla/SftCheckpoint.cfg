\* Both modes: one writer of the data state, and a data file for every rank.
SPECIFICATION FairSpec
CONSTANTS
    Ranks <- MCRanks
    Leader = 0
    Models = {"sft"}
    Sft = "sft"
    Steps = {1, 2, 3, 4, 5, 6, 7, 8}
    Files <- MCFiles
    Shard <- MCShard
    WriterSets <- MCWriterSets
    DataFile <- MCDataFile
    Keep <- KeepTwo
    LastStep = 7
    LoopSteps = 8
    SaveFreq = 2
    MaxCrashes = 2
    NoTracker = NoTracker
INVARIANTS
    DataLostOnce
PROPERTIES
    Ends
    ImplementsDurableProgress
CHECK_DEADLOCK FALSE
