\* A job is killed while a rank other than the first still writes its data file.
SPECIFICATION FairSpec
CONSTANTS
    Ranks <- MCRanks
    Leader = 0
    Models = {"sft"}
    Sft = "sft"
    Steps = {1, 2, 3, 4, 5, 6, 7, 8}
    Files <- MCFiles
    Shard <- MCShard
    WriterSets <- MCWriterSets
    DataFile <- MCDataFile
    Keep <- KeepTwo
    LastStep = 7
    LoopSteps = 8
    SaveFreq = 2
    MaxCrashes = 2
    NoTracker = NoTracker
INVARIANTS
    DataInSync
CHECK_DEADLOCK FALSE
