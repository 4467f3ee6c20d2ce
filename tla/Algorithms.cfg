\* All small inputs of every algorithm.
SPECIFICATION ChooseSpec
CONSTANTS
    Batches <- MCBatches
    Micros <- MCMicros
    Forwards <- MCForwards
    KernelJobs <- MCKernelJobs
    SizeConfigs <- MCConfigs
    WorkerKinds <- MCWorkerKinds
    Protos <- MCProtos
    ModelJobs <- MCModelJobs
    GroupJobs <- MCGroupJobs
    Talks <- MCRequests
    SampleJobs <- MCSampleJobs
    LongestTalk = 7
    LongestBatch = 4
    SafetyBound = 4
    MeanBound = 3
    LossConfig <- MCLoss
INVARIANTS
    OwnGroupOnly
    VariantsAgree
    OnlyKeptTokensCount
    StepsInBounds
    RightLogProb
    KernelsArePlain
    AcceptedBatchesFit
    PlacedForUse
    RowsStayTogether
    ShardsMakeTheModel
    EachWorkerItsOwn
    OnlyAnswersAreTrained
\* One input is chosen.
CHECK_DEADLOCK FALSE
