\* Fused kernels on one and two ranks of a sequence-parallel group.
SPECIFICATION ChooseSpec
CONSTANTS
    Batches = {}
    Micros = {}
    Forwards <- MCFused
    KernelJobs = {}
    SizeConfigs = {}
    WorkerKinds = {}
    Protos = {}
    ModelJobs <- MCModelJobs
    GroupJobs <- MCGroupJobs
    Talks <- MCRequests
    SampleJobs <- MCSampleJobs
    LongestTalk = 7
    LongestBatch = 4
    SafetyBound = 4
    MeanBound = 3
    LossConfig <- MCLoss
INVARIANT FusedLogProb
\* One input is chosen.
CHECK_DEADLOCK FALSE
