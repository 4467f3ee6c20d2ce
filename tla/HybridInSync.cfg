\* Every configuration that keeps the engine in sync; two switches and more,
\* and a restart from a checkpoint.
SPECIFICATION FairSpec
CONSTANTS
    Workers = {w1, w2}
    Requests = {r1, r2}
    Configs <- InSyncConfigs
    MaxUpdates = 2
    MaxRestarts = 1
    Garbage = Garbage
    Missing = Missing
INVARIANTS
    OnPolicy
    CacheIsFresh
    RunsAwake
    StreamsApart
PROPERTY BackToTraining
