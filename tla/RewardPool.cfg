\* Two batches of two rows with two cases, two processes and one slot.
SPECIFICATION FairPoolSpec
CONSTANTS
    r1 = r1
    r2 = r2
    Rows = {r1, r2}
    Cases <- MCCases
    Batches <- MCBatches
    Processes = 2
    Slots = 1
    MaxRetries = 2
    MaxBatches = 2
    MayBreak = TRUE
    Dict = Dict
    None = None
INVARIANTS
    ScoreIsItsOwn
PROPERTIES
    ScoringEnds
