\* One batch of two rows with two cases: a dictionary among the scores.
SPECIFICATION FairPoolSpec
CONSTANTS
    r1 = r1
    r2 = r2
    Rows = {r1, r2}
    Cases <- MCCases
    Batches <- MCBatches
    Processes = 2
    Slots = 1
    MaxRetries = 2
    MaxBatches = 1
    MayBreak = FALSE
    Dict = Dict
    None = None
INVARIANTS
    EveryRowsOwnScore
