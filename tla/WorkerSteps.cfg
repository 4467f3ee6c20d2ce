\* Nine calls, all updates of two ranks with one restart, all divisions of layers.
SPECIFICATION StepsSpec
CONSTANTS
    Width = 3
    Configs <- MCConfigs
    Ranks = {a, b}
    UpdateConfigs <- MCUpdateConfigs
    ResponseWidth = 2
    MaxRestarts = 1
    OffloadConfigs <- MCOffloadConfigs
    MaxPasses = 2
INVARIANTS
    RowsReturned
    WorkBalanced
    NeverStuck
    OwnRowsOnly
    RowsWeighAlike
    TeacherFollows
    OffloadUnseen
