SPECIFICATION Spec
CONSTANTS
    BatchSize = 3
    N = 2
    DP = 2
    Orders <- MCOrders
    Configs <- MCConfigs
    MaxSteps = 2
    None = None
INVARIANTS
    RowsAligned
    OnPolicyStep
    TeacherSeesItsOwn
    ColumnsAreThere
