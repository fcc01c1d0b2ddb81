SPECIFICATION Spec
CONSTANTS
    Calls = {c1, c2, c3}
    Endpoints <- AllEndpoints
    AutoMerge = TRUE
    DeployOnMerge = TRUE
    Engines = {"langgraph", "simple"}
    MaxRestarts = 1
    MaxFaults = 0
SYMMETRY CallSymmetry
INVARIANTS
    IInv
    MergeNeedsHuman
    EveryMergeAudited
    DeployedOnce
    RecordsAreTrue
    RunningIsWorkedOn
    PendingIsUnderWay
    NoApprovalLost
PROPERTY
    ImplementsContract
