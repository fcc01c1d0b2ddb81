SPECIFICATION FairSpec
CONSTANTS
    Calls = {c1, c2}
    Endpoints <- AllEndpoints
    AutoMerge = TRUE
    DeployOnMerge = FALSE
    Engines = {"langgraph", "simple"}
    MaxRestarts = 1
    MaxFaults = 2
INVARIANT
    CompletedIsDecided
PROPERTIES
    RunningSettles
    ApprovalReachesMerge
