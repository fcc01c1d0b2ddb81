SPECIFICATION SequentialSpec
CONSTANTS
    Calls = {c1, c2, c3}
    Endpoints <- AllEndpoints
    AutoMerge = TRUE
    DeployOnMerge = TRUE
    Engines = {"langgraph", "simple"}
    MaxRestarts = 1
    MaxFaults = 0
SYMMETRY CallSymmetry
INVARIANT
    RowAndRegistryAgree
