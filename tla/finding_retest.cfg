SPECIFICATION FairSpec
CONSTANTS
    Calls = {c1, c2}
    Endpoints <- StartAndRetest
    AutoMerge = TRUE
    DeployOnMerge = TRUE
    Engines = {"langgraph"}
    MaxRestarts = 0
    MaxFaults = 0
PROPERTY
    RetestRuns
