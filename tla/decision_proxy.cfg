SPECIFICATION ProxySpec
CONSTANTS
    starter = starter
    Calls <- StartAndClicks
    Endpoints <- StartAndReleases
    AutoMerge = TRUE
    DeployOnMerge = FALSE
    Engines = {"simple"}
    MaxRestarts = 1
    MaxFaults = 1
    Clicks = {k1}
    Attempts = 2
    MaxLosses = 1
    MaxCrashes = 1
INVARIANTS
    MergeWasClicked
    ClicksOnRecord
PROPERTY
    ClicksDelivered

