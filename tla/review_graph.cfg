SPECIFICATION Spec
CONSTANTS
    ApiFailures = {0, 1, 2}
    Ollama = TRUE
    Engines = {"langgraph", "simple"}
    DemoMode = FALSE
    MaxPasses = 2
    MaxDeviations = 2
INVARIANTS
    TypeOK
    ApprovedMeansPassed
    ApprovedOnThisPass
    ChallengesHitTheirFinding
    ResultIsRecorded
