SPECIFICATION Spec
CONSTANTS
    ApiFailures = {0}
    Ollama = FALSE
    Engines = {"langgraph"}
    DemoMode = FALSE
    MaxPasses = 1
    MaxDeviations = 1
INVARIANT
    RefusedMeansEnd
