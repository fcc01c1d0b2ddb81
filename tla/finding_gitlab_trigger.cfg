SPECIFICATION FairSpec
CONSTANTS
    Deliveries = {d1}
    Events <- GitLabEvents
    SecretSet = TRUE
    TokenSet = TRUE
    Retries = 3
    MaxCrashes = 0
INVARIANT
    GitLabTriggers
