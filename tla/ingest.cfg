SPECIFICATION FairSpec
CONSTANTS
    Deliveries = {d1}
    Events <- AllEvents
    SecretSet = TRUE
    TokenSet = TRUE
    Retries = 3
    MaxCrashes = 1
INVARIANTS
    TypeOK
    NoUninvitedReview
    AnswersAreTrue
PROPERTIES
    ImplementsDelivery
    QuietAfterAnswer
    EveryDeliverySettles
