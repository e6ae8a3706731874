SPECIFICATION Spec
CONSTANTS
    Drains = TRUE
    MaxEpoch = 3
    MaxMessages = 2
    MaxAttempts = 2
    MaxFailures = 1
CHECK_DEADLOCK FALSE
INVARIANTS
    OneRegistration
    RunnersAreSpared
    RestartReads
    AcquireNeedsFreshOffer
PROPERTIES
    ReplacementOnlyAfterAbsence
    AmbiguityResolves
