CONSTANTS
    MaxRows = 2
    MaxFirsts = 1
    Workers = {w1, w2}
    MaxRetries = 1
    HealthThreshold = 1
    MaxDbFailures = 1
    TimeoutBelowLock = TRUE
    RedisMissing = {TRUE}
    MaxEdits = 0
    MaxCrashes = 1
    MaxErrors = 1
SPECIFICATION FairSpec
CHECK_DEADLOCK FALSE
PROPERTIES PendingEnds
