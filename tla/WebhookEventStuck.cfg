CONSTANTS
    MaxRows = 1
    MaxFirsts = 1
    Workers = {w1, w2}
    MaxRetries = 1
    HealthThreshold = 1
    MaxDbFailures = 1
    TimeoutBelowLock = TRUE
    RedisMissing = {FALSE}
    MaxEdits = 0
    MaxCrashes = 0
    MaxErrors = 0
SPECIFICATION FairSpec
CHECK_DEADLOCK FALSE
PROPERTIES EventDelivered
