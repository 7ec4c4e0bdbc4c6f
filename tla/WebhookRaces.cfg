CONSTANTS
    MaxRows = 2
    MaxFirsts = 1
    Workers = {w1, w2}
    MaxRetries = 1
    HealthThreshold = 1
    MaxDbFailures = 1
    TimeoutBelowLock = TRUE
    RedisMissing = {FALSE}
    MaxEdits = 1
    MaxCrashes = 0
    MaxErrors = 1
SYMMETRY WorkerSymmetry
SPECIFICATION Spec
CHECK_DEADLOCK FALSE
INVARIANTS TypeOK RetryBudget RetryChain EndedRowsCounted HealthDecisionGrounded
    AnnouncedRetryExists PolledRowPostedOnce
PROPERTIES EndedForGood
