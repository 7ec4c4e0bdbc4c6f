SPECIFICATION FairSpec
CONSTANTS
    Calls = {c1, c2}
    long = long
    short = short
    Plans = {long, short}
    NoPlan = NoPlan
    Size <- MCSize
    Heads <- MCHeads
    Critical <- MCCritical
    Needs <- MCNeeds
    MaxRequests = 3
    MaxFaults = 1
INVARIANTS TypeOK InProgressIsMinded CancelStops ModeEarned
PROPERTY InProgressEnds
CHECK_DEADLOCK FALSE
