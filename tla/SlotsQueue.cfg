SPECIFICATION Spec
CONSTANTS
  Requests = {r1, r2}
  Priorities <- MCPriorities
  Times <- MCTimes
  Factor = 10
  Limit = 1
  QueueMode = TRUE
  MaxFaults = 1
  MaxAborts = 1
  MaxCrashes = 1
INVARIANTS
  TypeOK
  EntriesAccounted
  ExpiryArmed
  HigherPriorityFirst
PROPERTY EveryRequestProceeds
CHECK_DEADLOCK FALSE
