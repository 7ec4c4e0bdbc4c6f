SPECIFICATION Spec
CONSTANTS
  Requests = {r1, r2}
  Priorities <- MCPriorities
  Times <- MCTimes
  Factor = 10
  Limit = 1
  QueueMode = FALSE
  MaxFaults = 0
  MaxAborts = 0
  MaxCrashes = 0
INVARIANT ConcurrencyLimit
