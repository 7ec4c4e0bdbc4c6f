SPECIFICATION Spec
CONSTANTS
  Requests = {r1, r2, r3}
  Priorities = {1}
  Times = {17}
  Factor = 10
  Limit = 1
  QueueMode = FALSE
  MaxFaults = 0
  MaxAborts = 2
  MaxCrashes = 0
PROPERTY SlotsRecover
