SPECIFICATION Spec
CONSTANTS
  u1 = u1
  u2 = u2
  None = None
  Docs = {1, 2, 3}
  Users = {u1, u2}
  Owner <- MCOwner
  Searches = {s1}
  Writer = w
  MaxLoaded = 1
  MaxFaults = 0
  MaxMisses = 1
  BatchSize = 2
  MaxRetries = 2
INVARIANT WrittenSomewhere
CHECK_DEADLOCK FALSE
