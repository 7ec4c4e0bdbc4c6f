SPECIFICATION FairSpec
CONSTANTS
  u1 = u1
  u2 = u2
  None = None
  Docs = {1, 2, 3}
  Users = {u1, u2}
  Owner <- MCOwner
  Searches = {s1}
  Writer = w
  MaxLoaded = 1
  MaxFaults = 2
  MaxMisses = 1
  BatchSize = 2
  MaxRetries = 2
INVARIANTS
  TypeOK
  ItemsAccounted
  QueueMinded
  WrittenKept
PROPERTY FirstTriesEnd
CHECK_DEADLOCK FALSE
