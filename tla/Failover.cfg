SPECIFICATION Spec
CONSTANTS
  a = a
  b = b
  Urls <- MCUrls
  Orders <- MCOrders
  Requests = {q1, q2}
  Limits = {1, 3}
  Threshold = 2
  MaxFailures = 5
INVARIANTS
  TypeOK
  BreakerAgreesWithHealth
  HalfOpenIsProbed
PROPERTIES
  BreakersProtect
  PreferredRecovers
