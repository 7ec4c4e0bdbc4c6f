SPECIFICATION Spec
CONSTANTS
  a = a
  b = b
  c = c
  unknown = unknown
  Steps <- MCSteps
  Templates <- MCTemplates
  Parallelism = 2
  MaxControls = 2
  MaxFaults = 1
INVARIANTS
  TypeOK
  DependenciesFirst
  ReportedOutcome
  StoredInTheEnd
PROPERTIES
  ImplementsSchedule
  Forgotten
CHECK_DEADLOCK FALSE
