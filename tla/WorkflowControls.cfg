SPECIFICATION Spec
CONSTANTS
  a = a
  b = b
  c = c
  unknown = unknown
  Steps <- MCSteps
  Templates <- MCTemplates
  Parallelism = 2
  MaxControls = 1
  MaxFaults = 0
PROPERTY ControlsHeeded
CHECK_DEADLOCK FALSE
