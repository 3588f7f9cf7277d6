SPECIFICATION Spec
CONSTANTS
  Timeout = 4
  MaxCancels = 1
INVARIANTS
  NeverLeaksProcess
CHECK_DEADLOCK FALSE
