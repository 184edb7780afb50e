SPECIFICATION Spec
CONSTANTS
  MaxRuns = 2
CHECK_DEADLOCK FALSE
INVARIANTS
  OfferedRetryIsAccepted
