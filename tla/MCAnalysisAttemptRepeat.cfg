SPECIFICATION Spec
CONSTANTS
  Runners = {r1, r2}
  MaxAttempts = 2
CHECK_DEADLOCK FALSE
INVARIANTS
  OnlyRetriesRepeat
