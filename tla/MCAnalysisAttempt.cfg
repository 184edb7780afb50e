SPECIFICATION Spec
CONSTANTS
  Runners = {r1, r2}
  MaxAttempts = 3
CHECK_DEADLOCK FALSE
INVARIANTS
  OneWorkerAtATime
  OutcomeBeforeState
  PublishedIsRecorded
  NewestOutcomeShown
  QuietRunsRepeatOnlyPartials
