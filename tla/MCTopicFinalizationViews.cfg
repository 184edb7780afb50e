SPECIFICATION Spec
CONSTANTS
  Themes = {t1, t2}
  Runners = {r1, r2}
  MaxRevisions = 3
CHECK_DEADLOCK FALSE
INVARIANTS
  ApprovedDraftStable
