SPECIFICATION Spec
CONSTANTS
  Topics = {1, 2, 3}
  BatchSize = 2
  CallBudget = 3
  Workers = {w1, w2}
  MaxDraft = 3
  MaxPasses = 2
SYMMETRY Symmetry
CHECK_DEADLOCK FALSE
INVARIANTS
  ReturnedWasReviewed
  OmittedWasDenied
  CoverageKept
