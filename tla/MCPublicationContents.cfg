SPECIFICATION MCSpec
CONSTANTS
  Targets <- MCTargets
  BatchSize = 3
  Workers = {w1, w2}
  MaxPasses = 3
  MaxContexts = 2
  MaxBatchPasses = 3
  Measures = {m1, m2}
  Styles = {1, 2}
  Worlds <- Faulty
  MaxPlan = 2
  MaxRest = 2
  MaxExports = 2
  Unset = Unset
  CopyBatches <- MCBatches
  Units = {"u1"}
  MaxReportRuns = 2
  TranslationContexts = {1, 2}
  Checks = 2
  BriefItems = 2
  Cited <- MCCited
  MaxAdditions = 1
  MaxSourceRuns = 2
  c1 = c1  c2 = c2
CHECK_DEADLOCK FALSE
INVARIANTS
  AgendaListsOnlyDrawn
