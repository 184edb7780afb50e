SPECIFICATION MCSpec
CONSTANTS
  w1 = w1  w2 = w2  w3 = w3  A = A  B = B
  p1 = p1  p2 = p2  m1 = m1  m2 = m2  f1 = f1
  f2 = f2  b1 = b1  b2 = b2  c1 = c1  c2 = c2
  o1 = o1  o2 = o2  i1 = i1  i2 = i2
  Stages = {A, B}
  Workers = {w1, w2, w3}
  Owner <- MCOwner
  Keys = {k1, k2}
  MaxRounds = 2
  None = None
  LastPage = 6
  PageBudget = 3
  RouteProposals <- Routes
  Sections <- Outline
  Targets <- Further
  MaxChecks = 2
  CheckPages = 2
  MaxRetries = 1
  Chunks = 2
  Readers = 2
  Splittable <- Cuttable
  MaxRuns = 2
  PoolItems = 5
  BatchSize = 3
  PoolWorkers = 2
  Topics = {m1, m2}
  Claims = {f1, f2, b1, b2}
  Invalid = {b1}
  Loose = {f2}
  Wrong = {b2}
  Series <- CandidateSeries
  Points <- SeriesPoints
  Fact <- SeriesFact
  Original = {0}
  DeltaWorkers = {w1, w2}
  GroupLimit = 2
  MergeLimit = 1
  CallLimit = 5
  SourceParts = {p1, p2}
  Meanings = {m1, m2}
  MaxReviews = 5
  CopyParts = {p1, p2}
  MaxDrafts = 6
  Items = {p1, p2}
  MaxReviewAttempts = 3
  LineCount = 3
  BlankLines = {2}
  FindingCopies = {f1, f2, b1, b2}
  Sourced = {f1, f2, b1}
  Topical = {f1, f2}
  Least = 2
  Most = 3
CHECK_DEADLOCK FALSE
INVARIANTS
  RepairsTellTheTruth
