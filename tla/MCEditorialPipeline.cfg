SPECIFICATION FairSpec
CONSTANTS
  MaxRuns = 3
CHECK_DEADLOCK FALSE
INVARIANTS
  PublishedIntroVerified
  DrainedBeforeGates
  BriefMatchesTopics
  TimedOutRetryKeepsReport
PROPERTIES
  HonoursContract
  RunEnds
