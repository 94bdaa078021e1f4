CONSTANTS
  MaxAttempts = 1
  Janitors = {j1, j2}
  Batch = 2
  MaxArtifact = 3
  MaxAttempt = 6
  Report = 4
  ReportSizes = {1}
  HelperTries = 2
  MaxFaults = 1
SPECIFICATION MCSpec
INVARIANTS
  OrphanNeedsMishap
  DeadlineLeavesEvidence
  CleanUnlessAbandoned
PROPERTIES
  LeftoversAreSwept
CHECK_DEADLOCK FALSE
