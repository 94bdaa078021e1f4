\* Two Jobs and two Workers competing for one unit of Platform Capacity.
\* No symmetry: liveness checking does not allow it.
CONSTANTS
  Jobs = {j1, j2}
  Workers = {w1, w2}
  NoWorker = NoWorker
  Capacity = 1
  Slots = 1
  LeaseTicks = 1
  AutomaticRetryLimit = 1
  MaxAttempts = 2
  ReportedStages <- MCPublishing
SPECIFICATION FairSpec
INVARIANTS
  JobAttemptAgreement
  OneRunningHolder
PROPERTIES
  CancelIsCarriedOut
  JobComesToRest
CHECK_DEADLOCK FALSE
