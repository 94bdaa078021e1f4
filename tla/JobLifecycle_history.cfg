\* One Job reopened several times: both kinds of retry, answers, four Attempts.
CONSTANTS
  Jobs = {j1}
  Workers = {w1, w2}
  NoWorker = NoWorker
  Capacity = 1
  Slots = 2
  LeaseTicks = 2
  AutomaticRetryLimit = 1
  MaxAttempts = 4
  ReportedStages <- MCStages
SPECIFICATION Spec
INVARIANTS
  StreamTellsStatus
PROPERTIES
  ImplementsContract
CHECK_DEADLOCK FALSE
