\* WorkerPool: two ids, one of which suffers all mishaps.  LeaseCapacity: two
\* Claimants and two Attempts compete for one unit.  ControlApi: three submissions
\* under one key, two transactions that write events, a stream in pages of two.
SPECIFICATION MCSpec
CONSTANTS
  Workers = {w1, w2}
  Jobs = {j1}
  Nobody = Nobody
  Capacities = {1, 2}
  Restarting = {w1}
  Pausing = {}
  Fragile = {w1}
  Slots = 1
  MaxAttempts = 1
  AttemptRows = {a1, a2}
  Claimants = {c1, c2}
  Recoverers = {c1}
  NoTransaction = NoTransaction
  Units = 1
  LeaseLength = 2
  MaxTime = 2
  Calls = {1, 2, 3}
  NoSuchJob = 0
  BodyOf <- MCBodyOf
  Writers = {v1, v2}
  NoWriter = NoWriter
  MaxSequence = 4
  PageLimit = 2
  MaxConnections = 3
INVARIANTS
  ClaimersAgree
  CapacityUnlessRevived
  KeyNamesOneJob
  StreamSkipsNothing
PROPERTIES
  NeverEndedWhileLive
  StopEnds
CHECK_DEADLOCK FALSE
