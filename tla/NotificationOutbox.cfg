\* Two Notifiers and two notifications of one Job: crashes, lapsed claims, retention.
\* No symmetry: liveness checking does not allow it.
CONSTANTS
  Jobs = {j1}
  MaxEvents = 2
  Notifiers = {f1, f2}
  Nobody = Nobody
  NoNote = NoNote
  LeaseTicks = 1
  BackoffTicks = 1
  MaxCards = 2
SPECIFICATION FairSpec
INVARIANTS
  DuplicateNeedsMishap
PROPERTIES
  ImplementsPromise
  EveryNotificationDelivered
CHECK_DEADLOCK FALSE
