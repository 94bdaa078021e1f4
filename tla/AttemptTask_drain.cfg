SPECIFICATION Spec
INVARIANTS
  CancelledOnlyIfAsked
CHECK_DEADLOCK FALSE
