SPECIFICATION FairSpec
PROPERTIES
  CancelledTaskEnds
CHECK_DEADLOCK FALSE
