SPECIFICATION FairSpec
CONSTANTS
  MaxSize = 6
  Capacity = 2
  Android = TRUE
INVARIANTS AllSent InPlace StuckOnlyAfterAbort
PROPERTY SendEnds
CHECK_DEADLOCK FALSE
