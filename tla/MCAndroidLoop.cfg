SPECIFICATION FairLoop
CONSTANTS
  Receivers = 2
  File = {f1}
  QueueSize = 1
  MaxRequests = 1
  MaxHandled = 3
  Nothing = Nothing
INVARIANTS StoreInv ShownExplained
PROPERTY LoopMoves
CHECK_DEADLOCK FALSE
