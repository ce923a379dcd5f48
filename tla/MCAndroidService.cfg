SPECIFICATION FairSpec
CONSTANTS
  Instances = 2
  Listener = {l1, l2, l3}
  None = None
INVARIANTS LoopInv CrashExplained ServedUnlessOverlap
PROPERTY LoopsTakeTurns
CHECK_DEADLOCK FALSE
