SPECIFICATION PSpec
CONSTANTS
  Daemon = {d1, d2}
  Client = {c1}
  None = None
  MaxKills = 1
  MaxKeys = 2
  MaxPairings = 2
SYMMETRY Symmetry
INVARIANTS ProfileInv PairingsKept OneServes FileExplained
CHECK_DEADLOCK FALSE
