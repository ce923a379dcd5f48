SPECIFICATION Spec
CONSTANTS
  Peer = {p1, p2}
  Client = {c1, c2}
  Absent = Absent
  Nobody = Nobody
  Room = 2
  MaxSteps = 4
SYMMETRY Symmetry
INVARIANTS ViewInv ViewExplained
CHECK_DEADLOCK FALSE
