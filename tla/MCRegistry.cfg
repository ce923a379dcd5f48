SPECIFICATION MCSpec
CONSTANTS
  App = {a1, a2}
  File = {f1, f2}
  Path = {path1}
  Raw = {raw1}
  None = None
INVARIANT RegisteredIsFound
CHECK_DEADLOCK FALSE
