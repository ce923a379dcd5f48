SPECIFICATION Spec
CONSTANTS
  Session = {s1}
  App = {a1}
  File = {f1}
  Path = {path1}
  Raw = {0, 3, 4}
  MaxSize = 4
  MaxEdits = 2
  MaxRestarts = 0
  None = None
INVARIANT OversizedOnly
CHECK_DEADLOCK FALSE
