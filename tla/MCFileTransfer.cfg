SPECIFICATION FairSpec
CONSTANTS
  Session = {s1}
  App = {a1}
  File = {f1}
  Path = {path1}
  Raw = {0, 3, 6}
  MaxSize = 6
  MaxEdits = 3
  MaxRestarts = 2
  None = None
INVARIANTS WriterInv GapsExplained LoadedWithinOne
PROPERTIES ImplementsTransfer TransferEnds
CHECK_DEADLOCK FALSE
