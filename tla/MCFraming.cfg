SPECIFICATION FairFraming
CONSTANTS
  Messages = 5
  BodySize <- MCBodySize
  HeaderSize = 2
  ReadSize = 7
  SocketSize = 9
  MaxFailures = 2
INVARIANTS FrameInv FailuresExplained
PROPERTY AllReceived
CHECK_DEADLOCK FALSE
