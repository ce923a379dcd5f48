SPECIFICATION FairSpec
CONSTANTS
  Client = {c1, c2}
  Busy = c1
  Asks = 4
  Inbox = 1
  Outbox = 1
  Wire = 1
  MaxRequests <- MCRequests
  MaxEvents = 3
  MaxDrops = 1
INVARIANTS QueueInv AskerIsAnswered
PROPERTIES WaitsEnd
CHECK_DEADLOCK FALSE
