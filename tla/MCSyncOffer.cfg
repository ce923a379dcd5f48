SPECIFICATION FairSpec
CONSTANTS
  f1 = f1
  f2 = f2
  Peer = {p1, p2}
  File = {f1, f2}
  Versions <- MCVersions
  MaxOffers = 3
  None = None
INVARIANTS OfferInv StuckOnlyBehindBatch NewestIsKept
PROPERTY CollectionEnds
CHECK_DEADLOCK FALSE
