SPECIFICATION MCSpec
CONSTANTS
  Node = {n1, n2}
  Client = {c1, c2}
  Addr = {a1, a2}
  Request = {r1, r2}
  Nobody = Nobody
  NoRequest = NoRequest
  MaxRestarts = 1
SYMMETRY Symmetry
INVARIANTS ChannelSlots PromptAnswerable AcceptIsMeant VerifiedByConsent ExplicitFollowsTable
PROPERTY ImplementsConsent
CHECK_DEADLOCK FALSE
