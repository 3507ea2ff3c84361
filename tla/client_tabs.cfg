SPECIFICATION Spec
CONSTANTS
  p1 = p1
  p2 = p2
  a = a
  b = b
  NoPage = NoPage
  Other = Other
  Pages = {p1, p2}
  Ids = {a,b}
  ClientId <- OneClient
  MaxPending = 1
  MaxRecoveryGap = 1
  MaxOthers = 0
  MaxFaults = 1
  MaxInbox = 1
  SyncMayFail = TRUE
INVARIANTS DocumentIsPrefix OutcomesAreTrue NothingLost
CHECK_DEADLOCK FALSE
SYMMETRY Interchangeable
