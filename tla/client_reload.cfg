SPECIFICATION Spec
CONSTANTS
  p1 = p1
  p2 = p2
  a = a
  b = b
  NoPage = NoPage
  Other = Other
  Pages = {p1, p2}
  Ids = {a}
  ClientId <- ClientPerPage
  MaxPending = 1
  MaxRecoveryGap = 1
  MaxOthers = 1
  MaxFaults = 1
  MaxInbox = 3
  SyncMayFail = TRUE
INVARIANT OutcomesAreTrue
CHECK_DEADLOCK FALSE
