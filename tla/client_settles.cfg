SPECIFICATION LiveSpec
CONSTANTS
  p1 = p1
  p2 = p2
  a = a
  b = b
  NoPage = NoPage
  Other = Other
  Pages = {p1}
  Ids = {a}
  ClientId <- OneClient
  MaxPending = 1
  MaxRecoveryGap = 1
  MaxOthers = 2
  MaxFaults = 2
  MaxInbox = 3
  SyncMayFail = FALSE
INVARIANT NothingForgotten
PROPERTY PendingSettles
CHECK_DEADLOCK FALSE
