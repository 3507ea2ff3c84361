SPECIFICATION LiveSpec
CONSTANTS
  c1 = c1
  c2 = c2
  Conns = {c1}
  SyncSlots = {1}
  HubSlots = {1}
  PageSize = 3
  WalVersions = 1
  MaxHead = 3
INVARIANTS TypeOK SettledIsFresh KeepsUpWithHub
PROPERTIES HubRepaired ConnectionsRepaired
CHECK_DEADLOCK FALSE
