SPECIFICATION LiveSpec
CONSTANTS
  c1 = c1
  c2 = c2
  Conns = {c1, c2}
  SyncSlots = {1}
  HubSlots = {1}
  PageSize = 4
  WalVersions = 3
  MaxHead = 1
PROPERTY ConnectionsRepaired
CHECK_DEADLOCK FALSE
