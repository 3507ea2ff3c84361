SPECIFICATION Spec
CONSTANTS
  c1 = c1
  c2 = c2
  Gone = Gone
  Clients = {c1, c2}
  Slots <- OneHasty
  Ops <- OpPerBoot
  Sessions = {1, 2}
  SchemaAt <- TwoBoots
  MaxQueue = 1
  MaxRecoveryGap = 1
  SnapshotInterval = 1
  Retentions = {"retain", "delete"}
  Crowded = TRUE
  SweepsOverlap = FALSE
INVARIANTS OneOrderingPoint SessionIsCanonical LeasesAreCounted NobodyMissesAnEvent
PROPERTIES ImplementsCanonicalLog
CHECK_DEADLOCK FALSE
VIEW View
