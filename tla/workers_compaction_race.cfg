SPECIFICATION Spec
CONSTANTS
  w1 = w1
  w2 = w2
  Nobody = Nobody
  Workers = {w1, w2}
  Ops <- TwoOps
  PackSchema <- SameSchema
  MaxRecoveryGap = 1
  MaxMailbox = 1
  HistoryLimit = 2
  SnapshotInterval = 1
  WalVersions = 0
  SnapshotsPerDocument = 1
  Expiring = {}
  MaxEpoch = 2
INVARIANT OwnerStateIsCanonical
CHECK_DEADLOCK FALSE
VIEW DocumentView
SYMMETRY Interchangeable
