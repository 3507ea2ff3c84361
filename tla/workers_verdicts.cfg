SPECIFICATION Spec
CONSTANTS
  w1 = w1
  w2 = w2
  Nobody = Nobody
  Workers = {w1, w2}
  Ops <- CoreOps
  PackSchema <- SameSchema
  MaxRecoveryGap = 1
  MaxMailbox = 1
  HistoryLimit = 2
  SnapshotInterval = 9
  WalVersions = 3
  SnapshotsPerDocument = 2
  Expiring = {}
  MaxEpoch = 2
INVARIANTS TypeOK OneVerdict OwnerDecidesOnce OneReloadSuffices
PROPERTIES ImplementsCanonicalLog
CHECK_DEADLOCK FALSE
VIEW VerdictView
CONSTRAINT NoSnapshots
SYMMETRY Interchangeable
