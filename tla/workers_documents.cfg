SPECIFICATION Spec
CONSTANTS
  w1 = w1
  w2 = w2
  Nobody = Nobody
  Workers = {w1, w2}
  Ops <- UpgradeOps
  PackSchema <- Upgrading
  MaxRecoveryGap = 1
  MaxMailbox = 1
  HistoryLimit = 2
  SnapshotInterval = 1
  WalVersions = 0
  SnapshotsPerDocument = 1
  Expiring = {"a"}
  MaxEpoch = 2
INVARIANTS AtMostOnce OwnerStateIsCanonical Recoverable MigrationIsBarrier HistoryIsComplete
CONSTRAINT CompactionSparesLoaders
CHECK_DEADLOCK FALSE
VIEW DocumentView
