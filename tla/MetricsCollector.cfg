CONSTANTS
  BucketLen = 2
  CollectInterval = 1
  BufferedBuckets = 3
  Scale = 6
  None = None
  MaxIdleFlushes = 2
  StaleAfter = 3
  MaxClock = 8
  MaxStep = 2
  MaxTroubles = 1
SPECIFICATION CollectorSpec
INVARIANTS RowsMatchHistory NothingMissed SnapshotIsOfTheLatest
CHECK_DEADLOCK FALSE
