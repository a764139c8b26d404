SPECIFICATION Spec
CONSTANTS
  n1 = n1
  n2 = n2
  k1 = k1
  k2 = k2
  NoName = NoName
  Retention = Retention
  Free = Free
  Name <- MCName
  Caller <- MCCaller
  TouchInterval = 2
  Bucket = 2
  Week = 2
  RetentionWeeks = 0
  OpTime = 1
  Start = 4
  MaxSid = 3
  Ages = {0, 1}
  MaxTime = 6
  MaxTroubles = 1
  MaxRecords = 1
SYMMETRY Symmetry
CHECK_DEADLOCK FALSE
INVARIANTS
  TypeOK
  CacheMatchesTable
  LagBoundedUnlessLapsed
  NoOrphans
  NoMisattribution
