SPECIFICATION Spec
CONSTANTS
  Sources <- MCSources
  Widths <- MCWidths
  MaxGapPct = 60
  MaxTime = 6
  MaxTroubles = 2
CHECK_DEADLOCK FALSE
INVARIANTS
  TypeOK
  RolledStaysWhole
  ClosedAreRolled
PROPERTIES
  WritesWholeElapsedBuckets
