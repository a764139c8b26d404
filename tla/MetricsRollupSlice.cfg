SPECIFICATION Spec
CONSTANTS
  Sources <- Containers
  Widths <- MCWidths
  MaxGapPct = 60
  MaxTime = 6
  MaxTroubles = 0
CHECK_DEADLOCK FALSE
INVARIANTS
  EveryClosedIsRolled
