CONSTANTS
  WeekLen = 2
  Week <- MCWeek
  PageLimit = 1
  None = None
  MaxTs = 2
  MaxBatch = 2
  MaxRows = 3
SPECIFICATION LiveSpec
INVARIANTS PagesAreRight ShownInOrder NoLineSkipped
PROPERTIES AlwaysCatchesUp
