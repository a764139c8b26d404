SPECIFICATION VersionSpec
CONSTANTS
  Version <- MCVersion
  Builds <- MCBuilds
  NoDir = NoDir
  Absent = Absent
  Torn = Torn
INVARIANTS
  OpenedIsCurrent
  WipeIsResumed
PROPERTIES
  NoLossUnforced
