SPECIFICATION Spec
CONSTANTS
  Cid <- MCCid
  Content <- MCContent
  Logs <- MCLogs
  MsPerSec = 2
  MsPerWeek = 2
  MaxBuffered = 2
  MaxTroubles <- MCMaxTroubles
  MaxOldest = 1
CHECK_DEADLOCK FALSE
PROPERTIES
  NotifiesOncePersisted
