CONSTANTS
  Series = {"web", "worker"}
  Watched = {{"web"}, {"web", "worker"}}
  Width = 2
  Start = 1
  MaxTime = 4
SPECIFICATION FairSpec
INVARIANT NothingSkipped
PROPERTY EveryRowIsSent
CHECK_DEADLOCK FALSE
