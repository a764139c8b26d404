CONSTANTS
  Container = {c1}
  Reported = {"exited", "running", "restarting"}
  Gone = "gone"
  Service = {s1}
  ServiceOf <- MCServiceOf
  MaxMark = 1
  None = None
SPECIFICATION Spec
INVARIANTS ListIsCurrent NoopMeansDone
