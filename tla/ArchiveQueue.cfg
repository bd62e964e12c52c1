CONSTANTS
  inbox0 = inbox0
  inbox1 = inbox1
  eml = eml
  bad = bad
  Walk <- MCWalk
  Root <- MCRoot
  Path <- MCPath
  Offset <- MCOffset
  Mbox = {inbox0, inbox1}
  Unparsable = {bad}
  Workers = {w1, w2}
  Procs = {p1}
  ProcOf <- MCProcOf
  HighWater = 2
  RetryLimit = 1
  None = None
  MaxRuns = 2
  MaxFaults = 2
  MaxStops = 1
SPECIFICATION Spec
INVARIANTS JobsNeverLost WalkPublishes
PROPERTY JobsSettle
CHECK_DEADLOCK FALSE
