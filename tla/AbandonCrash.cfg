SPECIFICATION Spec
CONSTANTS
  None = None
  Jobs = {j1}
  Workers = {w1}
  Schedulers = {s1}
  Slots = {k1}
  MaxExecutionAttempts = 1
  MaxDispatchAttempts = 1
  DrainBatch = 1
  FaultKinds = {"scheduler_crash"}
  MaxFaults = 1

INVARIANT NoStrandedJob
CHECK_DEADLOCK FALSE
