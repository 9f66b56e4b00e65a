SPECIFICATION Spec
CONSTANTS
  None = None
  Jobs = {j1}
  Workers = {w1, w2}
  Schedulers = {s1, s2}
  Slots = {k1}
  MaxExecutionAttempts = 2
  MaxDispatchAttempts = 2
  DrainBatch = 2
  FaultKinds = {"step_down"}
  MaxFaults = 2

INVARIANT OneExecution
CHECK_DEADLOCK FALSE
