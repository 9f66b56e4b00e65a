SPECIFICATION Spec
CONSTANTS
  None = None
  Jobs = {j1}
  Workers = {w1, w2}
  Schedulers = {s1}
  Slots = {k1}
  MaxExecutionAttempts = 3
  MaxDispatchAttempts = 2
  DrainBatch = 2
  FaultKinds = {"worker_crash", "scheduler_crash"}
  MaxFaults = 2

PROPERTY TerminalIsFinal
CHECK_DEADLOCK FALSE
