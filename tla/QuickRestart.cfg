SPECIFICATION FairSpec
CONSTANTS
  None = None
  Jobs = {j1}
  Workers = {w1, w2}
  Schedulers = {s1}
  Slots = {k1}
  MaxExecutionAttempts = 2
  MaxDispatchAttempts = 2
  DrainBatch = 2
  FaultKinds = {"worker_crash", "worker_restart"}
  MaxFaults = 1

PROPERTY EventuallyFinished
CHECK_DEADLOCK FALSE
