SPECIFICATION FairSpec
CONSTANTS
  None = None
  Jobs = {j1}
  Workers = {w1, w2}
  Schedulers = {s1, s2}
  Slots = {k1}
  MaxExecutionAttempts = 2
  MaxDispatchAttempts = 2
  DrainBatch = 2
  FaultKinds = {"step_down", "scheduler_crash", "worker_crash", "timeout", "ack_lost", "false_suspicion"}
  MaxFaults = 1

PROPERTIES EventuallySettled 
CHECK_DEADLOCK FALSE
