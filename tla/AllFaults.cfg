SPECIFICATION Spec
CONSTANTS
  None = None
  Jobs = {j1}
  Workers = {w1, w2}
  Schedulers = {s1, s2}
  Slots = {k1}
  MaxExecutionAttempts = 2
  MaxDispatchAttempts = 1
  DrainBatch = 2
  FaultKinds = {"step_down", "scheduler_crash", "worker_crash", "worker_restart", "timeout", "ack_lost", "store_error", "false_suspicion"}
  MaxFaults = 2
SYMMETRY Symmetry
INVARIANTS TypeOK NoLostDispatch FailedMeansSpent
PROPERTY RefinesIntent
CHECK_DEADLOCK FALSE
