SPECIFICATION OneCauseSpec
CONSTANTS
  None = None
  Jobs = {j1, j2}
  Workers = {w1, w2, w3}
  Schedulers = {s1}
  Slots = {k1}
  MaxExecutionAttempts = 2
  MaxDispatchAttempts = 2
  DrainBatch = 2
  FaultKinds = {"scheduler_crash", "store_error", "worker_crash"}
  MaxFaults = 3
SYMMETRY Symmetry
INVARIANTS   ClosedMeansPlaced
 
CHECK_DEADLOCK FALSE
