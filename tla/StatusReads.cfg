CONSTANTS
  w1 = w1
  w2 = w2
  None = None
  Workers = {w1, w2}
  Home <- MCHome
  Replicas = {1, 2}
  Jobs = {j1}
  RecentLimit = 1
  Clock <- OneInstant
  MaxReports = 2
  FaultKinds = {"restart", "timeout"}
  MaxFaults = 1
  Components = {"scheduler-1", "worker-1", "postgres-primary"}
  Listed = {j1, j2}
SPECIFICATION StatusReadsSpec
INVARIANTS
  ConvergedShowsAll
  HealthIsWitnessed
  MessagesTypeOK
  PageIsNewest
  BacklogAccounted

  
CHECK_DEADLOCK FALSE
