SPECIFICATION Spec
CONSTANTS
  None = None
  w1 = w1
  w2 = w2
  Replicas <- TwoReplicas
  Workers = {w1, w2}
  Home <- MCHome
  Jobs = {j1}
  Clock <- OneInstant
  RecentLimit = 1
  MaxReports = 3
  FaultKinds = {"restart"}
  MaxFaults = 1
PROPERTY NoIncrementLost
