SPECIFICATION GossipSpec
CONSTANTS
  None = None
  w1 = w1
  w2 = w2
  Replicas <- TwoReplicas
  Workers = {w1, w2}
  Home <- MCHome
  Jobs = {j1, j2}
  Clock <- TwoInstants
  RecentLimit = 1
  MaxReports = 2
  FaultKinds = {"partition", "timeout", "restart"}
  MaxFaults = 1
INVARIANTS TypeOK NeverOvercounts ViewsAgree WindowIsNewest
PROPERTIES IncrementCounts EventuallyConverged
