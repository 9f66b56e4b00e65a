CONSTANTS
  s1 = s1
  s2 = s2
  s3 = s3
  None = None
  Nodes = {s1, s2, s3}
  Members <- ThreeSchedulers
  retryRounds = 3
  MaxLost = 1
  MaxTerm = 2
  MaxStops = 1
SPECIFICATION OneRequestSpec
INVARIANTS
  GatewayTypeOK
  LeaderShownIsCurrent
  OneJobPerAnswer
  SteadyLeaderServes
CHECK_DEADLOCK FALSE
PROPERTY RequestAnswered
