CONSTANTS
  Schedulers = {s1}
  Others = Others
  Interval = 4
  perCallTimeout = 3
  staleTTL = 10
  deadTTL = 16
  Capacity = 1
  Nodes = {s1, s2, s3}
  Placements = {p1, p2, p3}
  maxRecentPlacements = 2
  MaxStops = 2
SPECIFICATION SchedulersSpec
INVARIANTS
  HeartbeatTypeOK
  TTLsCountBeats
  BeatsKeepPace
  HistoryIsReplay
PROPERTIES
  CrashNoticed
  LoadKnown
  EventuallyIdentical
CHECK_DEADLOCK FALSE
