SPECIFICATION LeaderSpec
CONSTANTS
  s1 = s1
  s2 = s2
  s3 = s3
  NoOne = NoOne
  Gone = Gone
  Schedulers <- ThreeSchedulers
  LOCK_TTL = 3
  MaxDelay = 4
  MaxDowns = 3
  MaxFlushes = 1
SYMMETRY Symmetry
INVARIANTS
  OneLeader
  Failover
  StaleBriefly
