SPECIFICATION FairSpec
CONSTANTS
  c1 = c1
  c2 = c2
  Consumers <- TwoConsumers
  Claimers <- TwoConsumers
  Trimmers <- TwoConsumers
  Count = 2
  ClaimCount = 2
  MaxLen = 3
  MaxEntries = 4
  MaxCrashes = 1
  MaxFlushes = 1
CHECK_DEADLOCK FALSE
INVARIANTS
  NothingLost
PROPERTIES
  TrimOnlyAcked
  ImplementsQueue
  EventuallyAcked
