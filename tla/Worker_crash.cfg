SPECIFICATION FairSpec
CONSTANTS
  w1 = w1
  w2 = w2
  alice = alice
  bob = bob
  chatA = chatA
  chatB = chatB
  Workers <- TwoWorkers
  MaxEntries = 2
  StreamOf <- AllInbound
  KeyOf <- OneContact
  ChatOf <- TwoNumbers
  RouteOf <- FirstRoutable
  LlmEnabled = TRUE
  Count = 1
  ClaimCount = 1
  MaxRetries = 2
  FaultKinds <- NoKinds
  MaxFaults = 0
  MaxCrashes = 1
PROPERTIES
  EventuallyAcked
  LocksFreed
