SPECIFICATION FairSpec
CONSTANTS
  w1 = w1
  w2 = w2
  alice = alice
  bob = bob
  chatA = chatA
  chatB = chatB
  Workers <- TwoWorkers
  MaxEntries = 3
  StreamOf <- LastIsTrigger
  KeyOf <- TwoContacts
  ChatOf <- TwoChats
  RouteOf <- EachRoute
  LlmEnabled = TRUE
  Count = 2
  ClaimCount = 2
  MaxRetries = 2
  FaultKinds <- NoKinds
  MaxFaults = 0
  MaxCrashes = 0
INVARIANTS
  AckedIsHandled
PROPERTIES
  DroppedWhileHandled
  EventuallySettled
