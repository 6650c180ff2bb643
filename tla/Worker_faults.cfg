SPECIFICATION Spec
CONSTANTS
  w1 = w1
  w2 = w2
  alice = alice
  bob = bob
  chatA = chatA
  chatB = chatB
  Workers <- TwoWorkers
  MaxEntries = 2
  StreamOf <- AllInbound
  KeyOf <- OneContact
  ChatOf <- OneChat
  RouteOf <- AllRoutable
  LlmEnabled = TRUE
  Count = 1
  ClaimCount = 1
  MaxRetries = 2
  FaultKinds <- BothKinds
  MaxFaults = 2
  MaxCrashes = 0
SYMMETRY Symmetry
INVARIANTS
  MutualExclusion
  OneActiveConversation
  DeadLetterNeedsFailures
  RepliesBounded
PROPERTIES
  ImplementsQueue
