SPECIFICATION Spec
CONSTANTS
  w1 = w1
  w2 = w2
  alice = alice
  bob = bob
  chatA = chatA
  chatB = chatB
  Workers <- OneWorker
  MaxEntries = 1
  StreamOf <- AllInbound
  KeyOf <- OneContact
  ChatOf <- OneChat
  RouteOf <- AllRoutable
  LlmEnabled = TRUE
  Count = 1
  ClaimCount = 1
  MaxRetries = 2
  FaultKinds <- NoKinds
  MaxFaults = 0
  MaxCrashes = 1
INVARIANT AckedIsHandled
