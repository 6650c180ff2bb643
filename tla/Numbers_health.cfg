SPECIFICATION FairSpec
CONSTANTS
  q1 = q1
  q2 = q2
  Requests <- TwoRequests
  MaxRows = 2
  MaxCalls = 4
  MaxMoves = 2
  MaxFaults = 1
CHECK_DEADLOCK FALSE
INVARIANTS
  WelcomedOnce
  WebhookAgrees
  ShownStays
PROPERTIES
  ShownDown
