SPECIFICATION Spec
CONSTANTS
  o1 = o1
  o2 = o2
  a1 = a1
  a2 = a2
  a3 = a3
  Attempts <- ThreeAttempts
  Operators <- TwoOperators
  MaxConvs = 3
  MaxRequests = 3
  MaxFaults = 1
SYMMETRY Symmetry
CHECK_DEADLOCK FALSE
INVARIANTS
  BotBacksOff
  HistoryAgrees
  AuditTellsState
PROPERTY NeverReactivated
