SPECIFICATION Spec
CONSTANTS
  r1 = r1
  r2 = r2
  r3 = r3
  sched = sched
  sub = sub
  c1 = c1
  c2 = c2
  q1 = q1
  q2 = q2
  NoField = NoField
  Fields = {"playbook"}
  Runs <- ThreeRuns
  Processes <- TwoProcesses
  ProcessOf <- OwnProcess
  Convs <- TwoConvs
  FieldOf <- AllPlaybook
  Requests <- TwoRequests
SYMMETRY Symmetry
CHECK_DEADLOCK FALSE
INVARIANTS
  AnalysedOnce
  AppliedUnlessOverwritten
  VersionsDistinct
