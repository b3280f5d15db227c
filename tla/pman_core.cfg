SPECIFICATION JobFairSpec
CONSTANTS
  p1 = p1
  p2 = p2
  p3 = p3
  a1 = a1
  a2 = a2
  a3 = a3
  None = None
  NULL = NULL
  Pid <- ThreePids
  Address <- ThreeAddresses
INVARIANTS
  TypeOK
  JobsAreChildren
  ActsOnOwnChild
  WaitNeverFails
  ListOnHeap
PROPERTIES
  PromptMeansReaped
  CheckReturns
CHECK_DEADLOCK FALSE
