SPECIFICATION FairSpec
CONSTANTS
  p1 = p1
  p2 = p2
  p3 = p3
  None = None
  Pid <- TwoPids
PROPERTY KillTerminates
CHECK_DEADLOCK FALSE
