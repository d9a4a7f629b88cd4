SPECIFICATION FairSpec
CONSTANTS
  c1 = c1
  c2 = c2
  Commands = {c1, c2}
  Timed <- OnlyFirst
  MaxConcurrent = 1
INVARIANTS
  NoOrphan
PROPERTIES
  ImplementsFates
  FirstReasonWins
  StoppedCallsReturn
  ShutdownTerminates
CHECK_DEADLOCK FALSE
