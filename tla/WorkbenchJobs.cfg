SPECIFICATION FairSpec
CONSTANTS
  Jobs = {a1, f1}
  Workflows = {f1}
  Watches = {w1}
INVARIANTS
  NoMissedWake
  NotLost
  PauseInStep
PROPERTIES
  CancelSettles
CHECK_DEADLOCK FALSE
