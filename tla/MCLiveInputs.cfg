SPECIFICATION Spec
CONSTANTS
  Inputs = {i1, i2, i3}
  MaxSessions = 2
  MaxRuns = 2
  MaxCompactions = 2
  NONE = NONE
INVARIANTS OneAtATime OwnSession LostOnlyToOverlap
PROPERTY QueueGoesOn
CHECK_DEADLOCK FALSE
