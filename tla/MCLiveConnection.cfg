SPECIFICATION CSpec
CONSTANTS
  MaxBridged = 2
  MaxRevision = 5
  MaxQueue = 2
  MaxPanels = 1
  MaxDrops = 1
INVARIANTS NoGaps MirrorTrue GraceMatchesConnection
PROPERTY Reconnects
CHECK_DEADLOCK FALSE
