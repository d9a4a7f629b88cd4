SPECIFICATION FairSpec
CONSTANTS
  taskA = taskA
  taskB = taskB
  m1 = m1
  m2 = m2
  m3 = m3
  None = None
  Tasks = {taskA, taskB}
  CodeTasks = {taskA}
  Models = {m1, m2, m3}
  Capacity <- OneEach
  Group <- Groups2
  Configs <- UsualAndEdited
  Plans <- ThreePlans
  CoolDown <- CoolDowns
  MaxSwitches = 1
INVARIANTS
  LeasesExact
  TriesEachOnce
PROPERTIES
  CoolDownNotShortened
  TaskEnds
CHECK_DEADLOCK FALSE
