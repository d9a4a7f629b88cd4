SPECIFICATION FairSpec
CONSTANTS
  taskA = taskA
  taskB = taskB
  taskC = taskC
  runA = runA
  runB = runB
  runC1 = runC1
  runC2 = runC2
  Tasks = {taskA, taskB, taskC}
  Units = {runA, runB, runC1, runC2}
  NumStages = 2
  StageOf <- TwoThenForeach
  TaskOf <- RunsOf
  Foreach = {taskC}
  MaxAttempts = 2
INVARIANTS
  StageGate
  CompletedMeansOver
  ReturnedSessionsClosed
PROPERTIES
  Finishes
  InterruptedEnds
CHECK_DEADLOCK FALSE
