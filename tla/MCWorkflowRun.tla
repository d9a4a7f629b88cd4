---------------------------- MODULE MCWorkflowRun ----------------------------
(* Instances of WorkflowRun for TLC. *)
EXTENDS WorkflowRun, TLC

CONSTANTS taskA, taskB, taskC,           \* two plain tasks, then a foreach
          runA, runB, runC1, runC2

TwoThenForeach == (taskA :> 1) @@ (taskB :> 1) @@ (taskC :> 2)

RunsOf == (runA :> taskA) @@ (runB :> taskB) @@ (runC1 :> taskC) @@ (runC2 :> taskC)
=============================================================================
