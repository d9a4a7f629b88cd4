---------------------------- MODULE WorkflowRun ----------------------------
(***************************************************************************)
(* workbench-controller.ts: runWorkflow, with waitWhileWorkflowPaused,     *)
(* pauseWorkflow, resumeWorkflow, interruptWorkflow, closeWorkflowSessions *)
(* and the two kinds of retry.                                             *)
(*                                                                         *)
(* One workflow: its stages run one after the other, the tasks of a stage  *)
(* at once.  A task starts one run, a foreach task one per item; each run  *)
(* is a unit here.  A run opens a child session, and the session is closed *)
(* at the end of the workflow if the result of the task names it.  An item *)
(* whose templates are malformed fails its task at once and leaves the     *)
(* runs of the other items behind.                                         *)
(*                                                                         *)
(* Abstracted: outputs and their hand-over, the conditions of `when`       *)
(* (any task may be skipped), the switch to another model inside a run.    *)
(* Admission and settlement of the job are in WorkbenchJobs, the capacity  *)
(* for its sessions in ProviderCapacity.                                   *)
(***************************************************************************)
EXTENDS Naturals

CONSTANTS Tasks,
          Units,        \* the runs the tasks may start
          NumStages,
          StageOf,      \* [Tasks -> 1..NumStages]
          TaskOf,       \* [Units -> Tasks]
          Foreach,      \* the tasks with a foreach
          MaxAttempts   \* bound: how often the workflow is run in all

ASSUME WorkflowAssumption ==
  /\ NumStages \in Nat \ {0}
  /\ StageOf \in [Tasks -> 1..NumStages]
  /\ TaskOf \in [Units -> Tasks]
  /\ Foreach \subseteq Tasks
  /\ \A u, v \in Units : TaskOf[u] = TaskOf[v] /\ TaskOf[u] \notin Foreach => u = v
  /\ MaxAttempts \in Nat

Stages == 1..NumStages
UnitsOf(t) == {u \in Units : TaskOf[u] = t}
TasksOf(s) == {t \in Tasks : StageOf[t] = s}

VARIABLES
  phase,        \* where runWorkflow stands
  workflow,     \* status
  cur,          \* currentStage
  stage,        \* stage.status
  task,         \* task.status
  reused,       \* task.reused
  unit,         \* the runs: [run, result, session, named]
  paused,       \* control.paused
  abortedBy,    \* who aborted control.abort, if anybody
  attempt

vars == <<phase, workflow, cur, stage, task, reused, unit, paused, abortedBy, attempt>>

Over == {"completed", "skipped"}
Settled == Over \cup {"failed", "cancelled"}

\* session: the child process in the provider.  named: the result of the task
\* has the id of the session, so that closeWorkflowSessions finds it.
NoRun == [run |-> "idle", result |-> "none", session |-> "none", named |-> FALSE]

Init ==
  /\ phase = "gate"
  /\ workflow = "running"
  /\ cur = 1
  /\ stage = [s \in Stages |-> "queued"]
  /\ task = [t \in Tasks |-> "queued"]
  /\ reused = [t \in Tasks |-> FALSE]
  /\ unit = [u \in Units |-> NoRun]
  /\ paused = FALSE
  /\ abortedBy = "nobody"
  /\ attempt = 1

Active == phase \in {"gate", "parked", "stage"}   \* listed in activeWorkflows

aborted == abortedBy # "nobody"   \* control.abort.signal.aborted

-----------------------------------------------------------------------------
(* The head of the loop over the stages.                                   *)

\* waitWhileWorkflowPaused adds a waiter.
Parks ==
  /\ phase = "gate" /\ paused /\ ~aborted
  /\ phase' = "parked"
  /\ UNCHANGED <<workflow, cur, stage, task, reused, unit, paused, abortedBy, attempt>>

\* Only the stage about to start is marked, the later ones stay queued.
StopsAtGate ==
  /\ phase = "gate" /\ aborted
  /\ workflow' = "cancelled"
  /\ stage' = [stage EXCEPT ![cur] = "cancelled"]
  /\ phase' = "closing"
  /\ UNCHANGED <<cur, task, reused, unit, paused, abortedBy, attempt>>

Started == {t \in TasksOf(cur) : ~reused[t]}

\* The record of a run when service.start has emitted "run-started".
Begun(noted) == [run |-> "running", result |-> "none", session |-> "open", named |-> noted]

\* The task has an item whose templates are malformed.  Its Promise.all rejects
\* without the other runs, and task.iterations is never set.
Torn(t) == \E u \in UnitsOf(t) : unit[u].run = "broken"

\* Every task of the stage is started at once, unless its condition is false,
\* its list of items is empty, or one of its expressions cannot be evaluated.
\* The items of a foreach are resolved one by one: a broken one fails the task
\* while the others are started by the same map.  The task has failed before
\* they get a permit, except for one that got it without waiting (`early`).
StageStarts ==
  /\ phase = "gate" /\ ~paused /\ ~aborted
  /\ phase' = "stage"
  /\ stage' = [stage EXCEPT ![cur] = "running"]
  /\ \E verdict \in [Started -> {"run", "skipped", "failed"}], broken, early \in SUBSET Units :
       LET running == {t \in Started : verdict[t] = "run"}
           torn == {TaskOf[u] : u \in broken}
           launched == {u \in Units : TaskOf[u] \in running \cup torn}
       IN /\ \A t \in torn : t \in Started \cap Foreach /\ verdict[t] = "failed"
          /\ \A u \in early : TaskOf[u] \in torn /\ u \notin broken
          /\ \A u, v \in early : TaskOf[u] = TaskOf[v] => u = v
          /\ task' = [t \in Tasks |->
               IF t \in running THEN (IF t \in Foreach THEN "running" ELSE task[t])
               ELSE IF t \in Started THEN verdict[t] ELSE task[t]]
          /\ unit' = [u \in Units |->
               IF u \in early THEN Begun(TRUE)
               ELSE IF u \in launched
                    THEN [unit[u] EXCEPT !.run = IF u \in broken THEN "broken" ELSE "waiting"]
               ELSE unit[u]]
  /\ UNCHANGED <<workflow, cur, reused, paused, abortedBy, attempt>>

-----------------------------------------------------------------------------
(* The runs of a stage.                                                    *)

\* The result of a run; it settles a task that is no foreach.
Settle(u, record) ==
  /\ unit' = [unit EXCEPT ![u] = record]
  /\ task' = IF TaskOf[u] \in Foreach THEN task ELSE [task EXCEPT ![TaskOf[u]] = record.result]
  /\ UNCHANGED <<phase, workflow, cur, stage, reused, paused, abortedBy, attempt>>

\* "run-started" looks for a task of a workflow still listed, that waits for
\* this run and has no session yet.
Noted(u) ==
  /\ phase = "stage"
  /\ task[TaskOf[u]] = IF TaskOf[u] \in Foreach THEN "running" ELSE "queued"
  /\ \A v \in UnitsOf(TaskOf[u]) : ~unit[v].named

\* An abort that comes after the permit was granted does not prevent it.
RunStarts(u) ==
  /\ unit[u].run = "waiting"
  /\ unit' = [unit EXCEPT ![u] = Begun(Noted(u))]
  /\ task' = IF Noted(u) THEN [task EXCEPT ![TaskOf[u]] = "running"] ELSE task
  /\ UNCHANGED <<phase, workflow, cur, stage, reused, paused, abortedBy, attempt>>

\* No model or no permit, or the abort came while the run was queued.
RunRefused(u) ==
  /\ unit[u].run = "waiting"
  /\ Settle(u, [unit[u] EXCEPT !.run = "done", !.result = IF aborted THEN "cancelled" ELSE "failed"])

\* service.start returned a result; its caller has not gone on yet.
RunReturns(u, result) ==
  /\ unit[u].run = "running" /\ unit[u].session = "open" /\ ~aborted
  /\ unit' = [unit EXCEPT ![u].run = "returned", ![u].result = result]
  /\ UNCHANGED <<phase, workflow, cur, stage, task, reused, paused, abortedBy, attempt>>

\* Nobody takes the result of a run left behind.
ResultTaken(u) ==
  /\ unit[u].run = "returned"
  /\ Settle(u, [unit[u] EXCEPT !.run = "done", !.named = @ \/ ~Torn(TaskOf[u]),
                  !.result = IF aborted THEN "cancelled" ELSE @])

\* service.start threw.  The session is gone after a crash or a timeout, and
\* goes on living after an abort, an interrupted run or an output too large.
\* The result that replaces the fields of the task has no session id.  A run
\* left behind throws when closeWorkflowSessions takes its session away.
RunThrows(u, session) ==
  /\ unit[u].run = "running"
  /\ session = "open" => unit[u].session = "open"
  /\ Settle(u, [run |-> "done", session |-> session,
                result |-> IF aborted THEN "cancelled" ELSE "failed",
                named |-> TaskOf[u] \in Foreach /\ unit[u].named])

\* All items of a foreach are done, none was malformed; its aggregate may be
\* too large.
ForeachJoins(t) ==
  /\ t \in Foreach /\ phase = "stage" /\ StageOf[t] = cur
  /\ task[t] = "running"
  /\ \A u \in UnitsOf(t) : unit[u].run = "done"
  /\ \E st \in IF aborted THEN {"cancelled"}
               ELSE IF \A u \in UnitsOf(t) : unit[u].result = "completed"
                    THEN {"completed", "failed"} ELSE {"failed"} :
       task' = [task EXCEPT ![t] = st]
  /\ UNCHANGED <<phase, workflow, cur, stage, reused, unit, paused, abortedBy, attempt>>

-----------------------------------------------------------------------------
(* The end of a stage.                                                     *)

\* Faulty variant: the stage goes on when its first task has settled.
JoinedByFirst == \E t \in TasksOf(cur) : task[t] \in Settled

\* A task that the retry reuses is not waited for, whatever its status was.
Joined == \A t \in TasksOf(cur) : reused[t] \/ task[t] \in Settled

StageCancelled ==
  /\ phase = "stage" /\ Joined /\ aborted
  /\ stage' = [s \in Stages |-> IF s >= cur THEN "cancelled" ELSE stage[s]]
  /\ workflow' = "cancelled"
  /\ phase' = "closing"
  /\ UNCHANGED <<cur, task, reused, unit, paused, abortedBy, attempt>>

\* Faulty variant: tasks that were reused are not looked at.
StageOverNewTasks == \A t \in TasksOf(cur) : reused[t] \/ task[t] \in Over

StageOver == \A t \in TasksOf(cur) : task[t] \in Over

StageFails ==
  /\ phase = "stage" /\ Joined /\ ~aborted /\ ~StageOver
  /\ stage' = [stage EXCEPT ![cur] = "failed"]
  /\ workflow' = "failed"
  /\ phase' = "closing"
  /\ UNCHANGED <<cur, task, reused, unit, paused, abortedBy, attempt>>

StageDone == Joined /\ StageOver /\ ~aborted

LastStage == cur = NumStages

StageCompletes ==
  /\ phase = "stage" /\ StageDone
  /\ stage' = [stage EXCEPT ![cur] = "completed"]
  /\ IF LastStage
     THEN workflow' = "completed" /\ phase' = "closing" /\ UNCHANGED cur
     ELSE cur' = cur + 1 /\ phase' = "gate" /\ UNCHANGED workflow
  /\ UNCHANGED <<task, reused, unit, paused, abortedBy, attempt>>

\* Faulty variant: only the sessions of completed runs are closed.
ToCloseCompleted == {u \in Units : unit[u].named /\ unit[u].result = "completed" /\ unit[u].session = "open"}

ToClose == {u \in Units : unit[u].named /\ unit[u].session = "open"}

SessionCloses(u) ==
  /\ phase = "closing" /\ u \in ToClose
  /\ unit' = [unit EXCEPT ![u].session = "gone"]
  /\ UNCHANGED <<phase, workflow, cur, stage, task, reused, paused, abortedBy, attempt>>

Ends ==
  /\ phase = "closing" /\ ToClose = {}
  /\ phase' = "ended"
  /\ UNCHANGED <<workflow, cur, stage, task, reused, unit, paused, abortedBy, attempt>>

-----------------------------------------------------------------------------
(* What others do to the workflow while it is listed in activeWorkflows.   *)

PauseWorkflow ==
  /\ Active /\ ~paused /\ ~aborted
  /\ paused' = TRUE
  /\ UNCHANGED <<phase, workflow, cur, stage, task, reused, unit, abortedBy, attempt>>

\* Faulty variant: the waiters are not called.
WokenStillParked == phase

Woken == IF phase = "parked" THEN "gate" ELSE phase

ResumeWorkflow ==
  /\ Active /\ paused /\ ~aborted
  /\ paused' = FALSE
  /\ phase' = Woken
  /\ UNCHANGED <<workflow, cur, stage, task, reused, unit, abortedBy, attempt>>

\* interruptWorkflow, also as part of cancelJob and dispose.
InterruptWorkflow ==
  /\ Active
  /\ abortedBy' = "interrupt"
  /\ phase' = Woken
  /\ UNCHANGED <<workflow, cur, stage, task, reused, unit, paused, attempt>>

\* The signal of the request: forwardAbort raises the abort and wakes nobody.
CallerAborts ==
  /\ Active /\ ~aborted
  /\ abortedBy' = "caller"
  /\ UNCHANGED <<phase, workflow, cur, stage, task, reused, unit, paused, attempt>>

-----------------------------------------------------------------------------
(* Another attempt, from the result of the last one.                       *)

\* findIndex of the first stage that is not completed, or the first stage.
FirstIncomplete(s) ==
  \/ stage[s] # "completed" /\ \A r \in 1..s-1 : stage[r] = "completed"
  \/ s = 1 /\ \A r \in Stages : stage[r] = "completed"

StagesFrom(from) == [s \in Stages |-> IF s < from THEN "completed" ELSE "queued"]

\* What runWorkflow reuses: the stages before `from`, and of that stage the
\* tasks in `kept`.  It refuses when an earlier stage is incomplete.  The
\* attempt has an id of its own, so that a run left behind by an earlier one
\* cannot reach its state; such runs are not followed any longer.
Begin(from, kept) ==
  /\ phase = "ended" /\ attempt < MaxAttempts
  /\ \A s \in 1..from-1 : stage[s] = "completed" /\ \A t \in TasksOf(s) : task[t] \in Over
  /\ attempt' = attempt + 1
  /\ phase' = "gate" /\ workflow' = "running" /\ cur' = from
  /\ stage' = StagesFrom(from)
  /\ reused' = [t \in Tasks |-> StageOf[t] < from \/ t \in kept]
  /\ task' = [t \in Tasks |-> IF reused'[t] THEN task[t] ELSE "queued"]
  /\ unit' = [u \in Units |-> NoRun]
  /\ paused' = FALSE /\ abortedBy' = "nobody"

RetryWorkflow == \E s \in Stages : FirstIncomplete(s) /\ Begin(s, {})

RetryTask(t) ==
  /\ task[t] \notin Over
  /\ Begin(StageOf[t], TasksOf(StageOf[t]) \ {t})

-----------------------------------------------------------------------------
UnitStep(u) ==
  \/ RunStarts(u) \/ RunRefused(u)
  \/ \E result \in {"completed", "failed"} : RunReturns(u, result)
  \/ ResultTaken(u)
  \/ \E session \in {"open", "gone"} : RunThrows(u, session)
  \/ SessionCloses(u)

ControlStep ==
  \/ Parks \/ StopsAtGate \/ StageStarts
  \/ \E t \in Tasks : ForeachJoins(t)
  \/ StageCancelled \/ StageFails \/ StageCompletes
  \/ Ends

Next ==
  \/ \E u \in Units : UnitStep(u)
  \/ ControlStep
  \/ PauseWorkflow \/ ResumeWorkflow \/ InterruptWorkflow \/ CallerAborts
  \/ RetryWorkflow \/ \E t \in Tasks : RetryTask(t)

Spec == Init /\ [][Next]_vars

\* A run has a hard wall time (workHardMs), after which its child process is
\* killed; a stopped child is gone after SIGKILL; the rest are microtasks.
FairSpec == Spec /\ WF_vars(ControlStep) /\ \A u \in Units : WF_vars(UnitStep(u))

-----------------------------------------------------------------------------
UnitRecord ==
  [run : {"idle", "broken", "waiting", "running", "returned", "done"},
   result : {"none", "completed", "failed", "cancelled"},
   session : {"none", "open", "gone"}, named : BOOLEAN]

TypeOK ==
  /\ phase \in {"gate", "parked", "stage", "closing", "ended"}
  /\ workflow \in {"running", "completed", "failed", "cancelled"}
  /\ cur \in Stages
  /\ stage \in [Stages -> {"queued", "running", "completed", "failed", "cancelled"}]
  /\ task \in [Tasks -> Settled \cup {"queued", "running"}]
  /\ reused \in [Tasks -> BOOLEAN]
  /\ unit \in [Units -> UnitRecord]
  /\ paused \in BOOLEAN
  /\ abortedBy \in {"nobody", "interrupt", "caller"}
  /\ attempt \in Nat

InFlight(u) == unit[u].run \in {"waiting", "running", "returned"}

\* While a run is in flight, everything before its stage is over and nothing of
\* a later stage has begun, also when a sibling fails or the workflow is
\* aborted.  A run outlives its stage only if its task had a malformed item, and
\* then the stage is not completed.
StageGate ==
  \A u \in Units : InFlight(u) =>
    LET s == StageOf[TaskOf[u]]
    IN /\ cur = s
       /\ \/ phase = "stage" /\ stage[s] = "running"
          \/ Torn(TaskOf[u]) /\ stage[s] # "completed"
       /\ \A t \in Tasks : StageOf[t] < s => task[t] \in Over
       /\ \A r \in 1..s-1 : stage[r] = "completed"

\* A workflow reported as completed left nothing out, whatever was reused from
\* an earlier attempt.
CompletedMeansOver ==
  workflow = "completed" =>
    (\A s \in Stages : stage[s] = "completed") /\ \A t \in Tasks : task[t] \in Over

\* "does not complete a Stage or Workflow after a late Abort"
NoLateCompletion ==
  [][aborted => /\ workflow # "completed" => workflow' # "completed"
                /\ \A s \in Stages : attempt' = attempt /\ stage[s] # "completed" => stage'[s] # "completed"]_vars

\* A stage that completed is never undone, neither by a later failure or abort
\* nor by a retry, until the whole workflow has completed and is run again.
CompletedStays ==
  [][\A s \in Stages :
       stage[s] = "completed" /\ workflow # "completed" => stage'[s] = "completed"]_vars

\* Work that a retry reuses is not done again: no run is started for it.
ReusedNotRun == \A u \in Units : reused[TaskOf[u]] => unit[u].run = "idle"

\* When the workflow ends, the session of every run that completed is closed,
\* of a task with many runs as well, and of others that a result names.  Left
\* out are the runs of a task with a malformed item, whose results nobody keeps.
ReturnedSessionsClosed ==
  phase = "ended" =>
    \A u \in Units :
      unit[u].named \/ (unit[u].result = "completed" /\ ~Torn(TaskOf[u])) => unit[u].session # "open"

\* A workflow that is neither paused nor ended gets on: it ends or is paused.
Finishes == (phase # "ended" /\ ~paused) ~> (phase = "ended" \/ paused)

\* A workflow that was interrupted ends, parked at a pause or not.
InterruptedEnds == abortedBy = "interrupt" ~> phase = "ended"
=============================================================================
