--------------------------- MODULE WorkbenchJobs ---------------------------
(***************************************************************************)
(* workbench-controller.ts (submitAgent, submitWorkflow, settleJob,        *)
(* cancelJob, pauseWorkflow, resumeWorkflow, interruptWorkflow, dispose)   *)
(* over the job registry, with the delivery of completion messages in      *)
(* index.ts.                                                               *)
(*                                                                         *)
(* Every job has an asynchronous body that the caller of submit does not   *)
(* wait for in the background case: it runs, closes its child sessions and *)
(* settles the job, while cancel, pause, resume, the abort of the tool     *)
(* call and the shutdown of the session can come between any two steps.    *)
(* What a workflow does inside its body is in WorkflowRun.                 *)
(***************************************************************************)
EXTENDS JobRegistry

CONSTANT Workflows   \* the jobs of kind "workflow"; the others are agents

ASSUME JobsAssumption == Workflows \subseteq Jobs

VARIABLES
  disposed,   \* controller disposed and dropped by session_shutdown
  body,       \* where the asynchronous body of each job stands
  outcome,    \* the status the body will settle with once sessions are closed
  control,    \* activeWorkflows: [listed, paused, aborted, parked] of a workflow
  signalled,  \* the caller's own signal (the tool call of a foreground job)
  told        \* completion messages sent per job

vars == <<rvars, disposed, body, outcome, control, signalled, told>>
controllerVars == <<disposed, body, outcome, control, signalled, told>>

Agents == Jobs \ Workflows
Bodies == {"none", "submitted", "preparing", "executing", "closing", "done"}

NoControl == [listed |-> FALSE, paused |-> FALSE, aborted |-> FALSE, parked |-> FALSE]

Init ==
  /\ RegistryInit
  /\ disposed = FALSE
  /\ body = [j \in Jobs |-> "none"]
  /\ outcome = [j \in Jobs |-> "failed"]
  /\ control = [j \in Workflows |-> NoControl]
  /\ signalled = [j \in Jobs |-> FALSE]
  /\ told = [j \in Jobs |-> 0]

-----------------------------------------------------------------------------
(* settleJob and deliverPendingCompletions.                                *)

\* terminalStatusForAbort: only the job's own signal counts, not the caller's.
AbortStatus(j) ==
  IF ~aborted[j] THEN "failed" ELSE IF disposed THEN "interrupted" ELSE "cancelled"

\* Faulty variant: a message whose sendMessage threw is marked as delivered.
DeliverAndForget(st, owed, sent) ==
  /\ completionQueued' = [j \in Jobs |-> owed[j] /\ j \notin PendingCompletions(st, owed)]
  /\ told' = [j \in Jobs |-> told[j] + (IF j \in sent THEN 1 ELSE 0)]

\* sent: the pending messages for which sendMessage did not throw.
Deliver(st, owed, sent) ==
  /\ completionQueued' = [j \in Jobs |-> owed[j] /\ j \notin sent]
  /\ told' = [j \in Jobs |-> told[j] + (IF j \in sent THEN 1 ELSE 0)]

SettleJob(j, st) ==
  LET after == StatusAfterSettle(j, st)
      owed  == OwedAfterSettle(j)
      heard == background[j] /\ ~disposed   \* onJobSettled with a live context
  IN /\ status' = after
     /\ \E sent \in SUBSET (IF heard THEN PendingCompletions(after, owed) ELSE {}) :
          Deliver(after, owed, sent)
     /\ UNCHANGED <<background, aborted>>
     /\ Publish
     /\ body' = [body EXCEPT ![j] = "done"]
     /\ UNCHANGED <<disposed, outcome, control, signalled>>

\* The subagent_results tool retries what is still owed.
Redeliver ==
  /\ ~disposed
  /\ \E sent \in SUBSET PendingCompletions(status, completionQueued) :
       Deliver(status, completionQueued, sent)
  /\ UNCHANGED <<status, background, aborted, watch, disposed, body, outcome, control, signalled>>

-----------------------------------------------------------------------------
(* Agents.                                                                 *)

SubmitAgent(j) ==
  /\ j \in Agents /\ ~disposed
  /\ \E inBackground \in BOOLEAN : Create(j, inBackground)
  /\ body' = [body EXCEPT ![j] = "executing"]
  /\ UNCHANGED <<disposed, outcome, control, signalled, told>>

\* onServiceEvent, "run-started"; the router may start several runs in turn.
RunStarted(j) ==
  /\ j \in Agents /\ body[j] = "executing" /\ ~disposed
  /\ Start(j)
  /\ UNCHANGED controllerVars

\* executeAgent returned and the session is retained: settle at once.
AgentRetained(j, st) ==
  /\ j \in Agents /\ body[j] = "executing"
  /\ SettleJob(j, st)

\* executeAgent returned: close the one-shot session first.
AgentReturns(j, st) ==
  /\ j \in Agents /\ body[j] = "executing"
  /\ body' = [body EXCEPT ![j] = "closing"]
  /\ outcome' = [outcome EXCEPT ![j] = st]
  /\ UNCHANGED <<rvars, disposed, control, signalled, told>>

\* executeAgent or closeSession threw.
AgentThrows(j) ==
  /\ j \in Agents /\ body[j] \in {"executing", "closing"}
  /\ SettleJob(j, AbortStatus(j))

SessionsClosed(j) ==
  /\ body[j] = "closing"
  /\ SettleJob(j, outcome[j])

-----------------------------------------------------------------------------
(* Workflows.                                                              *)

SubmitWorkflow(j) ==
  /\ j \in Workflows /\ ~disposed
  /\ \E inBackground \in BOOLEAN : Create(j, inBackground)
  /\ body' = [body EXCEPT ![j] = "submitted"]
  /\ UNCHANGED <<disposed, outcome, control, signalled, told>>

\* The body's first microtask: jobs.start, then runWorkflow awaits capacity.
WorkflowStarts(j) ==
  /\ j \in Workflows /\ body[j] = "submitted"
  /\ Start(j)
  /\ body' = [body EXCEPT ![j] = "preparing"]
  /\ UNCHANGED <<disposed, outcome, control, signalled, told>>

\* No capacity, disposed, or an invalid retry.
WorkflowRefused(j) ==
  /\ j \in Workflows /\ body[j] = "preparing"
  /\ SettleJob(j, AbortStatus(j))

WorkflowRuns(j) ==
  /\ j \in Workflows /\ body[j] = "preparing"
  /\ body' = [body EXCEPT ![j] = "executing"]
  /\ control' = [control EXCEPT ![j] =
       [NoControl EXCEPT !.listed = TRUE, !.aborted = aborted[j] \/ signalled[j]]]
  /\ UNCHANGED <<rvars, disposed, outcome, signalled, told>>

\* waitWhileWorkflowPaused at a stage boundary.
WorkflowParks(j) ==
  /\ j \in Workflows /\ body[j] = "executing"
  /\ control[j].paused /\ ~control[j].aborted
  /\ control' = [control EXCEPT ![j].parked = TRUE]
  /\ UNCHANGED <<rvars, disposed, body, outcome, signalled, told>>

\* The last stage ended, or a stage failed, or the abort was noticed.
WorkflowEnds(j, st) ==
  /\ j \in Workflows /\ body[j] = "executing" /\ ~control[j].parked
  /\ control[j].aborted <=> st = "cancelled"
  /\ body' = [body EXCEPT ![j] = "closing"]
  /\ outcome' = [outcome EXCEPT ![j] = st]
  /\ control' = [control EXCEPT ![j].listed = FALSE]
  /\ UNCHANGED <<rvars, disposed, signalled, told>>

PauseWorkflow(j) ==
  /\ j \in Workflows
  /\ control[j].listed /\ ~control[j].paused /\ ~control[j].aborted
  /\ control' = [control EXCEPT ![j].paused = TRUE]
  /\ Pause(j)
  /\ UNCHANGED <<disposed, body, outcome, signalled, told>>

\* Faulty variant: the workflow goes on but its job stays paused.
ResumeControlOnly(j) ==
  /\ j \in Workflows
  /\ control[j].listed /\ control[j].paused /\ ~control[j].aborted
  /\ control' = [control EXCEPT ![j].paused = FALSE, ![j].parked = FALSE]
  /\ UNCHANGED <<rvars, disposed, body, outcome, signalled, told>>

ResumeWorkflow(j) ==
  /\ j \in Workflows
  /\ control[j].listed /\ control[j].paused /\ ~control[j].aborted
  /\ control' = [control EXCEPT ![j].paused = FALSE, ![j].parked = FALSE]
  /\ Resume(j)
  /\ UNCHANGED <<disposed, body, outcome, signalled, told>>

\* Faulty variant: the abort does not wake a parked workflow.
InterruptedStillParked(c) == [c EXCEPT !.aborted = TRUE]

\* The control of a workflow after interruptWorkflow: aborted and woken.
Interrupted(c) == [c EXCEPT !.aborted = TRUE, !.parked = FALSE]

-----------------------------------------------------------------------------
(* Both kinds.                                                             *)

CancelJob(j) ==
  /\ ~disposed
  /\ Cancel(j)
  /\ control' = [k \in Workflows |->
       IF k = j /\ control[k].listed THEN Interrupted(control[k]) ELSE control[k]]
  /\ UNCHANGED <<disposed, body, outcome, signalled, told>>

\* The tool call of a foreground job is aborted.  The listener of the caller's
\* signal aborts the control, and wakes nobody.
CallerAborts(j) ==
  /\ Live(j) /\ ~background[j] /\ ~signalled[j]
  /\ signalled' = [signalled EXCEPT ![j] = TRUE]
  /\ control' = [k \in Workflows |->
       IF k = j /\ body[k] = "executing" THEN [control[k] EXCEPT !.aborted = TRUE] ELSE control[k]]
  /\ UNCHANGED <<rvars, disposed, body, outcome, told>>

Dispose ==
  /\ ~disposed
  /\ disposed' = TRUE
  /\ InterruptAll
  /\ control' = [k \in Workflows |->
       IF control[k].listed THEN [Interrupted(control[k]) EXCEPT !.listed = FALSE] ELSE control[k]]
  /\ UNCHANGED <<body, outcome, signalled, told>>

-----------------------------------------------------------------------------
\* A step of the body that brings the job nearer to its end.
Advance(j) ==
  \/ \E st \in {"completed", "failed"} : AgentRetained(j, st) \/ AgentReturns(j, st)
  \/ AgentThrows(j)
  \/ WorkflowStarts(j) \/ WorkflowRefused(j) \/ WorkflowRuns(j)
  \/ \E st \in {"completed", "failed", "cancelled"} : WorkflowEnds(j, st)
  \/ SessionsClosed(j)

Next ==
  \/ \E j \in Jobs :
       \/ SubmitAgent(j) \/ SubmitWorkflow(j)
       \/ RunStarted(j) \/ WorkflowParks(j) \/ Advance(j)
       \/ CancelJob(j) \/ CallerAborts(j)
       \/ PauseWorkflow(j) \/ ResumeWorkflow(j)
  \/ Redeliver
  \/ Dispose
  \/ \E w \in Watches :
       /\ \/ WaitTimesOut(w)
          \/ \E js \in SUBSET Jobs, waitFor \in {"any", "all"} : js # {} /\ Wait(w, js, waitFor)
       /\ UNCHANGED controllerVars

Spec == Init /\ [][Next]_vars

\* Runs end: every run has a hard wall time (workHardMs) and an aborted child
\* process is killed, so the body of a job that is not parked always goes on.
FairSpec == Spec /\ \A j \in Jobs : WF_vars(Advance(j))

-----------------------------------------------------------------------------
TypeOK ==
  /\ RegistryTypeOK
  /\ disposed \in BOOLEAN
  /\ body \in [Jobs -> Bodies]
  /\ outcome \in [Jobs -> Terminal]
  /\ control \in [Workflows -> [listed : BOOLEAN, paused : BOOLEAN, aborted : BOOLEAN, parked : BOOLEAN]]
  /\ signalled \in [Jobs -> BOOLEAN]
  /\ told \in [Jobs -> Nat]

\* A settled job keeps its status: a late result, a late error or a shutdown
\* that races the body never rewrites what was reported.
SettledOnce == [][\A j \in Jobs : status[j] \in Terminal => status'[j] = status[j]]_vars

\* The completion notice of a job appears at most once, and only for a
\* background job that has settled.
ToldOnce ==
  \A j \in Jobs :
    /\ told[j] <= 1
    /\ told[j] = 1 => background[j] /\ status[j] \in Terminal /\ ~completionQueued[j]

\* No notice is lost: a background job that settled was announced, or is
\* still owed, even when sendMessage threw.
NotLost ==
  \A j \in Jobs :
    status[j] \in Terminal /\ background[j] => told[j] = 1 \/ completionQueued[j]

\* The job list and the workflow agree on what is paused for as long as the
\* workflow can still be resumed.
PauseInStep ==
  \A j \in Workflows :
    control[j].listed /\ ~control[j].aborted => (control[j].paused <=> status[j] = "paused")

\* A job that was cancelled, parked at a pause or not, ends.
CancelSettles == \A j \in Jobs : aborted[j] ~> status[j] \in Terminal
=============================================================================
