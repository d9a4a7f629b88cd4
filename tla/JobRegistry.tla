---------------------------- MODULE JobRegistry ----------------------------
(***************************************************************************)
(* packages/pi-tsien-subagent-workbench/src/job-registry.ts                *)
(*                                                                         *)
(* The registry of background and foreground work: a status, an abort      *)
(* signal and a pending completion message per job, and the callers of     *)
(* wait, which listen to every publication.  Each operation is stated as   *)
(* what it does to the registry; WorkbenchJobs composes them with the      *)
(* controller that calls them.                                             *)
(***************************************************************************)
EXTENDS Naturals, FiniteSets

CONSTANTS Jobs,      \* work ids
          Watches    \* calls of wait

VARIABLES status,            \* "absent" before create
          background,        \* submitted in the background
          aborted,           \* job.abort.signal
          completionQueued,  \* a completion message is owed
          watch              \* the calls of wait

rvars == <<status, background, aborted, completionQueued, watch>>

Terminal == {"completed", "failed", "cancelled", "interrupted"}
Unsettled == {"queued", "running", "paused"}
Statuses == {"absent"} \cup Unsettled \cup Terminal

Live(j) == status[j] \in Unsettled

WatchRecord ==
  [jobs : SUBSET Jobs, waitFor : {"any", "all"}, state : {"idle", "waiting", "done"}]

RegistryInit ==
  /\ status = [j \in Jobs |-> "absent"]
  /\ background = [j \in Jobs |-> FALSE]
  /\ aborted = [j \in Jobs |-> FALSE]
  /\ completionQueued = [j \in Jobs |-> FALSE]
  /\ watch = [w \in Watches |-> [jobs |-> {}, waitFor |-> "any", state |-> "idle"]]

-----------------------------------------------------------------------------
(* Publication: every caller of wait whose condition now holds returns.    *)

Ready(js, waitFor, st) ==
  IF waitFor = "all" THEN \A j \in js : st[j] \in Terminal
                     ELSE \E j \in js : st[j] \in Terminal

Publish ==
  watch' = [w \in Watches |->
    IF watch[w].state = "waiting" /\ Ready(watch[w].jobs, watch[w].waitFor, status')
    THEN [watch[w] EXCEPT !.state = "done"] ELSE watch[w]]

Wait(w, js, waitFor) ==
  /\ watch[w].state = "idle"
  /\ watch' = [watch EXCEPT ![w] = [jobs |-> js, waitFor |-> waitFor,
                 state |-> IF Ready(js, waitFor, status) THEN "done" ELSE "waiting"]]
  /\ UNCHANGED <<status, background, aborted, completionQueued>>

WaitTimesOut(w) ==
  /\ watch[w].state = "waiting"
  /\ watch' = [watch EXCEPT ![w].state = "done"]
  /\ UNCHANGED <<status, background, aborted, completionQueued>>

-----------------------------------------------------------------------------
Create(j, inBackground) ==
  /\ status[j] = "absent"
  /\ status' = [status EXCEPT ![j] = "queued"]
  /\ background' = [background EXCEPT ![j] = inBackground]
  /\ UNCHANGED <<aborted, completionQueued>>
  /\ Publish

Start(j) ==
  /\ status' = IF Live(j) /\ ~aborted[j] THEN [status EXCEPT ![j] = "running"] ELSE status
  /\ UNCHANGED <<background, aborted, completionQueued>>
  /\ Publish

\* pause and resume are called for a running or paused job only.
Pause(j) ==
  /\ status' = IF status[j] = "running" /\ ~aborted[j]
               THEN [status EXCEPT ![j] = "paused"] ELSE status
  /\ UNCHANGED <<background, aborted, completionQueued>>
  /\ Publish

Resume(j) ==
  /\ status' = IF status[j] = "paused" /\ ~aborted[j]
               THEN [status EXCEPT ![j] = "running"] ELSE status
  /\ UNCHANGED <<background, aborted, completionQueued>>
  /\ Publish

\* What settle makes of the status and of the owed messages; the controller
\* passes the job's background flag as queueCompletion.
StatusAfterSettle(j, st) ==
  IF Live(j) THEN [status EXCEPT ![j] = st] ELSE status

OwedAfterSettle(j) ==
  IF Live(j) THEN [completionQueued EXCEPT ![j] = background[j]] ELSE completionQueued

\* cancel only raises the signal; the status follows when the work stops.
Cancel(j) ==
  /\ Live(j)
  /\ aborted' = [aborted EXCEPT ![j] = TRUE]
  /\ UNCHANGED <<status, background, completionQueued>>
  /\ Publish

\* Faulty variant: the loop publishes nothing.
InterruptAllSilently ==
  /\ aborted' = [j \in Jobs |-> aborted[j] \/ Live(j)]
  /\ status' = [j \in Jobs |-> IF Live(j) THEN "interrupted" ELSE status[j]]
  /\ completionQueued' = [j \in Jobs |-> completionQueued[j] \/ Live(j)]
  /\ UNCHANGED <<background, watch>>

InterruptAll ==
  /\ aborted' = [j \in Jobs |-> aborted[j] \/ Live(j)]
  /\ status' = [j \in Jobs |-> IF Live(j) THEN "interrupted" ELSE status[j]]
  /\ completionQueued' = [j \in Jobs |-> completionQueued[j] \/ Live(j)]
  /\ UNCHANGED background
  /\ Publish

\* takePendingCompletions, over given statuses and owed messages.
PendingCompletions(st, owed) == {j \in Jobs : st[j] \in Terminal /\ owed[j]}

-----------------------------------------------------------------------------
RegistryTypeOK ==
  /\ status \in [Jobs -> Statuses]
  /\ background \in [Jobs -> BOOLEAN]
  /\ aborted \in [Jobs -> BOOLEAN]
  /\ completionQueued \in [Jobs -> BOOLEAN]
  /\ watch \in [Watches -> WatchRecord]

\* A caller of wait never sleeps on a condition that already holds: whatever
\* settles a job, cancellation and shutdown included, wakes it.
NoMissedWake ==
  \A w \in Watches :
    watch[w].state = "waiting" => ~Ready(watch[w].jobs, watch[w].waitFor, status)
=============================================================================
