------------------------ MODULE WorkbenchJobs_proofs ------------------------
(***************************************************************************)
(* Proofs about WorkbenchJobs: types, the wake-ups of wait, and that the   *)
(* completion notice of a background job is sent at most once and is never *)
(* lost, for any number of jobs and callers of wait.                       *)
(***************************************************************************)
EXTENDS WorkbenchJobs, TLAPS

\* A message is owed only for a settled job and, before shutdown, only for a
\* background one; this is what keeps a foreground job from being announced.
OwedRightly ==
  \A j \in Jobs : completionQueued[j] => status[j] \in Terminal /\ (disposed \/ background[j])

\* The inductive invariant.
IInv == TypeOK /\ NoMissedWake /\ ToldOnce /\ NotLost /\ OwedRightly

LEMMA InitIInv == Init => IInv
<1> SUFFICES ASSUME Init PROVE IInv
  OBVIOUS
<1>1. RegistryTypeOK
  BY DEF Init, RegistryInit, RegistryTypeOK, Statuses, WatchRecord
<1>2. control \in [Workflows -> [listed : BOOLEAN, paused : BOOLEAN, aborted : BOOLEAN, parked : BOOLEAN]]
  BY DEF Init, NoControl
<1>3. /\ disposed \in BOOLEAN /\ signalled \in [Jobs -> BOOLEAN] /\ told \in [Jobs -> Nat]
      /\ body \in [Jobs -> Bodies] /\ outcome \in [Jobs -> Terminal]
  BY DEF Init, Bodies, Terminal
<1>4. NoMissedWake
  BY DEF Init, RegistryInit, NoMissedWake
<1>5. \A j \in Jobs : status[j] \notin Terminal /\ ~completionQueued[j] /\ told[j] = 0
  BY DEF Init, RegistryInit, Terminal
<1>6. ToldOnce /\ NotLost /\ OwedRightly
  BY <1>5 DEF ToldOnce, NotLost, OwedRightly
<1> QED BY <1>1, <1>2, <1>3, <1>4, <1>6 DEF IInv, TypeOK

\* After Publish no caller sleeps on a condition that holds.
LEMMA PublishWakes ==
  ASSUME watch \in [Watches -> WatchRecord], Publish
  PROVE  watch' \in [Watches -> WatchRecord] /\ NoMissedWake'
<1>1. watch' \in [Watches -> WatchRecord]
  BY DEF Publish, WatchRecord
<1>2. ASSUME NEW w \in Watches, watch'[w].state = "waiting"
      PROVE  ~Ready(watch'[w].jobs, watch'[w].waitFor, status')
  BY <1>2 DEF Publish, WatchRecord
<1>3. NoMissedWake'
  BY <1>2 DEF NoMissedWake, Ready
<1> QED BY <1>1, <1>3

\* What the delivery of some pending messages preserves.
LEMMA DeliverKeeps ==
  ASSUME NEW st \in [Jobs -> Statuses], NEW owed \in [Jobs -> BOOLEAN],
         NEW sent \in SUBSET PendingCompletions(st, owed),
         told \in [Jobs -> Nat],
         \A j \in Jobs : owed[j] => background[j] /\ told[j] = 0,
         \A j \in Jobs : told[j] <= 1,
         \A j \in Jobs : told[j] = 1 => background[j] /\ st[j] \in Terminal,
         \A j \in Jobs : st[j] \in Terminal /\ background[j] => told[j] = 1 \/ owed[j],
         \A j \in Jobs : owed[j] => st[j] \in Terminal,
         status' = st, background' = background, disposed' = disposed,
         Deliver(st, owed, sent)
  PROVE  /\ completionQueued' \in [Jobs -> BOOLEAN]
         /\ told' \in [Jobs -> Nat]
         /\ ToldOnce' /\ NotLost' /\ OwedRightly'
<1>1. /\ completionQueued' \in [Jobs -> BOOLEAN]
      /\ told' \in [Jobs -> Nat]
  BY DEF Deliver
<1>2. ASSUME NEW j \in Jobs
      PROVE  /\ told'[j] = told[j] + (IF j \in sent THEN 1 ELSE 0)
             /\ completionQueued'[j] <=> owed[j] /\ j \notin sent
             /\ j \in sent => owed[j] /\ st[j] \in Terminal
  BY DEF Deliver, PendingCompletions
<1>3. ToldOnce'
  BY <1>2 DEF ToldOnce
<1>4. NotLost'
  BY <1>2 DEF NotLost
<1>5. OwedRightly'
  BY <1>2 DEF OwedRightly
<1> QED BY <1>1, <1>3, <1>4, <1>5

LEMMA NextIInv == IInv /\ [Next]_vars => IInv'
<1> SUFFICES ASSUME IInv, [Next]_vars PROVE IInv'
  OBVIOUS
<1> USE JobsAssumption
<1>t. TypeOK /\ NoMissedWake /\ ToldOnce /\ NotLost /\ OwedRightly
  BY DEF IInv
<1>w. watch \in [Watches -> WatchRecord]
  BY <1>t DEF TypeOK, RegistryTypeOK
\* Steps of the controller that leave statuses and messages alone.
<1>c. ASSUME UNCHANGED <<status, background, completionQueued, told>>,
             watch' \in [Watches -> WatchRecord], NoMissedWake',
             aborted' \in [Jobs -> BOOLEAN],
             disposed' \in BOOLEAN, disposed => disposed',
             body' \in [Jobs -> Bodies], outcome' \in [Jobs -> Terminal],
             control' \in [Workflows -> [listed : BOOLEAN, paused : BOOLEAN, aborted : BOOLEAN, parked : BOOLEAN]],
             signalled' \in [Jobs -> BOOLEAN]
      PROVE  IInv'
  BY <1>c, <1>t DEF IInv, TypeOK, RegistryTypeOK, ToldOnce, NotLost, OwedRightly
\* Steps that move a job between statuses that are not terminal.
<1>m. ASSUME NEW j \in Jobs, status[j] \notin Terminal,
             NEW st \in Statuses \ Terminal, status' = [status EXCEPT ![j] = st],
             background' \in [Jobs -> BOOLEAN],
             \A k \in Jobs : k # j => background'[k] = background[k],
             UNCHANGED <<completionQueued, told, aborted, disposed, outcome, signalled>>,
             Publish, body' \in [Jobs -> Bodies],
             control' \in [Workflows -> [listed : BOOLEAN, paused : BOOLEAN, aborted : BOOLEAN, parked : BOOLEAN]]
      PROVE  IInv'
  <2>1. watch' \in [Watches -> WatchRecord] /\ NoMissedWake'
    BY <1>m, <1>w, PublishWakes
  <2>2. status' \in [Jobs -> Statuses] /\ status'[j] \notin Terminal
        /\ \A k \in Jobs : k # j => status'[k] = status[k]
    BY <1>m, <1>t DEF TypeOK, RegistryTypeOK
  <2>3. ToldOnce' /\ NotLost' /\ OwedRightly'
    BY <2>2, <1>m, <1>t DEF ToldOnce, NotLost, OwedRightly
  <2> QED BY <2>1, <2>2, <2>3, <1>m, <1>t DEF IInv, TypeOK, RegistryTypeOK
\* settleJob.
<1>s. ASSUME NEW j \in Jobs, NEW st \in Terminal, SettleJob(j, st)
      PROVE  IInv'
  <2> DEFINE after == StatusAfterSettle(j, st)
             owed  == OwedAfterSettle(j)
  <2>1. after \in [Jobs -> Statuses] /\ owed \in [Jobs -> BOOLEAN] /\ status' = after
    BY <1>s, <1>t DEF SettleJob, StatusAfterSettle, OwedAfterSettle, TypeOK, RegistryTypeOK, Statuses
  <2>2. watch' \in [Watches -> WatchRecord] /\ NoMissedWake'
    BY <1>s, <1>w, PublishWakes DEF SettleJob
  <2>3. \A k \in Jobs : /\ (k = j /\ Live(j)) \/ (after[k] = status[k] /\ (owed[k] <=> completionQueued[k]))
                        /\ k = j /\ Live(j) => after[k] = st /\ (owed[k] <=> background[k])
    BY <1>t DEF StatusAfterSettle, OwedAfterSettle, TypeOK, RegistryTypeOK
  <2>4. Live(j) => told[j] = 0
    BY <1>t DEF Live, Unsettled, Terminal, ToldOnce, TypeOK
  <2>5. /\ \A k \in Jobs : owed[k] => told[k] = 0
        /\ \A k \in Jobs : told[k] <= 1
        /\ \A k \in Jobs : told[k] = 1 => background[k] /\ after[k] \in Terminal
        /\ \A k \in Jobs : after[k] \in Terminal /\ background[k] => told[k] = 1 \/ owed[k]
        /\ \A k \in Jobs : owed[k] => after[k] \in Terminal
        /\ \A k \in Jobs : owed[k] => disposed \/ background[k]
    <3> HIDE DEF after, owed
    <3> SUFFICES ASSUME NEW k \in Jobs
                 PROVE  /\ owed[k] => told[k] = 0
                        /\ told[k] <= 1
                        /\ told[k] = 1 => background[k] /\ after[k] \in Terminal
                        /\ after[k] \in Terminal /\ background[k] => told[k] = 1 \/ owed[k]
                        /\ owed[k] => after[k] \in Terminal
                        /\ owed[k] => disposed \/ background[k]
      OBVIOUS
    <3>1. /\ told[k] <= 1
          /\ told[k] # 1 => told[k] = 0
      BY <1>t DEF ToldOnce, TypeOK
    <3>2. CASE k = j /\ Live(j)
      <4>1. after[k] \in Terminal /\ (owed[k] <=> background[k]) /\ told[k] = 0
        BY <3>2, <2>3, <2>4
      <4> QED BY <4>1
    <3>3. CASE ~(k = j /\ Live(j))
      <4>1. after[k] = status[k] /\ (owed[k] <=> completionQueued[k])
        BY <3>3, <2>3
      <4>2. completionQueued[k] => told[k] # 1
        BY <1>t DEF ToldOnce
      <4> QED BY <3>1, <4>1, <4>2, <1>t DEF ToldOnce, NotLost, OwedRightly
    <3> QED BY <3>2, <3>3
  <2>6. PICK sent \in SUBSET (IF background[j] /\ ~disposed THEN PendingCompletions(after, owed) ELSE {}) :
          Deliver(after, owed, sent)
    BY <1>s DEF SettleJob
  <2>7. background' = background /\ disposed' = disposed /\ aborted' = aborted
    BY <1>s DEF SettleJob
  <2>8. /\ completionQueued' \in [Jobs -> BOOLEAN] /\ told' \in [Jobs -> Nat]
        /\ ToldOnce' /\ NotLost' /\ OwedRightly'
    <3>1. CASE ~disposed
      <4> HIDE DEF after, owed
      <4>1. sent \in SUBSET PendingCompletions(after, owed)
        BY <2>6
      <4> QED BY <3>1, <4>1, <2>1, <2>5, <2>6, <2>7, <1>t, DeliverKeeps DEF TypeOK
    <3>2. CASE disposed
      <4> HIDE DEF after, owed
      <4>1. sent = {}
        BY <3>2, <2>6
      <4>2. completionQueued' = owed /\ told' = told
        BY <4>1, <2>1, <2>6, <1>t DEF Deliver, TypeOK
      <4> QED BY <4>2, <3>2, <2>1, <2>5, <2>7, <1>t DEF TypeOK, ToldOnce, NotLost, OwedRightly
    <3> QED BY <3>1, <3>2
  <2>9. /\ body' \in [Jobs -> Bodies] /\ UNCHANGED <<disposed, outcome, control, signalled>>
    BY <1>s, <1>t DEF SettleJob, TypeOK, Bodies
  <2> HIDE DEF after, owed
  <2> QED BY <2>1, <2>2, <2>7, <2>8, <2>9, <1>t DEF IInv, TypeOK, RegistryTypeOK
\* Publication without a change of status.
<1>p. ASSUME Publish, status' = status
      PROVE  watch' \in [Watches -> WatchRecord] /\ NoMissedWake'
  BY <1>p, <1>w, PublishWakes
<1>u. ASSUME UNCHANGED <<watch, status>> PROVE watch' \in [Watches -> WatchRecord] /\ NoMissedWake'
  BY <1>u, <1>t, <1>w DEF NoMissedWake, Ready
<1>1. ASSUME NEW j \in Jobs, SubmitAgent(j) \/ SubmitWorkflow(j) PROVE IInv'
  <2> PICK b \in BOOLEAN : Create(j, b)
    BY <1>1 DEF SubmitAgent, SubmitWorkflow
  <2>1. status[j] \notin Terminal /\ "queued" \in Statuses \ Terminal
    BY DEF Create, Statuses, Unsettled, Terminal
  <2>2. body' \in [Jobs -> Bodies] /\ UNCHANGED <<disposed, outcome, control, signalled, told>>
    BY <1>1, <1>t DEF SubmitAgent, SubmitWorkflow, TypeOK, Bodies
  <2>3. background' \in [Jobs -> BOOLEAN] /\ \A k \in Jobs : k # j => background'[k] = background[k]
    BY <1>t DEF Create, TypeOK, RegistryTypeOK
  <2> QED BY <1>m, <2>1, <2>2, <2>3, <1>t DEF Create, TypeOK
<1>2. ASSUME NEW j \in Jobs, Start(j), UNCHANGED <<disposed, outcome, control, signalled, told>>,
             body' \in [Jobs -> Bodies]
      PROVE IInv'
  <2>1. CASE Live(j) /\ ~aborted[j]
    <3>1. status[j] \notin Terminal /\ "running" \in Statuses \ Terminal
      BY <2>1 DEF Live, Statuses, Unsettled, Terminal
    <3> QED BY <1>m, <2>1, <1>2, <3>1, <1>t DEF Start, TypeOK, RegistryTypeOK
  <2>2. CASE ~(Live(j) /\ ~aborted[j])
    BY <2>2, <1>2, <1>p, <1>c, <1>t DEF Start, TypeOK, RegistryTypeOK
  <2> QED BY <2>1, <2>2
<1>3. ASSUME NEW j \in Jobs, RunStarted(j) PROVE IInv'
  BY <1>2, <1>3, <1>t DEF RunStarted, controllerVars, TypeOK
<1>4. ASSUME NEW j \in Jobs, WorkflowParks(j) PROVE IInv'
  BY <1>4, <1>u, <1>c, <1>t DEF WorkflowParks, rvars, TypeOK, RegistryTypeOK
<1>5. ASSUME NEW j \in Jobs, Advance(j) PROVE IInv'
  <2>a. AbortStatus(j) \in Terminal
    BY DEF AbortStatus, Terminal
  <2>1. ASSUME NEW st \in {"completed", "failed"}, AgentRetained(j, st) PROVE IInv'
    BY <2>1, <1>s DEF AgentRetained, Terminal
  <2>2. ASSUME NEW st \in {"completed", "failed"}, AgentReturns(j, st) PROVE IInv'
    BY <2>2, <1>u, <1>c, <1>t DEF AgentReturns, rvars, TypeOK, RegistryTypeOK, Bodies, Terminal
  <2>3. CASE AgentThrows(j)
    BY <2>3, <2>a, <1>s DEF AgentThrows
  <2>4. CASE WorkflowStarts(j)
    BY <2>4, <1>2, <1>t DEF WorkflowStarts, TypeOK, Bodies
  <2>5. CASE WorkflowRefused(j)
    BY <2>5, <2>a, <1>s DEF WorkflowRefused
  <2>6. CASE WorkflowRuns(j)
    <3>1. control' \in [Workflows -> [listed : BOOLEAN, paused : BOOLEAN, aborted : BOOLEAN, parked : BOOLEAN]]
      BY <2>6, <1>t DEF WorkflowRuns, TypeOK, RegistryTypeOK, NoControl
    <3> QED BY <3>1, <2>6, <1>u, <1>c, <1>t DEF WorkflowRuns, rvars, TypeOK, RegistryTypeOK, Bodies
  <2>7. ASSUME NEW st \in {"completed", "failed", "cancelled"}, WorkflowEnds(j, st) PROVE IInv'
    BY <2>7, <1>u, <1>c, <1>t DEF WorkflowEnds, rvars, TypeOK, RegistryTypeOK, Bodies, Terminal
  <2>8. CASE SessionsClosed(j)
    BY <2>8, <1>s, <1>t DEF SessionsClosed, TypeOK
  <2> QED BY <1>5, <2>1, <2>2, <2>3, <2>4, <2>5, <2>6, <2>7, <2>8 DEF Advance
<1>6. ASSUME NEW j \in Jobs, CancelJob(j) PROVE IInv'
  <2>1. control' \in [Workflows -> [listed : BOOLEAN, paused : BOOLEAN, aborted : BOOLEAN, parked : BOOLEAN]]
    BY <1>6, <1>t DEF CancelJob, TypeOK, Interrupted
  <2>2. aborted' \in [Jobs -> BOOLEAN]
    BY <1>6, <1>t DEF CancelJob, Cancel, TypeOK, RegistryTypeOK
  <2> QED BY <2>1, <2>2, <1>6, <1>p, <1>c, <1>t DEF CancelJob, Cancel, TypeOK, RegistryTypeOK
<1>7. ASSUME NEW j \in Jobs, CallerAborts(j) PROVE IInv'
  BY <1>7, <1>u, <1>c, <1>t DEF CallerAborts, rvars, TypeOK, RegistryTypeOK
<1>8. ASSUME NEW j \in Jobs, PauseWorkflow(j) PROVE IInv'
  <2>1. control' \in [Workflows -> [listed : BOOLEAN, paused : BOOLEAN, aborted : BOOLEAN, parked : BOOLEAN]]
    BY <1>8, <1>t DEF PauseWorkflow, TypeOK
  <2>2. CASE status[j] = "running" /\ ~aborted[j]
    <3>1. status[j] \notin Terminal /\ "paused" \in Statuses \ Terminal
      BY <2>2 DEF Statuses, Unsettled, Terminal
    <3> QED BY <1>m, <2>1, <2>2, <3>1, <1>8, <1>t DEF PauseWorkflow, Pause, TypeOK, RegistryTypeOK
  <2>3. CASE ~(status[j] = "running" /\ ~aborted[j])
    BY <2>1, <2>3, <1>8, <1>p, <1>c, <1>t DEF PauseWorkflow, Pause, TypeOK, RegistryTypeOK
  <2> QED BY <2>2, <2>3
<1>9. ASSUME NEW j \in Jobs, ResumeWorkflow(j) PROVE IInv'
  <2>1. control' \in [Workflows -> [listed : BOOLEAN, paused : BOOLEAN, aborted : BOOLEAN, parked : BOOLEAN]]
    BY <1>9, <1>t DEF ResumeWorkflow, TypeOK
  <2>2. CASE status[j] = "paused" /\ ~aborted[j]
    <3>1. status[j] \notin Terminal /\ "running" \in Statuses \ Terminal
      BY <2>2 DEF Statuses, Unsettled, Terminal
    <3> QED BY <1>m, <2>1, <2>2, <3>1, <1>9, <1>t DEF ResumeWorkflow, Resume, TypeOK, RegistryTypeOK
  <2>3. CASE ~(status[j] = "paused" /\ ~aborted[j])
    BY <2>1, <2>3, <1>9, <1>p, <1>c, <1>t DEF ResumeWorkflow, Resume, TypeOK, RegistryTypeOK
  <2> QED BY <2>2, <2>3
<1>10. CASE Redeliver
  <2>1. PICK sent \in SUBSET PendingCompletions(status, completionQueued) :
          Deliver(status, completionQueued, sent)
    BY <1>10 DEF Redeliver
  <2>2. ~disposed /\ UNCHANGED <<status, background, aborted, watch, disposed, body, outcome, control, signalled>>
    BY <1>10 DEF Redeliver
  <2>3. /\ \A k \in Jobs : completionQueued[k] => background[k] /\ told[k] = 0
        /\ \A k \in Jobs : told[k] <= 1
        /\ \A k \in Jobs : told[k] = 1 => background[k] /\ status[k] \in Terminal
        /\ \A k \in Jobs : status[k] \in Terminal /\ background[k] => told[k] = 1 \/ completionQueued[k]
        /\ \A k \in Jobs : completionQueued[k] => status[k] \in Terminal
    <3> SUFFICES ASSUME NEW k \in Jobs
                 PROVE  /\ completionQueued[k] => background[k] /\ told[k] = 0
                        /\ told[k] <= 1
                        /\ told[k] = 1 => background[k] /\ status[k] \in Terminal
                        /\ status[k] \in Terminal /\ background[k] => told[k] = 1 \/ completionQueued[k]
                        /\ completionQueued[k] => status[k] \in Terminal
      OBVIOUS
    <3>1. told[k] <= 1 /\ (told[k] # 1 => told[k] = 0)
      BY <1>t DEF ToldOnce, TypeOK
    <3>2. completionQueued[k] => told[k] # 1
      BY <1>t DEF ToldOnce
    <3> QED BY <3>1, <3>2, <2>2, <1>t DEF ToldOnce, NotLost, OwedRightly
  <2>4. /\ completionQueued' \in [Jobs -> BOOLEAN] /\ told' \in [Jobs -> Nat]
        /\ ToldOnce' /\ NotLost' /\ OwedRightly'
    BY <2>1, <2>2, <2>3, <1>t, DeliverKeeps DEF TypeOK, RegistryTypeOK
  <2> QED BY <2>2, <2>4, <1>u, <1>t DEF IInv, TypeOK, RegistryTypeOK
<1>11. CASE Dispose
  <2>1. watch' \in [Watches -> WatchRecord] /\ NoMissedWake'
    BY <1>11, <1>w, PublishWakes DEF Dispose, InterruptAll
  <2>2. control' \in [Workflows -> [listed : BOOLEAN, paused : BOOLEAN, aborted : BOOLEAN, parked : BOOLEAN]]
    BY <1>11, <1>t DEF Dispose, TypeOK, Interrupted
  <2>3. /\ status' \in [Jobs -> Statuses] /\ aborted' \in [Jobs -> BOOLEAN]
        /\ completionQueued' \in [Jobs -> BOOLEAN]
    BY <1>11, <1>t DEF Dispose, InterruptAll, TypeOK, RegistryTypeOK, Statuses, Terminal
  <2>4. \A k \in Jobs : /\ status'[k] = IF Live(k) THEN "interrupted" ELSE status[k]
                        /\ completionQueued'[k] <=> completionQueued[k] \/ Live(k)
    BY <1>11 DEF Dispose, InterruptAll
  <2>5. disposed' = TRUE /\ UNCHANGED <<background, body, outcome, signalled, told>>
    BY <1>11 DEF Dispose, InterruptAll
  <2>6. \A k \in Jobs : Live(k) => status[k] \notin Terminal
    BY DEF Live, Unsettled, Terminal
  <2>7. ToldOnce' /\ NotLost' /\ OwedRightly'
    BY <2>4, <2>5, <2>6, <1>t DEF ToldOnce, NotLost, OwedRightly, Terminal
  <2> QED BY <2>1, <2>2, <2>3, <2>5, <2>7, <1>t DEF IInv, TypeOK, RegistryTypeOK
<1>12. ASSUME NEW w \in Watches,
              WaitTimesOut(w) \/ \E js \in SUBSET Jobs, waitFor \in {"any", "all"} : Wait(w, js, waitFor),
              UNCHANGED controllerVars
       PROVE  IInv'
  <2>1. watch' \in [Watches -> WatchRecord]
    BY <1>12, <1>w DEF WaitTimesOut, Wait, WatchRecord
  <2>2. UNCHANGED <<status, background, aborted, completionQueued>>
    BY <1>12 DEF WaitTimesOut, Wait
  <2>3. NoMissedWake'
    <3>1. CASE WaitTimesOut(w)
      BY <3>1, <2>2, <1>t, <1>w DEF WaitTimesOut, NoMissedWake, Ready, WatchRecord
    <3>2. ASSUME NEW js \in SUBSET Jobs, NEW waitFor \in {"any", "all"}, Wait(w, js, waitFor)
          PROVE  NoMissedWake'
      BY <3>2, <2>2, <1>t, <1>w DEF Wait, NoMissedWake, Ready, WatchRecord
    <3> QED BY <3>1, <3>2, <1>12
  <2> QED BY <2>1, <2>2, <2>3, <1>12, <1>c, <1>t DEF controllerVars, TypeOK, RegistryTypeOK
<1>13. CASE UNCHANGED vars
  BY <1>13, <1>u, <1>c, <1>t DEF vars, rvars, TypeOK, RegistryTypeOK
<1> QED
  BY <1>1, <1>3, <1>4, <1>5, <1>6, <1>7, <1>8, <1>9, <1>10, <1>11, <1>12, <1>13 DEF Next

\* The status of a settled job survives every step.
LEMMA StepKeepsSettled ==
  ASSUME TypeOK, Next, NEW k \in Jobs, status[k] \in Terminal
  PROVE  status'[k] = status[k]
<1>t. status \in [Jobs -> Statuses]
  BY DEF TypeOK, RegistryTypeOK
<1>k. ~Live(k)
  BY DEF Live, Unsettled, Terminal
<1>1. ASSUME NEW j \in Jobs, NEW st, SettleJob(j, st) PROVE status'[k] = status[k]
  BY <1>1, <1>t, <1>k DEF SettleJob, StatusAfterSettle
<1>2. ASSUME NEW j \in Jobs, Start(j) PROVE status'[k] = status[k]
  BY <1>2, <1>t, <1>k DEF Start
<1>3. ASSUME NEW j \in Jobs, Advance(j) PROVE status'[k] = status[k]
  BY <1>1, <1>2, <1>3
  DEF Advance, AgentRetained, AgentReturns, AgentThrows, WorkflowStarts, WorkflowRefused,
      WorkflowRuns, WorkflowEnds, SessionsClosed, rvars
<1>4. ASSUME NEW j \in Jobs, SubmitAgent(j) \/ SubmitWorkflow(j) PROVE status'[k] = status[k]
  BY <1>4, <1>t DEF SubmitAgent, SubmitWorkflow, Create, Terminal
<1>5. ASSUME NEW j \in Jobs,
             RunStarted(j) \/ WorkflowParks(j) \/ CancelJob(j) \/ CallerAborts(j)
               \/ PauseWorkflow(j) \/ ResumeWorkflow(j)
      PROVE  status'[k] = status[k]
  BY <1>5, <1>2, <1>t
  DEF RunStarted, WorkflowParks, CancelJob, Cancel, CallerAborts, PauseWorkflow, Pause,
      ResumeWorkflow, Resume, rvars, Terminal
<1>6. CASE Redeliver
  BY <1>6 DEF Redeliver
<1>7. CASE Dispose
  BY <1>7, <1>k DEF Dispose, InterruptAll
<1>8. CASE \E w \in Watches :
             \/ WaitTimesOut(w)
             \/ \E js \in SUBSET Jobs, waitFor \in {"any", "all"} : Wait(w, js, waitFor)
  BY <1>8 DEF WaitTimesOut, Wait
<1> QED BY <1>3, <1>4, <1>5, <1>6, <1>7, <1>8 DEF Next

THEOREM JobsInvariance == Spec => []IInv
  BY InitIInv, NextIInv, PTL DEF Spec

\* Types hold in every reachable state.
THEOREM JobsTypeCorrect == Spec => []TypeOK
<1>1. IInv => TypeOK
  BY DEF IInv
<1> QED BY <1>1, JobsInvariance, PTL

\* What was reported of a settled job is never rewritten.
THEOREM SettledForGood == Spec => SettledOnce
<1>1. TypeOK /\ [Next]_vars => [\A j \in Jobs : status[j] \in Terminal => status'[j] = status[j]]_vars
  BY StepKeepsSettled
<1> QED BY <1>1, JobsTypeCorrect, PTL DEF Spec, SettledOnce

\* A caller of subagent_results that waits is woken by whatever settles its jobs.
THEOREM WaitersWoken == Spec => []NoMissedWake
<1>1. IInv => NoMissedWake
  BY DEF IInv
<1> QED BY <1>1, JobsInvariance, PTL

\* Completion notices are sent at most once, and only for background jobs.
THEOREM NoticeAtMostOnce == Spec => []ToldOnce
<1>1. IInv => ToldOnce
  BY DEF IInv
<1> QED BY <1>1, JobsInvariance, PTL

\* No completion notice is lost, however often sendMessage throws.
THEOREM NoticeNeverLost == Spec => []NotLost
<1>1. IInv => NotLost
  BY DEF IInv
<1> QED BY <1>1, JobsInvariance, PTL

-----------------------------------------------------------------------------
(* Pause and resume.                                                       *)

\* What the list of jobs says of a workflow at each point of its body.  The
\* first parts are needed because a control is listed by one step and the job
\* started by an earlier one: in between, only the job's own abort may move it.
InStep(j) ==
  /\ status[j] = "absent" => body[j] = "none"
  /\ control[j].listed => body[j] = "executing"
  /\ body[j] = "submitted" /\ ~aborted[j] => status[j] = "queued"
  /\ body[j] = "preparing" /\ ~aborted[j] => status[j] = "running"
  /\ control[j].listed /\ ~control[j].aborted =>
       ~aborted[j] /\ status[j] = (IF control[j].paused THEN "paused" ELSE "running")

AllInStep == \A j \in Workflows : InStep(j)

\* A workflow of which nothing changes stays in step.
LEMMA UntouchedInStep ==
  ASSUME NEW j \in Workflows, InStep(j),
         status'[j] = status[j], aborted'[j] = aborted[j],
         body'[j] = body[j], control'[j] = control[j]
  PROVE  InStep(j)'
BY DEF InStep

\* Settling a job happens only where its control is not listed.
LEMMA SettleInStep ==
  ASSUME TypeOK, AllInStep, NEW j \in Jobs, NEW st \in Terminal, SettleJob(j, st),
         status[j] # "absent", j \in Workflows => ~control[j].listed
  PROVE  AllInStep'
<1> USE JobsAssumption
<1> SUFFICES ASSUME NEW k \in Workflows PROVE InStep(k)'
  BY DEF AllInStep
<1>1. /\ \A i \in Jobs : i # j => status'[i] = status[i] /\ body'[i] = body[i]
      /\ UNCHANGED <<aborted, control>>
      /\ body'[j] = "done" /\ status'[j] # "absent"
  BY DEF SettleJob, StatusAfterSettle, TypeOK, RegistryTypeOK, Terminal
<1>2. CASE k = j
  BY <1>1, <1>2 DEF InStep
<1>3. CASE k # j
  BY <1>1, <1>3, UntouchedInStep DEF AllInStep
<1> QED BY <1>2, <1>3

LEMMA NextInStep == TypeOK /\ AllInStep /\ [Next]_vars => AllInStep'
<1> SUFFICES ASSUME TypeOK, AllInStep, [Next]_vars PROVE AllInStep'
  OBVIOUS
<1> USE JobsAssumption
<1>t. /\ status \in [Jobs -> Statuses] /\ aborted \in [Jobs -> BOOLEAN]
      /\ body \in [Jobs -> Bodies]
      /\ control \in [Workflows -> [listed : BOOLEAN, paused : BOOLEAN, aborted : BOOLEAN, parked : BOOLEAN]]
  BY DEF TypeOK, RegistryTypeOK
<1>o. outcome \in [Jobs -> Terminal]
  BY DEF TypeOK
\* It is enough to look at the workflow a step is about.
<1>r. ASSUME NEW j \in Jobs,
             \A k \in Workflows : k # j =>
               /\ status'[k] = status[k] /\ aborted'[k] = aborted[k]
               /\ body'[k] = body[k] /\ control'[k] = control[k],
             j \in Workflows => InStep(j)'
      PROVE  AllInStep'
  <2> SUFFICES ASSUME NEW k \in Workflows PROVE InStep(k)'
    BY DEF AllInStep
  <2>1. CASE k = j
    BY <2>1, <1>r
  <2>2. CASE k # j
    BY <2>2, <1>r, UntouchedInStep DEF AllInStep
  <2> QED BY <2>1, <2>2
<1>n. \A j \in Workflows : body[j] # "none" => status[j] # "absent"
  BY DEF AllInStep, InStep
<1>l. \A j \in Workflows : body[j] # "executing" => ~control[j].listed
  BY DEF AllInStep, InStep
<1>1. ASSUME NEW j \in Jobs, SubmitAgent(j) PROVE AllInStep'
  <2>1. j \notin Workflows /\ UNCHANGED <<aborted, control>>
    BY <1>1 DEF SubmitAgent, Create, Agents
  <2>2. \A k \in Workflows : status'[k] = status[k] /\ body'[k] = body[k]
    BY <1>1, <1>t, <2>1 DEF SubmitAgent, Create
  <2> QED BY <2>1, <2>2, <1>r
<1>2. ASSUME NEW j \in Jobs, SubmitWorkflow(j) PROVE AllInStep'
  <2>1. /\ j \in Workflows /\ status[j] = "absent" /\ UNCHANGED <<aborted, control>>
        /\ status' = [status EXCEPT ![j] = "queued"] /\ body' = [body EXCEPT ![j] = "submitted"]
    BY <1>2 DEF SubmitWorkflow, Create
  <2>2. ~control[j].listed
    BY <2>1 DEF AllInStep, InStep
  <2>3. InStep(j)'
    BY <2>1, <2>2, <1>t DEF InStep
  <2> QED BY <2>1, <2>3, <1>t, <1>r
<1>3. ASSUME NEW j \in Jobs, RunStarted(j) PROVE AllInStep'
  <2>1. j \notin Workflows /\ UNCHANGED <<aborted, control, body>>
    BY <1>3 DEF RunStarted, Start, Agents, controllerVars
  <2>2. \A k \in Workflows : status'[k] = status[k]
    BY <1>3, <1>t, <2>1 DEF RunStarted, Start
  <2> QED BY <2>1, <2>2, <1>r
<1>4. ASSUME NEW j \in Jobs, WorkflowParks(j) PROVE AllInStep'
  <2>1. /\ j \in Workflows /\ UNCHANGED <<status, aborted, body>>
        /\ control' = [control EXCEPT ![j].parked = TRUE]
    BY <1>4 DEF WorkflowParks, rvars
  <2>2. InStep(j)'
    BY <2>1, <1>t DEF AllInStep, InStep
  <2> QED BY <2>1, <2>2, <1>t, <1>r
<1>5. ASSUME NEW j \in Jobs, Advance(j) PROVE AllInStep'
  <2>a. AbortStatus(j) \in Terminal
    BY DEF AbortStatus, Terminal
  <2>b. ASSUME NEW st \in Terminal, j \in Agents, body[j] # "none", SettleJob(j, st)
        PROVE  AllInStep'
    <3>1. /\ UNCHANGED <<aborted, control>>
          /\ \A k \in Workflows : status'[k] = status[k] /\ body'[k] = body[k]
      BY <2>b, <1>t DEF SettleJob, StatusAfterSettle, Agents
    <3> QED BY <3>1, <2>b, <1>r DEF Agents
  <2>1. ASSUME NEW st \in {"completed", "failed"}, AgentRetained(j, st) PROVE AllInStep'
    BY <2>1, <2>b DEF AgentRetained, Terminal
  <2>2. ASSUME NEW st \in {"completed", "failed"}, AgentReturns(j, st) PROVE AllInStep'
    BY <2>2, <1>t, <1>r DEF AgentReturns, rvars, Agents
  <2>3. CASE AgentThrows(j)
    BY <2>3, <2>a, <2>b DEF AgentThrows
  <2>4. CASE WorkflowStarts(j)
    <3>1. /\ j \in Workflows /\ body[j] = "submitted" /\ UNCHANGED <<aborted, control>>
          /\ body' = [body EXCEPT ![j] = "preparing"]
          /\ status' = IF Live(j) /\ ~aborted[j] THEN [status EXCEPT ![j] = "running"] ELSE status
      BY <2>4 DEF WorkflowStarts, Start
    <3>2. status[j] # "absent" /\ ~control[j].listed /\ (~aborted[j] => Live(j))
      BY <3>1, <1>n, <1>l DEF AllInStep, InStep, Live, Unsettled
    <3>3. InStep(j)'
      BY <3>1, <3>2, <1>t DEF InStep
    <3> QED BY <3>1, <3>3, <1>t, <1>r
  <2>5. CASE WorkflowRefused(j)
    <3>1. body[j] = "preparing" /\ j \in Workflows /\ SettleJob(j, AbortStatus(j))
      BY <2>5 DEF WorkflowRefused
    <3>2. status[j] # "absent" /\ ~control[j].listed
      BY <3>1, <1>n, <1>l
    <3> QED BY <3>1, <3>2, <2>a, SettleInStep
  <2>6. CASE WorkflowRuns(j)
    <3>1. /\ j \in Workflows /\ body[j] = "preparing" /\ UNCHANGED <<status, aborted>>
          /\ body' = [body EXCEPT ![j] = "executing"]
          /\ control' = [control EXCEPT ![j] = [NoControl EXCEPT !.listed = TRUE, !.aborted = aborted[j] \/ signalled[j]]]
      BY <2>6 DEF WorkflowRuns, rvars
    <3>2. control'[j].listed /\ ~control'[j].paused /\ (control'[j].aborted <=> aborted[j] \/ signalled[j])
      BY <3>1, <1>t DEF NoControl
    <3>3. InStep(j)'
      BY <3>1, <3>2, <1>t DEF AllInStep, InStep
    <3> QED BY <3>1, <3>3, <1>t, <1>r
  <2>7. ASSUME NEW st \in {"completed", "failed", "cancelled"}, WorkflowEnds(j, st) PROVE AllInStep'
    <3>1. /\ j \in Workflows /\ body[j] = "executing" /\ UNCHANGED <<status, aborted>>
          /\ body' = [body EXCEPT ![j] = "closing"]
          /\ control' = [control EXCEPT ![j].listed = FALSE]
      BY <2>7 DEF WorkflowEnds, rvars
    <3>2. status[j] # "absent" /\ ~control'[j].listed
      BY <3>1, <1>n, <1>t
    <3>3. InStep(j)'
      BY <3>1, <3>2, <1>t DEF InStep
    <3> QED BY <3>1, <3>3, <1>t, <1>r
  <2>8. CASE SessionsClosed(j)
    <3>1. body[j] = "closing" /\ SettleJob(j, outcome[j]) /\ outcome[j] \in Terminal
      BY <2>8, <1>o DEF SessionsClosed
    <3>2. CASE j \in Workflows
      BY <3>1, <3>2, <1>n, <1>l, SettleInStep
    <3>3. CASE j \notin Workflows
      BY <3>1, <3>3, <2>b DEF Agents
    <3> QED BY <3>2, <3>3
  <2> QED BY <1>5, <2>1, <2>2, <2>3, <2>4, <2>5, <2>6, <2>7, <2>8 DEF Advance
<1>6. ASSUME NEW j \in Jobs, CancelJob(j) PROVE AllInStep'
  <2>1. /\ UNCHANGED <<status, body>> /\ aborted' = [aborted EXCEPT ![j] = TRUE]
        /\ control' = [k \in Workflows |->
             IF k = j /\ control[k].listed THEN Interrupted(control[k]) ELSE control[k]]
    BY <1>6 DEF CancelJob, Cancel
  <2>2. ASSUME j \in Workflows PROVE InStep(j)'
    <3>1. CASE control[j].listed
      <4>1. control'[j].aborted /\ (control'[j].listed <=> control[j].listed)
        BY <2>1, <2>2, <3>1, <1>t DEF Interrupted
      <4> QED BY <4>1, <2>1, <2>2, <1>t DEF AllInStep, InStep
    <3>2. CASE ~control[j].listed
      BY <3>2, <2>1, <2>2, <1>t DEF AllInStep, InStep
    <3> QED BY <3>1, <3>2
  <2> QED BY <2>1, <2>2, <1>t, <1>r
<1>7. ASSUME NEW j \in Jobs, CallerAborts(j) PROVE AllInStep'
  <2>1. /\ UNCHANGED <<status, body, aborted>>
        /\ control' = [k \in Workflows |->
             IF k = j /\ body[k] = "executing" THEN [control[k] EXCEPT !.aborted = TRUE] ELSE control[k]]
    BY <1>7 DEF CallerAborts, rvars
  <2>2. ASSUME j \in Workflows PROVE InStep(j)'
    BY <2>1, <2>2, <1>t DEF AllInStep, InStep
  <2> QED BY <2>1, <2>2, <1>t, <1>r
<1>8. ASSUME NEW j \in Jobs, PauseWorkflow(j) PROVE AllInStep'
  <2>1. /\ j \in Workflows /\ control[j].listed /\ ~control[j].paused /\ ~control[j].aborted
        /\ control' = [control EXCEPT ![j].paused = TRUE] /\ UNCHANGED <<aborted, body>>
        /\ status' = IF status[j] = "running" /\ ~aborted[j] THEN [status EXCEPT ![j] = "paused"] ELSE status
    BY <1>8 DEF PauseWorkflow, Pause
  <2>2. status[j] = "running" /\ ~aborted[j] /\ body[j] = "executing"
    BY <2>1 DEF AllInStep, InStep
  <2>3. InStep(j)'
    BY <2>1, <2>2, <1>t DEF InStep
  <2> QED BY <2>1, <2>3, <1>t, <1>r
<1>9. ASSUME NEW j \in Jobs, ResumeWorkflow(j) PROVE AllInStep'
  <2>1. /\ j \in Workflows /\ control[j].listed /\ control[j].paused /\ ~control[j].aborted
        /\ control' = [control EXCEPT ![j].paused = FALSE, ![j].parked = FALSE] /\ UNCHANGED <<aborted, body>>
        /\ status' = IF status[j] = "paused" /\ ~aborted[j] THEN [status EXCEPT ![j] = "running"] ELSE status
    BY <1>9 DEF ResumeWorkflow, Resume
  <2>2. status[j] = "paused" /\ ~aborted[j] /\ body[j] = "executing"
    BY <2>1 DEF AllInStep, InStep
  <2>3. InStep(j)'
    BY <2>1, <2>2, <1>t DEF InStep
  <2> QED BY <2>1, <2>3, <1>t, <1>r
<1>10. CASE Redeliver
  <2>1. UNCHANGED <<status, aborted, body, control>>
    BY <1>10 DEF Redeliver
  <2> QED BY <2>1 DEF AllInStep, InStep
<1>11. CASE Dispose
  <2> SUFFICES ASSUME NEW k \in Workflows PROVE InStep(k)'
    BY DEF AllInStep
  <2>1. /\ UNCHANGED body
        /\ aborted'[k] <=> aborted[k] \/ Live(k)
        /\ status'[k] = IF Live(k) THEN "interrupted" ELSE status[k]
    BY <1>11 DEF Dispose, InterruptAll
  <2>2. ~control'[k].listed
    BY <1>11, <1>t DEF Dispose, Interrupted
  <2>3. /\ status'[k] = "absent" => body'[k] = "none"
        /\ body'[k] = "submitted" /\ ~aborted'[k] => status'[k] = "queued"
        /\ body'[k] = "preparing" /\ ~aborted'[k] => status'[k] = "running"
    BY <2>1 DEF AllInStep, InStep, Live, Unsettled
  <2> QED BY <2>2, <2>3 DEF InStep
<1>12. ASSUME NEW w \in Watches,
              WaitTimesOut(w) \/ \E js \in SUBSET Jobs, waitFor \in {"any", "all"} : Wait(w, js, waitFor),
              UNCHANGED controllerVars
       PROVE  AllInStep'
  <2>1. UNCHANGED <<status, aborted, body, control>>
    BY <1>12 DEF WaitTimesOut, Wait, controllerVars
  <2> QED BY <2>1 DEF AllInStep, InStep
<1>13. CASE UNCHANGED vars
  BY <1>13 DEF vars, rvars, AllInStep, InStep
<1> QED
  BY <1>1, <1>2, <1>3, <1>4, <1>5, <1>6, <1>7, <1>8, <1>9, <1>10, <1>11, <1>12, <1>13 DEF Next

\* As long as a workflow can be resumed, the list of jobs shows it as paused
\* exactly when its control is paused (pauseWorkflow, resumeWorkflow).
THEOREM PausedInStep == Spec => []PauseInStep
<1>1. Init => AllInStep
  BY JobsAssumption DEF Init, RegistryInit, NoControl, AllInStep, InStep
<1>2. AllInStep => PauseInStep
  BY DEF AllInStep, InStep, PauseInStep
<1>3. []TypeOK /\ Init /\ [][Next]_vars => []AllInStep
  BY <1>1, NextInStep, PTL
<1> QED BY <1>2, <1>3, JobsTypeCorrect, PTL DEF Spec
=============================================================================
