------------------------- MODULE WorkflowRun_proofs -------------------------
(* Theorems about the stages of a workflow.  The inductive invariant says  *)
(* that the completed stages are those before the current one, and that a  *)
(* run in flight belongs to a task of the current stage that is not reused *)
(* and not settled, unless an item of that task was malformed: then it has *)
(* failed, and the stage with it.                                          *)
EXTENDS WorkflowRun, TLAPS

\* The stages before the current one are completed and their tasks over; from
\* the current one on none is completed, unless all are.
StagesInOrder ==
  /\ \A s \in Stages : s < cur => stage[s] = "completed"
  /\ \A t \in Tasks : StageOf[t] < cur => task[t] \in Over
  /\ workflow # "completed" => \A s \in Stages : s >= cur => stage[s] # "completed"
  /\ phase = "stage" => stage[cur] = "running"

\* Runs in flight are those of the stage that runs, of tasks that still wait
\* for them, or they were left behind by an item that was malformed.
FlightInStage ==
  \A u \in Units : InFlight(u) =>
    /\ StageOf[TaskOf[u]] = cur /\ ~reused[TaskOf[u]]
    /\ phase \in {"stage", "closing", "ended"}
    /\ Torn(TaskOf[u]) \/ (phase = "stage" /\ task[TaskOf[u]] \notin Settled)

\* A task with a malformed item has failed and stays so in this attempt.
TornFailed ==
  \A u \in Units : unit[u].run = "broken" =>
    /\ TaskOf[u] \in Foreach /\ StageOf[TaskOf[u]] = cur
    /\ task[TaskOf[u]] = "failed" /\ phase \in {"stage", "closing", "ended"}

\* Nothing was done yet for the stages to come.
LaterUntouched ==
  \A t \in Tasks :
    ~reused[t] /\ (StageOf[t] > cur \/ (StageOf[t] = cur /\ phase \in {"gate", "parked"}))
      => task[t] = "queued"

\* A run that returned has a result.
ReturnedHasResult ==
  \A u \in Units : unit[u].run = "returned" => unit[u].result \in {"completed", "failed"}

IInv ==
  /\ TypeOK
  /\ ReturnedHasResult
  /\ StagesInOrder
  /\ FlightInStage
  /\ TornFailed
  /\ LaterUntouched
  /\ ReusedNotRun
  /\ CompletedMeansOver
  /\ workflow = "completed" => phase \in {"closing", "ended"}

-----------------------------------------------------------------------------
(* One step of a run.                                                      *)

\* A run changes its own record and the status of its own task.  It settles
\* the task when it leaves flight, if the task is no foreach.
LEMMA UnitStepShape ==
  ASSUME TypeOK, ReturnedHasResult, NEW u \in Units, UnitStep(u)
  PROVE  /\ UNCHANGED <<phase, workflow, cur, stage, reused, paused, abortedBy, attempt>>
         /\ unit' \in [Units -> UnitRecord]
         /\ \A v \in Units \ {u} : unit'[v] = unit[v]
         /\ task' \in [Tasks -> Settled \cup {"queued", "running"}]
         /\ \A t \in Tasks \ {TaskOf[u]} : task'[t] = task[t]
         /\ \/ task' = task /\ unit'[u].run = unit[u].run
            \/ /\ InFlight(u)
               /\ unit'[u].run \in {"running", "returned", "done"}
               /\ \/ task'[TaskOf[u]] = task[TaskOf[u]]
                  \/ task'[TaskOf[u]] = "running" /\ phase = "stage"
                     /\ task[TaskOf[u]] \in {"queued", "running"}
                  \/ unit'[u].run = "done" /\ TaskOf[u] \notin Foreach
         /\ unit'[u].run = "returned" => unit'[u].result \in {"completed", "failed"}
<1>. USE WorkflowAssumption
<1>t. /\ unit \in [Units -> UnitRecord]
      /\ task \in [Tasks -> Settled \cup {"queued", "running"}]
      /\ TaskOf[u] \in Tasks
  BY DEF TypeOK
<1>u. unit[u] \in UnitRecord
  BY <1>t
\* Settle, with a record that is done.
<1>s. ASSUME NEW record \in UnitRecord, record.run = "done", record.result \in Settled,
             InFlight(u), Settle(u, record)
      PROVE  /\ UNCHANGED <<phase, workflow, cur, stage, reused, paused, abortedBy, attempt>>
             /\ unit' \in [Units -> UnitRecord]
             /\ \A v \in Units \ {u} : unit'[v] = unit[v]
             /\ unit'[u].run = "done"
             /\ task' \in [Tasks -> Settled \cup {"queued", "running"}]
             /\ \A t \in Tasks \ {TaskOf[u]} : task'[t] = task[t]
             /\ TaskOf[u] \in Foreach => task' = task
  <2>1. unit' = [unit EXCEPT ![u] = record]
    BY <1>s DEF Settle
  <2>2. task' = IF TaskOf[u] \in Foreach THEN task ELSE [task EXCEPT ![TaskOf[u]] = record.result]
    BY <1>s DEF Settle
  <2>3. UNCHANGED <<phase, workflow, cur, stage, reused, paused, abortedBy, attempt>>
    BY <1>s DEF Settle
  <2>. QED BY <1>s, <1>t, <2>1, <2>2, <2>3
<1>1. CASE RunStarts(u)
  <2>. DEFINE noted == Noted(u)
  <2>n. /\ noted \in BOOLEAN
        /\ noted => phase = "stage" /\ task[TaskOf[u]] \in {"queued", "running"}
    BY DEF Noted
  <2>d. /\ unit' = [unit EXCEPT ![u] =
             [run |-> "running", result |-> "none", session |-> "open", named |-> noted]]
        /\ task' = IF noted THEN [task EXCEPT ![TaskOf[u]] = "running"] ELSE task
    BY <1>1, Zenon DEF RunStarts, Begun
  <2>. HIDE DEF noted
  <2>1. unit' \in [Units -> UnitRecord] /\ unit'[u].run = "running"
    BY <2>n, <2>d, <1>t DEF UnitRecord
  <2>2. \A v \in Units \ {u} : unit'[v] = unit[v]
    BY <2>d, <1>t
  <2>3. /\ task' \in [Tasks -> Settled \cup {"queued", "running"}]
        /\ \/ task' = task
           \/ /\ task'[TaskOf[u]] = "running" /\ phase = "stage"
              /\ task[TaskOf[u]] \in {"queued", "running"}
        /\ \A t \in Tasks \ {TaskOf[u]} : task'[t] = task[t]
    BY <2>n, <2>d, <1>t
  <2>. QED BY <1>1, <2>1, <2>2, <2>3 DEF RunStarts, InFlight
<1>2. CASE RunRefused(u)
  <2>. DEFINE result == IF aborted THEN "cancelled" ELSE "failed"
              record == [unit[u] EXCEPT !.run = "done", !.result = result]
  <2>1. result \in {"cancelled", "failed"}
    OBVIOUS
  <2>2. Settle(u, record) /\ InFlight(u)
    BY <1>2, Zenon DEF RunRefused, InFlight
  <2>. HIDE DEF result
  <2>3. record \in UnitRecord /\ record.run = "done" /\ record.result \in Settled
    BY <1>u, <2>1 DEF UnitRecord, Settled
  <2>. HIDE DEF record
  <2>. QED BY <1>s, <2>2, <2>3
<1>3. CASE \E result \in {"completed", "failed"} : RunReturns(u, result)
  <2>. PICK result \in {"completed", "failed"} : RunReturns(u, result)
    BY <1>3
  <2>1. unit' = [unit EXCEPT ![u].run = "returned", ![u].result = result]
    BY DEF RunReturns
  <2>4. [unit[u] EXCEPT !.run = "returned", !.result = result] \in UnitRecord
    BY <1>u DEF UnitRecord
  <2>2. /\ unit' \in [Units -> UnitRecord]
        /\ unit'[u].run = "returned" /\ unit'[u].result = result
    BY <1>t, <1>u, <2>1, <2>4 DEF UnitRecord
  <2>3. \A v \in Units \ {u} : unit'[v] = unit[v]
    BY <1>t, <2>1
  <2>. QED BY <1>t, <2>2, <2>3 DEF RunReturns, InFlight
<1>4. CASE ResultTaken(u)
  <2>. DEFINE result == IF aborted THEN "cancelled" ELSE unit[u].result
              known == unit[u].named \/ ~Torn(TaskOf[u])
              record == [unit[u] EXCEPT !.run = "done", !.named = known, !.result = result]
  <2>1. result \in {"cancelled", "completed", "failed"} /\ known \in BOOLEAN
    BY <1>4 DEF ResultTaken, ReturnedHasResult
  <2>2. Settle(u, record) /\ InFlight(u)
    BY <1>4, Zenon DEF ResultTaken, InFlight
  <2>. HIDE DEF result, known
  <2>3. record \in UnitRecord /\ record.run = "done" /\ record.result \in Settled
    BY <1>u, <2>1 DEF UnitRecord, Settled, Over
  <2>. HIDE DEF record
  <2>. QED BY <1>s, <2>2, <2>3
<1>5. CASE \E session \in {"open", "gone"} : RunThrows(u, session)
  <2>. PICK session \in {"open", "gone"} : RunThrows(u, session)
    BY <1>5
  <2>. DEFINE record == [run |-> "done", session |-> session,
                         result |-> IF aborted THEN "cancelled" ELSE "failed",
                         named |-> TaskOf[u] \in Foreach /\ unit[u].named]
  <2>1. record \in UnitRecord /\ record.run = "done" /\ record.result \in Settled
    BY <1>u DEF UnitRecord, Settled
  <2>2. Settle(u, record) /\ InFlight(u)
    BY DEF RunThrows, InFlight
  <2>. HIDE DEF record
  <2>. QED BY <1>s, <2>1, <2>2
<1>6. CASE SessionCloses(u)
  <2>1. unit' = [unit EXCEPT ![u].session = "gone"]
    BY <1>6 DEF SessionCloses
  <2>2. /\ unit' \in [Units -> UnitRecord]
        /\ unit'[u].run = unit[u].run /\ unit'[u].result = unit[u].result
    BY <1>t, <2>1 DEF UnitRecord
  <2>3. \A v \in Units \ {u} : unit'[v] = unit[v]
    BY <1>t, <2>1
  <2>. QED BY <1>6, <1>t, <2>2, <2>3 DEF SessionCloses, ReturnedHasResult
<1>. QED
  BY <1>1, <1>2, <1>3, <1>4, <1>5, <1>6 DEF UnitStep

\* A run that begins was not malformed, and none becomes so.
LEMMA UnitStepTorn ==
  ASSUME TypeOK, ReturnedHasResult, NEW u \in Units, UnitStep(u)
  PROVE  /\ \A v \in Units : unit'[v].run = "broken" <=> unit[v].run = "broken"
         /\ \A t \in Tasks : Torn(t)' <=> Torn(t)
<1>1. /\ \A v \in Units \ {u} : unit'[v] = unit[v]
      /\ \/ unit'[u].run = unit[u].run
         \/ InFlight(u) /\ unit'[u].run \in {"running", "returned", "done"}
  BY UnitStepShape
<1>2. InFlight(u) => unit[u].run # "broken"
  BY DEF InFlight
<1>3. \A v \in Units : unit'[v].run = "broken" <=> unit[v].run = "broken"
  BY <1>1, <1>2
<1>. QED BY <1>3 DEF Torn, UnitsOf

LEMMA UnitStepKeeps ==
  ASSUME IInv, NEW u \in Units, UnitStep(u)
  PROVE  IInv'
<1>. USE WorkflowAssumption
<1>i. /\ TypeOK /\ ReturnedHasResult /\ StagesInOrder /\ FlightInStage /\ TornFailed
      /\ LaterUntouched /\ ReusedNotRun /\ CompletedMeansOver
      /\ workflow = "completed" => phase \in {"closing", "ended"}
  BY DEF IInv
<1>s. /\ UNCHANGED <<phase, workflow, cur, stage, reused, paused, abortedBy, attempt>>
      /\ unit' \in [Units -> UnitRecord]
      /\ \A v \in Units \ {u} : unit'[v] = unit[v]
      /\ task' \in [Tasks -> Settled \cup {"queued", "running"}]
      /\ \A t \in Tasks \ {TaskOf[u]} : task'[t] = task[t]
      /\ \/ task' = task /\ unit'[u].run = unit[u].run
         \/ /\ InFlight(u)
            /\ unit'[u].run \in {"running", "returned", "done"}
            /\ \/ task'[TaskOf[u]] = task[TaskOf[u]]
               \/ task'[TaskOf[u]] = "running" /\ phase = "stage"
                  /\ task[TaskOf[u]] \in {"queued", "running"}
               \/ unit'[u].run = "done" /\ TaskOf[u] \notin Foreach
      /\ unit'[u].run = "returned" => unit'[u].result \in {"completed", "failed"}
  BY <1>i, UnitStepShape
<1>1. TypeOK'
  BY <1>i, <1>s DEF TypeOK
<1>2. ReturnedHasResult'
  BY <1>i, <1>s DEF ReturnedHasResult
<1>c. cur \in Nat /\ StageOf \in [Tasks -> Nat] /\ TaskOf[u] \in Tasks
  BY <1>i DEF TypeOK, Stages
<1>f. InFlight(u) => /\ StageOf[TaskOf[u]] = cur /\ ~reused[TaskOf[u]]
                     /\ phase \in {"stage", "closing", "ended"}
                     /\ Torn(TaskOf[u]) \/ (phase = "stage" /\ task[TaskOf[u]] \notin Settled)
  BY <1>i DEF FlightInStage
<1>n. Torn(TaskOf[u]) => TaskOf[u] \in Foreach /\ task[TaskOf[u]] = "failed"
  BY <1>i DEF Torn, UnitsOf, TornFailed
\* Only a task of the current stage changes, and only while it waits for runs.
<1>k. \A t \in Tasks : task'[t] # task[t] =>
        /\ t = TaskOf[u] /\ StageOf[t] = cur /\ phase = "stage"
        /\ task[t] \notin Settled /\ ~Torn(t)
  BY <1>s, <1>f, <1>n DEF Settled, Over
<1>m. /\ \A v \in Units : unit'[v].run = "broken" <=> unit[v].run = "broken"
      /\ \A t \in Tasks : Torn(t)' <=> Torn(t)
  BY <1>i, UnitStepTorn
<1>8. TornFailed'
  <2>. SUFFICES ASSUME NEW v \in Units, unit[v].run = "broken"
                PROVE  /\ TaskOf[v] \in Foreach /\ StageOf[TaskOf[v]] = cur
                       /\ task'[TaskOf[v]] = "failed" /\ phase \in {"stage", "closing", "ended"}
    BY <1>m, <1>s DEF TornFailed
  <2>1. TaskOf[v] \in Tasks
    OBVIOUS
  <2>. QED BY <2>1, <1>i, <1>k DEF TornFailed, Settled
<1>3. StagesInOrder'
  BY <1>i, <1>s, <1>k, <1>c DEF StagesInOrder
<1>4. FlightInStage'
  <2>. SUFFICES ASSUME NEW v \in Units, InFlight(v)'
                PROVE  /\ StageOf[TaskOf[v]] = cur /\ ~reused[TaskOf[v]]
                       /\ phase \in {"stage", "closing", "ended"}
                       /\ Torn(TaskOf[v]) \/ (phase = "stage" /\ task'[TaskOf[v]] \notin Settled)
    BY <1>s, <1>m DEF FlightInStage
  <2>1. InFlight(v)
    BY <1>s DEF InFlight
  <2>2. /\ StageOf[TaskOf[v]] = cur /\ ~reused[TaskOf[v]]
        /\ phase \in {"stage", "closing", "ended"}
        /\ Torn(TaskOf[v]) \/ (phase = "stage" /\ task[TaskOf[v]] \notin Settled)
    BY <2>1, <1>i DEF FlightInStage
  <2>3. CASE TaskOf[v] # TaskOf[u]
    BY <2>2, <2>3, <1>s
  <2>4. CASE TaskOf[v] = TaskOf[u]
    <3>1. unit'[u].run = "done" /\ TaskOf[u] \notin Foreach => FALSE
      BY <2>4 DEF InFlight
    <3>. QED BY <2>2, <2>4, <3>1, <1>s DEF Settled, Over
  <2>. QED BY <2>3, <2>4
<1>5. LaterUntouched'
  <2>. SUFFICES ASSUME NEW t \in Tasks, ~reused[t],
                       StageOf[t] > cur \/ (StageOf[t] = cur /\ phase \in {"gate", "parked"})
                PROVE  task'[t] = "queued"
    BY <1>s DEF LaterUntouched
  <2>1. task[t] = "queued"
    BY <1>i DEF LaterUntouched
  <2>. QED BY <2>1, <1>k, <1>c
<1>6. ReusedNotRun'
  <2>. SUFFICES ASSUME NEW v \in Units, reused[TaskOf[v]] PROVE unit'[v].run = "idle"
    BY <1>s DEF ReusedNotRun
  <2>1. unit[v].run = "idle"
    BY <1>i DEF ReusedNotRun
  <2>. QED BY <2>1, <1>s, <1>f DEF InFlight
<1>7. CompletedMeansOver'
  BY <1>i, <1>s, <1>k DEF CompletedMeansOver, Settled
<1>. QED BY <1>1, <1>2, <1>3, <1>4, <1>5, <1>6, <1>7, <1>8, <1>i, <1>s DEF IInv

-----------------------------------------------------------------------------
(* The steps of the loop over the stages.                                  *)

\* Steps that only move between the places where nothing runs, or change who
\* paused or aborted the workflow.
LEMMA QuietKeeps ==
  ASSUME IInv, UNCHANGED <<workflow, cur, stage, task, reused, unit, attempt>>,
         paused' \in BOOLEAN, abortedBy' \in {"nobody", "interrupt", "caller"},
         \/ phase' = phase
         \/ phase \in {"gate", "parked"} /\ phase' \in {"gate", "parked"}
         \/ phase = "closing" /\ phase' = "ended"
  PROVE  IInv'
<1>1. TypeOK'
  BY DEF IInv, TypeOK
<1>2. ReturnedHasResult' /\ ReusedNotRun' /\ CompletedMeansOver'
  BY DEF IInv, ReturnedHasResult, ReusedNotRun, CompletedMeansOver
<1>3. StagesInOrder'
  BY DEF IInv, StagesInOrder
<1>4. FlightInStage' /\ TornFailed'
  BY DEF IInv, FlightInStage, InFlight, Torn, UnitsOf, TornFailed
<1>5. LaterUntouched'
  BY DEF IInv, LaterUntouched
<1>6. (workflow = "completed" => phase \in {"closing", "ended"})'
  BY DEF IInv
<1>. QED BY <1>1, <1>2, <1>3, <1>4, <1>5, <1>6 DEF IInv

\* What the steps below start from.
LEMMA Facts ==
  ASSUME IInv
  PROVE  /\ cur \in Stages /\ cur \in Nat /\ Stages \subseteq Nat /\ NumStages \in Nat
         /\ StageOf \in [Tasks -> Stages] /\ TaskOf \in [Units -> Tasks]
         /\ stage \in [Stages -> {"queued", "running", "completed", "failed", "cancelled"}]
         /\ task \in [Tasks -> Settled \cup {"queued", "running"}]
         /\ unit \in [Units -> UnitRecord]
         /\ attempt \in Nat
         /\ phase \in {"gate", "parked"} => \A u \in Units : ~InFlight(u) /\ unit[u].run # "broken"
         /\ phase = "gate" => \A t \in Tasks : ~Torn(t)
BY WorkflowAssumption DEF IInv, TypeOK, Stages, FlightInStage, TornFailed, Torn, UnitsOf

\* A task with a malformed item has failed.
LEMMA TornIsFailed ==
  ASSUME IInv, NEW t \in Tasks, Torn(t)
  PROVE  t \in Foreach /\ StageOf[t] = cur /\ task[t] = "failed"
BY DEF IInv, TornFailed, Torn, UnitsOf

\* Steps that end the stage and with it this attempt: nothing may run any more,
\* except what a malformed item left behind.
LEMMA StageLeftKeeps ==
  ASSUME IInv, UNCHANGED <<cur, task, reused, unit, paused, abortedBy, attempt>>,
         phase \in {"gate", "stage"}, phase' = "closing",
         \A u \in Units : InFlight(u) => Torn(TaskOf[u]),
         workflow' \in {"failed", "cancelled"},
         \A s \in Stages : stage'[s] = stage[s] \/ (s >= cur /\ stage'[s] \in {"failed", "cancelled"}),
         stage' \in [Stages -> {"queued", "running", "completed", "failed", "cancelled"}]
  PROVE  IInv'
<1>1. TypeOK'
  BY DEF IInv, TypeOK
<1>2. ReturnedHasResult' /\ ReusedNotRun' /\ CompletedMeansOver'
  BY DEF IInv, ReturnedHasResult, ReusedNotRun, CompletedMeansOver
<1>3. StagesInOrder'
  <2>1. workflow # "completed"
    BY DEF IInv
  <2>. QED BY <2>1, Facts DEF IInv, StagesInOrder
<1>4. FlightInStage' /\ TornFailed'
  BY DEF IInv, FlightInStage, InFlight, Torn, UnitsOf, TornFailed
<1>5. LaterUntouched'
  BY DEF IInv, LaterUntouched
<1>6. (workflow = "completed" => phase \in {"closing", "ended"})'
  OBVIOUS
<1>. QED BY <1>1, <1>2, <1>3, <1>4, <1>5, <1>6 DEF IInv

\* A stage that is over has no run in flight but those left behind.
LEMMA JoinedMeansQuiet ==
  ASSUME IInv, Joined PROVE \A u \in Units : InFlight(u) => Torn(TaskOf[u])
<1>. SUFFICES ASSUME NEW u \in Units, InFlight(u), ~Torn(TaskOf[u]) PROVE FALSE
  OBVIOUS
<1>1. /\ StageOf[TaskOf[u]] = cur /\ TaskOf[u] \in Tasks
      /\ ~reused[TaskOf[u]] /\ task[TaskOf[u]] \notin Settled
  BY Facts DEF IInv, FlightInStage
<1>. QED BY <1>1 DEF Joined, TasksOf

LEMMA StopsAtGateKeeps == ASSUME IInv, StopsAtGate PROVE IInv'
<1>1. \A u \in Units : InFlight(u) => Torn(TaskOf[u])
  BY Facts DEF StopsAtGate
<1>2. stage' = [stage EXCEPT ![cur] = "cancelled"]
  BY DEF StopsAtGate
<1>f. /\ cur \in Stages /\ cur \in Nat /\ Stages \subseteq Nat
      /\ stage \in [Stages -> {"queued", "running", "completed", "failed", "cancelled"}]
  BY Facts
<1>3. /\ \A s \in Stages : stage'[s] = stage[s] \/ (s >= cur /\ stage'[s] \in {"failed", "cancelled"})
      /\ stage' \in [Stages -> {"queued", "running", "completed", "failed", "cancelled"}]
  <2>1. stage' \in [Stages -> {"queued", "running", "completed", "failed", "cancelled"}]
    BY ONLY <1>2, <1>f
  <2>2. ASSUME NEW s \in Stages
        PROVE  stage'[s] = stage[s] \/ (s >= cur /\ stage'[s] \in {"failed", "cancelled"})
    BY ONLY <1>2, <1>f
  <2>. QED BY <2>1, <2>2
<1>. QED BY <1>1, <1>3, StageLeftKeeps DEF StopsAtGate

LEMMA StageFailsKeeps == ASSUME IInv, StageFails PROVE IInv'
<1>1. \A u \in Units : InFlight(u) => Torn(TaskOf[u])
  BY JoinedMeansQuiet DEF StageFails
<1>2. stage' = [stage EXCEPT ![cur] = "failed"]
  BY DEF StageFails
<1>f. /\ cur \in Stages /\ cur \in Nat /\ Stages \subseteq Nat
      /\ stage \in [Stages -> {"queued", "running", "completed", "failed", "cancelled"}]
  BY Facts
<1>3. /\ \A s \in Stages : stage'[s] = stage[s] \/ (s >= cur /\ stage'[s] \in {"failed", "cancelled"})
      /\ stage' \in [Stages -> {"queued", "running", "completed", "failed", "cancelled"}]
  <2>1. stage' \in [Stages -> {"queued", "running", "completed", "failed", "cancelled"}]
    BY ONLY <1>2, <1>f
  <2>2. ASSUME NEW s \in Stages
        PROVE  stage'[s] = stage[s] \/ (s >= cur /\ stage'[s] \in {"failed", "cancelled"})
    BY ONLY <1>2, <1>f
  <2>. QED BY <2>1, <2>2
<1>. QED BY <1>1, <1>3, StageLeftKeeps DEF StageFails

LEMMA StageCancelledKeeps == ASSUME IInv, StageCancelled PROVE IInv'
<1>1. \A u \in Units : InFlight(u) => Torn(TaskOf[u])
  BY JoinedMeansQuiet DEF StageCancelled
<1>2. stage' = [s \in Stages |-> IF s >= cur THEN "cancelled" ELSE stage[s]]
  BY DEF StageCancelled
<1>f. /\ cur \in Stages /\ cur \in Nat /\ Stages \subseteq Nat
      /\ stage \in [Stages -> {"queued", "running", "completed", "failed", "cancelled"}]
  BY Facts
<1>3. /\ \A s \in Stages : stage'[s] = stage[s] \/ (s >= cur /\ stage'[s] \in {"failed", "cancelled"})
      /\ stage' \in [Stages -> {"queued", "running", "completed", "failed", "cancelled"}]
  <2>1. stage' \in [Stages -> {"queued", "running", "completed", "failed", "cancelled"}]
    BY ONLY <1>2, <1>f
  <2>2. ASSUME NEW s \in Stages
        PROVE  stage'[s] = stage[s] \/ (s >= cur /\ stage'[s] \in {"failed", "cancelled"})
    BY ONLY <1>2, <1>f
  <2>. QED BY <2>1, <2>2
<1>. QED BY <1>1, <1>3, StageLeftKeeps DEF StageCancelled

\* What the start of a stage does to one run: nothing, or it begins to wait for
\* a task that waits for it, or its task has a malformed item.
Launched(u) ==
  /\ TaskOf[u] \in Started
  /\ \/ /\ unit'[u] = [unit[u] EXCEPT !.run = "waiting"]
        /\ task'[TaskOf[u]] \in {"running", "queued"}
     \/ /\ unit'[u] \in {[unit[u] EXCEPT !.run = "waiting"],
                         [unit[u] EXCEPT !.run = "broken"], Begun(TRUE)}
        /\ TaskOf[u] \in Foreach /\ task'[TaskOf[u]] = "failed" /\ Torn(TaskOf[u])'

LEMMA StageStartsShape ==
  ASSUME IInv, StageStarts
  PROVE  /\ task' \in [Tasks -> Settled \cup {"queued", "running"}]
         /\ \A t \in Tasks \ Started : task'[t] = task[t]
         /\ unit' \in [Units -> UnitRecord]
         /\ \A u \in Units : unit'[u] = unit[u] \/ Launched(u)
<1>. USE WorkflowAssumption
<1>f. /\ StageOf \in [Tasks -> Stages] /\ TaskOf \in [Units -> Tasks]
      /\ task \in [Tasks -> Settled \cup {"queued", "running"}]
      /\ unit \in [Units -> UnitRecord]
  BY Facts
<1>v. PICK verdict \in [Started -> {"run", "skipped", "failed"}],
           broken \in SUBSET Units, early \in SUBSET Units :
        LET running == {t \in Started : verdict[t] = "run"}
            torn == {TaskOf[u] : u \in broken}
            launched == {u \in Units : TaskOf[u] \in running \cup torn}
        IN /\ \A t \in torn : t \in Started \cap Foreach /\ verdict[t] = "failed"
           /\ \A u \in early : TaskOf[u] \in torn /\ u \notin broken
           /\ \A u, v \in early : TaskOf[u] = TaskOf[v] => u = v
           /\ task' = [t \in Tasks |->
                IF t \in running THEN (IF t \in Foreach THEN "running" ELSE task[t])
                ELSE IF t \in Started THEN verdict[t] ELSE task[t]]
           /\ unit' = [u \in Units |->
                IF u \in early THEN Begun(TRUE)
                ELSE IF u \in launched
                     THEN [unit[u] EXCEPT !.run = IF u \in broken THEN "broken" ELSE "waiting"]
                ELSE unit[u]]
  BY Zenon DEF StageStarts
<1>. DEFINE running == {t \in Started : verdict[t] = "run"}
            torn == {TaskOf[u] : u \in broken}
<1>r. \A t \in running : t \in Tasks /\ t \in Started /\ task[t] = "queued"
  BY DEF StageStarts, Started, TasksOf, IInv, LaterUntouched
<1>s. \A t \in Started : t \in Tasks
  BY DEF Started, TasksOf
<1>t. /\ \A t \in running : task'[t] \in {"running", "queued"}
      /\ \A t \in Started \ running : task'[t] = verdict[t] /\ verdict[t] \in {"skipped", "failed"}
      /\ \A t \in Tasks \ Started : task'[t] = task[t]
  BY <1>v, <1>r, <1>s
<1>1. task' \in [Tasks -> Settled \cup {"queued", "running"}]
  <2>1. \A t \in Tasks : task'[t] \in Settled \cup {"queued", "running"}
    BY <1>t, <1>f DEF Settled, Over
  <2>2. task' = [t \in Tasks |-> task'[t]]
    BY <1>v
  <2>. QED BY <2>1, <2>2
<1>o. \A t \in torn : t \in Started /\ t \in Foreach /\ t \notin running /\ verdict[t] = "failed"
  BY <1>v
<1>n. \A t \in torn : task'[t] = "failed"
  BY <1>o, <1>t
<1>e. \A u \in early : TaskOf[u] \in torn /\ u \notin broken
  BY <1>v
<1>m. unit' = [u \in Units |->
        IF u \in early THEN Begun(TRUE)
        ELSE IF TaskOf[u] \in running \cup torn
             THEN [unit[u] EXCEPT !.run = IF u \in broken THEN "broken" ELSE "waiting"]
        ELSE unit[u]]
  BY <1>v
<1>b. \A u \in broken : u \in Units /\ TaskOf[u] \in torn
  OBVIOUS
<1>. HIDE DEF running, torn
<1>2. unit' \in [Units -> UnitRecord]
  <2>1. Begun(TRUE) \in UnitRecord
    BY DEF Begun, UnitRecord
  <2>2. ASSUME NEW u \in Units
        PROVE  /\ [unit[u] EXCEPT !.run = "broken"] \in UnitRecord
               /\ [unit[u] EXCEPT !.run = "waiting"] \in UnitRecord
               /\ unit[u] \in UnitRecord
    <3>1. unit[u] \in UnitRecord
      BY <1>f
    <3>. QED BY <3>1 DEF UnitRecord
  <2>3. ASSUME NEW u \in Units PROVE unit'[u] \in UnitRecord
    BY <1>m, <2>1, <2>2
  <2>4. unit' = [u \in Units |-> unit'[u]]
    BY <1>m
  <2>. QED BY <2>3, <2>4
\* The item that is malformed is marked.
<1>3. ASSUME NEW t \in torn PROVE Torn(t)'
  <2>1. PICK w \in broken : TaskOf[w] = t
    BY <1>3 DEF torn
  <2>2. w \in Units /\ TaskOf[w] \in torn /\ w \notin early
    BY <2>1, <1>b, <1>e
  <2>3. unit'[w] = [unit[w] EXCEPT !.run = "broken"]
    BY <2>2, <1>m
  <2>4. unit[w] \in UnitRecord
    BY <2>2, <1>f
  <2>5. unit'[w].run = "broken"
    BY <2>3, <2>4 DEF UnitRecord
  <2>. QED BY <2>1, <2>2, <2>5 DEF Torn, UnitsOf
<1>4. ASSUME NEW u \in Units, unit'[u] # unit[u] PROVE Launched(u)
  <2>1. CASE TaskOf[u] \in torn
    <3>1. unit'[u] \in {[unit[u] EXCEPT !.run = "waiting"],
                        [unit[u] EXCEPT !.run = "broken"], Begun(TRUE)}
      BY <2>1, <1>m
    <3>. QED BY <2>1, <3>1, <1>3, <1>n, <1>o DEF Launched
  <2>2. CASE TaskOf[u] \notin torn
    <3>1. u \notin early /\ u \notin broken
      BY <2>2, <1>e, <1>b
    <3>2. TaskOf[u] \in running /\ unit'[u] = [unit[u] EXCEPT !.run = "waiting"]
      BY <3>1, <2>2, <1>4, <1>m
    <3>. QED BY <3>2, <1>r, <1>t DEF Launched
  <2>. QED BY <2>1, <2>2
<1>. QED BY <1>1, <1>2, <1>4, <1>t

LEMMA StageStartsKeeps == ASSUME IInv, StageStarts PROVE IInv'
<1>. USE WorkflowAssumption
<1>g. /\ phase = "gate" /\ phase' = "stage"
      /\ stage' = [stage EXCEPT ![cur] = "running"]
      /\ UNCHANGED <<workflow, cur, reused, paused, abortedBy, attempt>>
  BY DEF StageStarts
<1>f. /\ cur \in Stages /\ cur \in Nat /\ Stages \subseteq Nat
      /\ StageOf \in [Tasks -> Stages] /\ TaskOf \in [Units -> Tasks]
      /\ stage \in [Stages -> {"queued", "running", "completed", "failed", "cancelled"}]
      /\ unit \in [Units -> UnitRecord]
      /\ \A u \in Units : ~InFlight(u) /\ unit[u].run # "broken"
  BY <1>g, Facts
<1>s. \A t \in Started : t \in Tasks /\ StageOf[t] = cur /\ ~reused[t]
  BY DEF Started, TasksOf
<1>t. /\ task' \in [Tasks -> Settled \cup {"queued", "running"}]
      /\ \A t \in Tasks \ Started : task'[t] = task[t]
      /\ unit' \in [Units -> UnitRecord]
      /\ \A u \in Units : unit'[u] = unit[u] \/ Launched(u)
  BY StageStartsShape
\* What is launched: its new place, and what its task waits for.
<1>u. ASSUME NEW u \in Units, Launched(u)
      PROVE  /\ StageOf[TaskOf[u]] = cur /\ ~reused[TaskOf[u]]
             /\ unit'[u].run \in {"waiting", "broken", "running"}
             /\ \/ unit'[u].run = "waiting" /\ task'[TaskOf[u]] \notin Settled
                \/ /\ Torn(TaskOf[u])' /\ TaskOf[u] \in Foreach
                   /\ task'[TaskOf[u]] = "failed"
  <2>1. unit[u] \in UnitRecord
    BY <1>f
  <2>2. /\ [unit[u] EXCEPT !.run = "waiting"].run = "waiting"
        /\ [unit[u] EXCEPT !.run = "broken"].run = "broken"
        /\ Begun(TRUE).run = "running"
    BY <2>1 DEF UnitRecord, Begun
  <2>3. StageOf[TaskOf[u]] = cur /\ ~reused[TaskOf[u]]
    BY <1>u, <1>s DEF Launched
  <2>4. CASE /\ unit'[u] = [unit[u] EXCEPT !.run = "waiting"]
             /\ task'[TaskOf[u]] \in {"running", "queued"}
    BY <2>2, <2>3, <2>4 DEF Settled, Over
  <2>5. CASE /\ unit'[u] \in {[unit[u] EXCEPT !.run = "waiting"],
                              [unit[u] EXCEPT !.run = "broken"], Begun(TRUE)}
             /\ TaskOf[u] \in Foreach /\ task'[TaskOf[u]] = "failed" /\ Torn(TaskOf[u])'
    BY <2>2, <2>3, <2>5
  <2>. QED BY <1>u, <2>4, <2>5 DEF Launched
<1>1. TypeOK'
  BY <1>g, <1>f, <1>t DEF IInv, TypeOK
<1>2. ReturnedHasResult'
  <2>. SUFFICES ASSUME NEW u \in Units, unit'[u].run = "returned"
                PROVE  unit'[u].result \in {"completed", "failed"}
    BY DEF ReturnedHasResult
  <2>1. unit'[u] = unit[u]
    BY <1>t, <1>u
  <2>. QED BY <2>1 DEF IInv, ReturnedHasResult
<1>3. StagesInOrder'
  <2>1. \A t \in Tasks : StageOf[t] < cur => task'[t] \in Over
    BY <1>t, <1>s, <1>f DEF IInv, StagesInOrder
  <2>. QED BY <2>1, <1>g, <1>f DEF IInv, StagesInOrder
<1>4. FlightInStage'
  <2>. SUFFICES ASSUME NEW u \in Units, InFlight(u)'
                PROVE  /\ StageOf[TaskOf[u]] = cur /\ ~reused[TaskOf[u]]
                       /\ Torn(TaskOf[u])' \/ task'[TaskOf[u]] \notin Settled
    BY <1>g DEF FlightInStage
  <2>1. Launched(u)
    BY <1>t, <1>f DEF InFlight
  <2>. QED BY <2>1, <1>u
<1>8. TornFailed'
  <2>. SUFFICES ASSUME NEW u \in Units, unit'[u].run = "broken"
                PROVE  /\ TaskOf[u] \in Foreach /\ StageOf[TaskOf[u]] = cur
                       /\ task'[TaskOf[u]] = "failed"
    BY <1>g DEF TornFailed
  <2>1. Launched(u)
    BY <1>t, <1>f
  <2>. QED BY <2>1, <1>u
<1>5. LaterUntouched'
  <2>. SUFFICES ASSUME NEW t \in Tasks, ~reused[t], StageOf[t] > cur
                PROVE  task'[t] = "queued"
    BY <1>g DEF LaterUntouched
  <2>1. t \notin Started
    BY <1>s, <1>f
  <2>2. task[t] = "queued"
    BY <1>g DEF IInv, LaterUntouched
  <2>. QED BY <2>1, <2>2, <1>t
<1>6. ReusedNotRun'
  <2>. SUFFICES ASSUME NEW u \in Units, reused[TaskOf[u]] PROVE unit'[u].run = "idle"
    BY <1>g DEF ReusedNotRun
  <2>1. unit'[u] = unit[u]
    BY <1>t, <1>u
  <2>. QED BY <2>1 DEF IInv, ReusedNotRun
<1>7. (workflow = "completed" => phase \in {"closing", "ended"})' /\ CompletedMeansOver'
  BY <1>g DEF IInv, CompletedMeansOver
<1>. QED BY <1>1, <1>2, <1>3, <1>4, <1>5, <1>6, <1>7, <1>8 DEF IInv

\* All items of a foreach are done, so that nothing of it is in flight.
LEMMA ForeachJoinsKeeps ==
  ASSUME IInv, NEW t \in Tasks, ForeachJoins(t) PROVE IInv'
<1>f. /\ cur \in Stages /\ cur \in Nat /\ Stages \subseteq Nat
      /\ StageOf \in [Tasks -> Stages] /\ TaskOf \in [Units -> Tasks]
      /\ task \in [Tasks -> Settled \cup {"queued", "running"}]
  BY Facts
<1>g. /\ phase = "stage" /\ StageOf[t] = cur
      /\ \A u \in Units : TaskOf[u] = t => unit[u].run = "done"
      /\ UNCHANGED <<phase, workflow, cur, stage, reused, unit, paused, abortedBy, attempt>>
  BY DEF ForeachJoins, UnitsOf
<1>p. PICK st \in {"cancelled", "completed", "failed"} : task' = [task EXCEPT ![t] = st]
  BY Zenon DEF ForeachJoins
<1>t. /\ task' \in [Tasks -> Settled \cup {"queued", "running"}]
      /\ \A k \in Tasks \ {t} : task'[k] = task[k]
  BY <1>f, <1>p DEF Settled, Over
<1>1. TypeOK'
  BY <1>g, <1>t DEF IInv, TypeOK
<1>2. ReturnedHasResult' /\ ReusedNotRun'
  BY <1>g DEF IInv, ReturnedHasResult, ReusedNotRun
<1>3. StagesInOrder'
  BY <1>f, <1>g, <1>t DEF IInv, StagesInOrder
<1>m. \A k \in Tasks : Torn(k)' <=> Torn(k)
  BY <1>g DEF Torn, UnitsOf
<1>4. FlightInStage'
  <2>. SUFFICES ASSUME NEW u \in Units, InFlight(u)
                PROVE  /\ StageOf[TaskOf[u]] = cur /\ ~reused[TaskOf[u]]
                       /\ Torn(TaskOf[u]) \/ task'[TaskOf[u]] \notin Settled
    BY <1>f, <1>g, <1>m DEF FlightInStage, InFlight
  <2>1. TaskOf[u] # t
    BY <1>g DEF InFlight
  <2>. QED BY <2>1, <1>f, <1>t DEF IInv, FlightInStage
<1>7. TornFailed'
  <2>. SUFFICES ASSUME NEW u \in Units, unit[u].run = "broken"
                PROVE  task'[TaskOf[u]] = "failed"
    BY <1>g DEF IInv, TornFailed
  <2>1. TaskOf[u] # t
    BY <1>g
  <2>. QED BY <2>1, <1>f, <1>t DEF IInv, TornFailed
<1>5. LaterUntouched'
  BY <1>f, <1>g, <1>t DEF IInv, LaterUntouched
<1>6. (workflow = "completed" => phase \in {"closing", "ended"})' /\ CompletedMeansOver'
  BY <1>g DEF IInv, CompletedMeansOver
<1>. QED BY <1>1, <1>2, <1>3, <1>4, <1>5, <1>6, <1>7 DEF IInv

LEMMA StageCompletesKeeps == ASSUME IInv, StageCompletes PROVE IInv'
<1>. USE WorkflowAssumption
<1>f. /\ cur \in Stages /\ cur \in Nat /\ NumStages \in Nat /\ Stages = 1..NumStages
      /\ StageOf \in [Tasks -> Stages]
      /\ stage \in [Stages -> {"queued", "running", "completed", "failed", "cancelled"}]
  BY Facts DEF Stages
<1>q. \A u \in Units : ~InFlight(u) /\ unit[u].run # "broken"
  <2>. SUFFICES ASSUME NEW u \in Units PROVE ~Torn(TaskOf[u]) /\ unit[u].run # "broken"
    BY JoinedMeansQuiet DEF StageCompletes, StageDone
  <2>1. TaskOf[u] \in Tasks
    OBVIOUS
  <2>2. ~Torn(TaskOf[u])
    BY <2>1, TornIsFailed DEF StageCompletes, StageDone, StageOver, TasksOf, Over
  <2>. QED BY <2>2 DEF Torn, UnitsOf
<1>g. /\ phase = "stage" /\ workflow # "completed"
      /\ stage' = [stage EXCEPT ![cur] = "completed"]
      /\ UNCHANGED <<task, reused, unit, paused, abortedBy, attempt>>
  BY DEF StageCompletes, IInv
<1>o. \A t \in Tasks : StageOf[t] <= cur => task[t] \in Over
  <2>1. \A t \in Tasks : StageOf[t] = cur => task[t] \in Over
    BY DEF StageCompletes, StageDone, StageOver, TasksOf
  <2>2. \A t \in Tasks : StageOf[t] < cur => task[t] \in Over
    BY DEF IInv, StagesInOrder
  <2>. QED BY <2>1, <2>2, <1>f
<1>s. /\ \A s \in Stages : s <= cur => stage'[s] = "completed"
      /\ \A s \in Stages : s > cur => stage'[s] # "completed"
      /\ stage' \in [Stages -> {"queued", "running", "completed", "failed", "cancelled"}]
  BY <1>f, <1>g DEF IInv, StagesInOrder
<1>2. ReturnedHasResult' /\ ReusedNotRun'
  BY <1>g, <1>f DEF IInv, ReturnedHasResult, ReusedNotRun
<1>4. FlightInStage' /\ TornFailed'
  BY <1>q, <1>g DEF FlightInStage, InFlight, TornFailed
<1>a. CASE LastStage
  <2>1. cur = NumStages /\ workflow' = "completed" /\ phase' = "closing" /\ cur' = cur
    BY <1>a DEF StageCompletes, LastStage
  <2>2. TypeOK'
    BY <2>1, <1>g, <1>s DEF IInv, TypeOK
  <2>3. StagesInOrder'
    BY <2>1, <1>f, <1>g, <1>s, <1>o DEF StagesInOrder
  <2>4. LaterUntouched'
    BY <2>1, <1>f, <1>g DEF IInv, LaterUntouched
  <2>5. CompletedMeansOver'
    BY <2>1, <1>f, <1>g, <1>s, <1>o DEF CompletedMeansOver
  <2>. QED BY <2>1, <2>2, <2>3, <2>4, <2>5, <1>2, <1>4 DEF IInv
<1>b. CASE ~LastStage
  <2>1. cur # NumStages /\ workflow' = workflow /\ phase' = "gate" /\ cur' = cur + 1
    BY <1>b DEF StageCompletes, LastStage
  <2>2. TypeOK'
    BY <2>1, <1>f, <1>g, <1>s DEF IInv, TypeOK
  <2>3. StagesInOrder'
    BY <2>1, <1>f, <1>g, <1>s, <1>o DEF StagesInOrder
  <2>4. LaterUntouched'
    BY <2>1, <1>f, <1>g DEF IInv, LaterUntouched
  <2>5. CompletedMeansOver'
    BY <2>1, <1>g DEF CompletedMeansOver
  <2>. QED BY <2>1, <2>2, <2>3, <2>4, <2>5, <1>2, <1>4, <1>g DEF IInv
<1>. QED BY <1>a, <1>b

LEMMA BeginKeeps ==
  ASSUME IInv, NEW from \in Stages, NEW kept \in SUBSET Tasks, Begin(from, kept)
  PROVE  IInv'
<1>f. /\ from \in Nat /\ Stages = 1..NumStages /\ NumStages \in Nat
      /\ StageOf \in [Tasks -> Stages] /\ TaskOf \in [Units -> Tasks]
      /\ task \in [Tasks -> Settled \cup {"queued", "running"}]
      /\ attempt \in Nat
  BY Facts DEF Stages
<1>g. /\ \A s \in 1..from-1 : stage[s] = "completed" /\ \A t \in TasksOf(s) : task[t] \in Over
      /\ attempt' = attempt + 1
      /\ phase' = "gate" /\ workflow' = "running" /\ cur' = from
      /\ stage' = [s \in Stages |-> IF s < from THEN "completed" ELSE "queued"]
      /\ reused' = [t \in Tasks |-> StageOf[t] < from \/ t \in kept]
      /\ task' = [t \in Tasks |-> IF reused'[t] THEN task[t] ELSE "queued"]
      /\ unit' = [u \in Units |-> NoRun]
      /\ paused' = FALSE /\ abortedBy' = "nobody"
  BY DEF Begin, StagesFrom
<1>r. reused' \in [Tasks -> BOOLEAN] /\ \A t \in Tasks : StageOf[t] < from => reused'[t]
  BY <1>g
<1>t. /\ task' \in [Tasks -> Settled \cup {"queued", "running"}]
      /\ \A t \in Tasks : reused'[t] => task'[t] = task[t]
      /\ \A t \in Tasks : ~reused'[t] => task'[t] = "queued"
  BY <1>g, <1>f
<1>u. unit' \in [Units -> UnitRecord] /\ \A u \in Units : unit'[u].run = "idle"
  BY <1>g DEF NoRun, UnitRecord
<1>1. TypeOK'
  <2>1. stage' \in [Stages -> {"queued", "running", "completed", "failed", "cancelled"}]
    BY <1>g
  <2>2. attempt' \in Nat /\ cur' \in Stages
    BY <1>f, <1>g
  <2>. QED BY <2>1, <2>2, <1>g, <1>r, <1>t, <1>u DEF TypeOK
<1>2. ReturnedHasResult' /\ ReusedNotRun' /\ FlightInStage' /\ TornFailed'
  BY <1>u DEF ReturnedHasResult, ReusedNotRun, FlightInStage, InFlight, TornFailed
<1>3. StagesInOrder'
  <2>1. \A t \in Tasks : StageOf[t] < from => task[t] \in Over
    <3>. SUFFICES ASSUME NEW t \in Tasks, StageOf[t] < from PROVE task[t] \in Over
      OBVIOUS
    <3>1. StageOf[t] \in 1..from-1
      BY <1>f
    <3>. QED BY <3>1, <1>g DEF TasksOf
  <2>2. \A t \in Tasks : StageOf[t] < from => task'[t] \in Over
    BY <2>1, <1>r, <1>t
  <2>. QED BY <2>2, <1>f, <1>g DEF StagesInOrder
<1>5. LaterUntouched'
  BY <1>t DEF LaterUntouched
<1>6. (workflow = "completed" => phase \in {"closing", "ended"})' /\ CompletedMeansOver'
  BY <1>g DEF CompletedMeansOver
<1>. QED BY <1>1, <1>2, <1>3, <1>5, <1>6 DEF IInv

-----------------------------------------------------------------------------
LEMMA InitInvariant == Init => IInv
<1>. SUFFICES ASSUME Init PROVE IInv
  OBVIOUS
<1>. USE WorkflowAssumption
<1>u. unit \in [Units -> UnitRecord] /\ \A u \in Units : unit[u].run = "idle"
  BY DEF Init, NoRun, UnitRecord
<1>1. TypeOK
  <2>1. stage \in [Stages -> {"queued", "running", "completed", "failed", "cancelled"}]
    BY DEF Init
  <2>2. task \in [Tasks -> Settled \cup {"queued", "running"}] /\ reused \in [Tasks -> BOOLEAN]
    BY DEF Init
  <2>3. cur \in Stages /\ attempt \in Nat
    BY DEF Init, Stages
  <2>. QED BY <2>1, <2>2, <2>3, <1>u DEF Init, TypeOK
<1>2. ReturnedHasResult /\ ReusedNotRun /\ FlightInStage /\ TornFailed
  BY <1>u DEF ReturnedHasResult, ReusedNotRun, FlightInStage, InFlight, TornFailed
<1>3. StagesInOrder
  <2>1. \A t \in Tasks : StageOf[t] \in 1..NumStages
    OBVIOUS
  <2>. QED BY <2>1 DEF Init, StagesInOrder, Stages
<1>4. LaterUntouched /\ CompletedMeansOver
  BY DEF Init, LaterUntouched, CompletedMeansOver
<1>. QED BY <1>1, <1>2, <1>3, <1>4 DEF IInv, Init

LEMMA StepInvariant == IInv /\ [Next]_vars => IInv'
<1>. SUFFICES ASSUME IInv, [Next]_vars PROVE IInv'
  OBVIOUS
<1>t. paused \in BOOLEAN /\ abortedBy \in {"nobody", "interrupt", "caller"}
  BY DEF IInv, TypeOK
<1>1. CASE \E u \in Units : UnitStep(u)
  BY <1>1, UnitStepKeeps
<1>2. CASE Parks
  BY <1>2, <1>t, QuietKeeps DEF Parks
<1>3. CASE StopsAtGate
  BY <1>3, StopsAtGateKeeps
<1>4. CASE StageStarts
  BY <1>4, StageStartsKeeps
<1>5. CASE \E t \in Tasks : ForeachJoins(t)
  BY <1>5, ForeachJoinsKeeps
<1>6. CASE StageCancelled
  BY <1>6, StageCancelledKeeps
<1>7. CASE StageFails
  BY <1>7, StageFailsKeeps
<1>8. CASE StageCompletes
  BY <1>8, StageCompletesKeeps
<1>9. CASE Ends
  BY <1>9, <1>t, QuietKeeps DEF Ends
<1>10. CASE PauseWorkflow
  BY <1>10, <1>t, QuietKeeps DEF PauseWorkflow
<1>11. CASE ResumeWorkflow
  BY <1>11, <1>t, QuietKeeps DEF ResumeWorkflow, Woken
<1>12. CASE InterruptWorkflow
  BY <1>12, <1>t, QuietKeeps DEF InterruptWorkflow, Woken
<1>13. CASE CallerAborts
  BY <1>13, <1>t, QuietKeeps DEF CallerAborts
<1>14. CASE RetryWorkflow
  BY <1>14, BeginKeeps DEF RetryWorkflow
<1>15. CASE \E t \in Tasks : RetryTask(t)
  <2>. PICK t \in Tasks : RetryTask(t)
    BY <1>15
  <2>1. StageOf[t] \in Stages /\ TasksOf(StageOf[t]) \ {t} \in SUBSET Tasks
    BY Facts DEF TasksOf
  <2>. QED BY <2>1, BeginKeeps DEF RetryTask
<1>16. CASE UNCHANGED vars
  BY <1>16, <1>t, QuietKeeps DEF vars
<1>. QED
  BY <1>1, <1>2, <1>3, <1>4, <1>5, <1>6, <1>7, <1>8, <1>9, <1>10, <1>11, <1>12,
     <1>13, <1>14, <1>15, <1>16 DEF Next, ControlStep

(* The invariant holds in every reachable state, for any tasks, stages,    *)
(* runs and number of attempts.                                            *)
THEOREM WorkflowInvariance == Spec => []IInv
BY InitInvariant, StepInvariant, PTL DEF Spec

(* Types: the fields of WorkflowRun keep to their values.                  *)
THEOREM WorkflowTypeCorrect == Spec => []TypeOK
<1>1. IInv => TypeOK
  BY DEF IInv
<1>. QED BY <1>1, WorkflowInvariance, PTL

(* Nothing of a later stage starts before the earlier ones are over, and a *)
(* run outlives its stage only when an item of its task was malformed; the *)
(* stage is then not completed, and no other stage follows.                *)
THEOREM StagesAreGates == Spec => []StageGate
<1>1. IInv => StageGate
  <2>. SUFFICES ASSUME IInv, NEW u \in Units, InFlight(u)
                PROVE  LET s == StageOf[TaskOf[u]]
                       IN /\ cur = s
                          /\ \/ phase = "stage" /\ stage[s] = "running"
                             \/ Torn(TaskOf[u]) /\ stage[s] # "completed"
                          /\ \A t \in Tasks : StageOf[t] < s => task[t] \in Over
                          /\ \A r \in 1..s-1 : stage[r] = "completed"
    BY DEF StageGate
  <2>1. /\ StageOf[TaskOf[u]] = cur /\ TaskOf[u] \in Tasks
        /\ Torn(TaskOf[u]) \/ phase = "stage"
    BY Facts DEF IInv, FlightInStage
  <2>2. \A r \in 1..cur-1 : r \in Stages /\ r < cur
    BY Facts DEF Stages
  <2>3. Torn(TaskOf[u]) => stage[cur] # "completed"
    <3>. SUFFICES ASSUME Torn(TaskOf[u]) PROVE stage[cur] # "completed"
      OBVIOUS
    <3>1. task[TaskOf[u]] = "failed"
      BY <2>1, TornIsFailed
    <3>2. workflow # "completed"
      BY <3>1, <2>1 DEF IInv, CompletedMeansOver, Over
    <3>. QED BY <3>2, Facts DEF IInv, StagesInOrder
  <2>. QED BY <2>1, <2>2, <2>3 DEF IInv, StagesInOrder
<1>. QED BY <1>1, WorkflowInvariance, PTL

(* A workflow that reports "completed" left no stage and no task out, also *)
(* after retries that reuse what earlier attempts did.                     *)
THEOREM CompletionIsWhole == Spec => []CompletedMeansOver
<1>1. IInv => CompletedMeansOver
  BY DEF IInv
<1>. QED BY <1>1, WorkflowInvariance, PTL

(* A task that a retry reuses is not started again.                        *)
THEOREM ReuseIsFree == Spec => []ReusedNotRun
<1>1. IInv => ReusedNotRun
  BY DEF IInv
<1>. QED BY <1>1, WorkflowInvariance, PTL

-----------------------------------------------------------------------------
(* What a step may never do.                                               *)

\* Steps of runs and of those who pause or abort leave stages alone.
LEMMA StagesUntouched ==
  ASSUME IInv,
         \/ \E u \in Units : UnitStep(u)
         \/ Parks \/ Ends \/ \E t \in Tasks : ForeachJoins(t)
         \/ PauseWorkflow \/ ResumeWorkflow \/ InterruptWorkflow \/ CallerAborts
         \/ UNCHANGED vars
  PROVE  stage' = stage /\ workflow' = workflow
<1>1. CASE \E u \in Units : UnitStep(u)
  BY <1>1, UnitStepShape DEF IInv
<1>. QED
  BY <1>1 DEF Parks, Ends, ForeachJoins, PauseWorkflow, ResumeWorkflow,
              InterruptWorkflow, CallerAborts, vars

\* Another attempt starts at the current stage, unless all were completed.
LEMMA BeginKeepsStages ==
  ASSUME IInv, NEW from \in Stages, NEW kept, Begin(from, kept),
         workflow # "completed", from >= cur,
         NEW s \in Stages, stage[s] = "completed"
  PROVE  stage'[s] = "completed"
<1>1. s \in Nat /\ cur \in Nat /\ from \in Nat
  BY Facts
<1>2. s < cur
  BY <1>1 DEF IInv, StagesInOrder
<1>. QED BY <1>1, <1>2 DEF Begin, StagesFrom

LEMMA StepKeepsCompleted ==
  ASSUME IInv, [Next]_vars, NEW s \in Stages,
         stage[s] = "completed", workflow # "completed"
  PROVE  stage'[s] = "completed"
<1>f. /\ cur \in Nat /\ cur \in Stages /\ s \in Nat /\ Stages \subseteq Nat
      /\ stage \in [Stages -> {"queued", "running", "completed", "failed", "cancelled"}]
  BY Facts
<1>s. s < cur
  BY <1>f DEF IInv, StagesInOrder
<1>1. CASE StopsAtGate \/ StageStarts \/ StageFails \/ StageCompletes
  <2>1. \E status : stage' = [stage EXCEPT ![cur] = status]
    BY <1>1, Zenon DEF StopsAtGate, StageStarts, StageFails, StageCompletes
  <2>. QED BY <2>1, <1>f, <1>s
<1>2. CASE StageCancelled
  BY <1>2, <1>f, <1>s DEF StageCancelled
<1>3. CASE RetryWorkflow
  <2>. PICK from \in Stages : FirstIncomplete(from) /\ Begin(from, {})
    BY <1>3 DEF RetryWorkflow
  <2>1. stage[cur] # "completed"
    BY <1>f DEF IInv, StagesInOrder
  <2>2. from >= cur
    <3>1. CASE from < cur
      <4>1. stage[from] = "completed"
        BY <3>1, <1>f DEF IInv, StagesInOrder
      <4>. QED BY <2>1, <4>1, <1>f DEF FirstIncomplete
    <3>. QED BY <3>1, <1>f
  <2>. QED BY <2>2, BeginKeepsStages
<1>4. CASE \E t \in Tasks : RetryTask(t)
  <2>. PICK t \in Tasks : RetryTask(t)
    BY <1>4
  <2>1. StageOf[t] \in Stages /\ StageOf[t] \in Nat
    BY Facts
  <2>2. StageOf[t] >= cur
    BY <2>1, <1>f DEF RetryTask, IInv, StagesInOrder
  <2>. QED BY <2>1, <2>2, BeginKeepsStages DEF RetryTask
<1>. QED
  BY <1>1, <1>2, <1>3, <1>4, StagesUntouched DEF Next, ControlStep

LEMMA StepNotLate ==
  ASSUME IInv, [Next]_vars, aborted
  PROVE  /\ workflow # "completed" => workflow' # "completed"
         /\ \A s \in Stages :
              attempt' = attempt /\ stage[s] # "completed" => stage'[s] # "completed"
<1>f. /\ cur \in Stages /\ attempt \in Nat
      /\ stage \in [Stages -> {"queued", "running", "completed", "failed", "cancelled"}]
  BY Facts
<1>1. CASE StopsAtGate \/ StageFails
  BY <1>1, <1>f DEF StopsAtGate, StageFails
<1>2. CASE StageCancelled
  BY <1>2, <1>f DEF StageCancelled
<1>3. CASE StageStarts \/ StageCompletes
  BY <1>3 DEF StageStarts, StageCompletes, StageDone
<1>4. CASE RetryWorkflow \/ \E t \in Tasks : RetryTask(t)
  <2>1. attempt' = attempt + 1 /\ workflow' = "running"
    BY <1>4 DEF RetryWorkflow, RetryTask, Begin
  <2>. QED BY <2>1, <1>f
<1>. QED
  BY <1>1, <1>2, <1>3, <1>4, StagesUntouched DEF Next, ControlStep

(* A completed stage stays completed through failures, aborts and retries, *)
(* so that a retry never repeats it.                                       *)
THEOREM CompletedForGood == Spec => CompletedStays
<1>1. IInv /\ [Next]_vars =>
        [\A s \in Stages :
           stage[s] = "completed" /\ workflow # "completed" => stage'[s] = "completed"]_vars
  BY StepKeepsCompleted
<1>. QED BY <1>1, WorkflowInvariance, PTL DEF Spec, CompletedStays

(* Once aborted, neither a stage nor the workflow becomes completed.       *)
THEOREM NothingCompletesLate == Spec => NoLateCompletion
<1>1. IInv /\ [Next]_vars =>
        [aborted => /\ workflow # "completed" => workflow' # "completed"
                    /\ \A s \in Stages : attempt' = attempt /\ stage[s] # "completed"
                                           => stage'[s] # "completed"]_vars
  BY StepNotLate
<1>. QED BY <1>1, WorkflowInvariance, PTL DEF Spec, NoLateCompletion

-----------------------------------------------------------------------------
(* The sessions at the end of the workflow.                                *)

\* Nothing was run yet for the stages to come; a run that completed is known by
\* the id of its session once its result was taken; nothing that
\* closeWorkflowSessions can find is left when the workflow has ended.  The runs
\* of a task with a malformed item are left out: nobody keeps their results.
LaterIdle ==
  \A u \in Units :
    \/ StageOf[TaskOf[u]] > cur
    \/ StageOf[TaskOf[u]] = cur /\ phase \in {"gate", "parked"}
    => unit[u] = NoRun

CompletedIsNamed ==
  \A u \in Units :
    unit[u].result = "completed" =>
      unit[u].run = "returned" \/ (unit[u].run = "done" /\ (unit[u].named \/ Torn(TaskOf[u])))

NoneLeft == phase = "ended" => ToClose = {}

SessionsInv == LaterIdle /\ CompletedIsNamed /\ NoneLeft

\* After the stage no run gets a session that closeWorkflowSessions could find.
LEMMA NothingNamedLate ==
  ASSUME IInv, NEW u \in Units, UnitStep(u), phase # "stage",
         unit'[u].named, unit'[u].session = "open"
  PROVE  unit[u].named /\ unit[u].session = "open"
<1>. USE WorkflowAssumption
<1>f. unit \in [Units -> UnitRecord] /\ unit[u] \in UnitRecord
      /\ (InFlight(u) => Torn(TaskOf[u]))
  BY Facts DEF IInv, FlightInStage
<1>1. CASE RunStarts(u)
  <2>1. unit' = [unit EXCEPT ![u] =
                  [run |-> "running", result |-> "none", session |-> "open", named |-> FALSE]]
    BY <1>1, Zenon DEF RunStarts, Begun, Noted
  <2>. QED BY <2>1, <1>f
<1>2. CASE RunRefused(u)
  <2>. DEFINE result == IF aborted THEN "cancelled" ELSE "failed"
  <2>1. unit' = [unit EXCEPT ![u] = [unit[u] EXCEPT !.run = "done", !.result = result]]
    BY <1>2, Zenon DEF RunRefused, Settle
  <2>. HIDE DEF result
  <2>2. unit'[u] = [unit[u] EXCEPT !.run = "done", !.result = result]
    BY <2>1, <1>f
  <2>. QED BY <2>2, <1>f DEF UnitRecord
<1>3. CASE \E result \in {"completed", "failed"} : RunReturns(u, result)
  <2>. PICK result \in {"completed", "failed"} : RunReturns(u, result)
    BY <1>3
  <2>1. unit'[u] = [unit[u] EXCEPT !.run = "returned", !.result = result]
    BY <1>f DEF RunReturns
  <2>. QED BY <2>1, <1>f DEF UnitRecord
<1>4. CASE ResultTaken(u)
  <2>. DEFINE result == IF aborted THEN "cancelled" ELSE unit[u].result
              known == unit[u].named \/ ~Torn(TaskOf[u])
  <2>1. unit' = [unit EXCEPT ![u] =
                  [unit[u] EXCEPT !.run = "done", !.named = known, !.result = result]]
    BY <1>4, Zenon DEF ResultTaken, Settle
  <2>2. Torn(TaskOf[u])
    BY <1>4, <1>f DEF ResultTaken, InFlight
  <2>3. known => unit[u].named
    BY <2>2
  <2>. HIDE DEF result, known
  <2>4. unit'[u] = [unit[u] EXCEPT !.run = "done", !.named = known, !.result = result]
    BY <2>1, <1>f
  <2>5. unit'[u].named = known /\ unit'[u].session = unit[u].session
    BY <2>4, <1>f DEF UnitRecord
  <2>. QED BY <2>3, <2>5
<1>5. CASE \E session \in {"open", "gone"} : RunThrows(u, session)
  <2>. PICK session \in {"open", "gone"} : RunThrows(u, session)
    BY <1>5
  <2>. DEFINE result == IF aborted THEN "cancelled" ELSE "failed"
              known == TaskOf[u] \in Foreach /\ unit[u].named
  <2>1. unit' = [unit EXCEPT ![u] =
                  [run |-> "done", session |-> session, result |-> result, named |-> known]]
    BY Zenon DEF RunThrows, Settle
  <2>2. (session = "open" => unit[u].session = "open") /\ (known => unit[u].named)
    BY DEF RunThrows
  <2>. HIDE DEF result, known
  <2>3. unit'[u].named = known /\ unit'[u].session = session
    BY <2>1, <1>f
  <2>. QED BY <2>2, <2>3
<1>6. CASE SessionCloses(u)
  BY <1>6 DEF SessionCloses, ToClose
<1>. QED
  BY <1>1, <1>2, <1>3, <1>4, <1>5, <1>6 DEF UnitStep

LEMMA UnitStepSessions ==
  ASSUME IInv, SessionsInv, NEW u \in Units, UnitStep(u)
  PROVE  SessionsInv'
<1>. USE WorkflowAssumption
<1>f. /\ unit \in [Units -> UnitRecord] /\ cur \in Nat
      /\ StageOf[TaskOf[u]] \in Nat /\ TaskOf[u] \in Tasks
      /\ InFlight(u) => phase \in {"stage", "closing", "ended"} /\ StageOf[TaskOf[u]] = cur
  BY Facts DEF IInv, FlightInStage, Stages
<1>u. unit[u] \in UnitRecord
  BY <1>f
<1>s. /\ UNCHANGED <<phase, workflow, cur, stage, reused, paused, abortedBy, attempt>>
      /\ \A v \in Units \ {u} : unit'[v] = unit[v]
  BY UnitStepShape DEF IInv
<1>m. \A t \in Tasks : Torn(t)' <=> Torn(t)
  BY UnitStepTorn DEF IInv
<1>g. \/ phase \in {"stage", "closing", "ended"} /\ StageOf[TaskOf[u]] = cur
      \/ phase = "closing" /\ unit[u].session = "open"
  BY <1>f, <1>s DEF UnitStep, RunStarts, RunRefused, RunReturns, ResultTaken, RunThrows, SessionCloses,
     ToClose, InFlight
<1>1. LaterIdle'
  <2>. SUFFICES ASSUME NEW v \in Units,
                       \/ StageOf[TaskOf[v]] > cur
                       \/ StageOf[TaskOf[v]] = cur /\ phase \in {"gate", "parked"}
                PROVE  unit'[v] = NoRun
    BY <1>s DEF LaterIdle
  <2>1. unit[v] = NoRun
    BY DEF SessionsInv, LaterIdle
  <2>2. v # u
    <3>1. CASE phase \in {"stage", "closing", "ended"} /\ StageOf[TaskOf[u]] = cur
      BY <3>1, <1>f
    <3>2. CASE phase = "closing" /\ unit[u].session = "open"
      BY <3>2, <2>1 DEF NoRun
    <3>. QED BY <1>g, <3>1, <3>2
  <2>. QED BY <2>1, <2>2, <1>s
<1>2. CompletedIsNamed'
  <2>. SUFFICES ASSUME unit'[u].result = "completed"
                PROVE  \/ unit'[u].run = "returned"
                       \/ unit'[u].run = "done" /\ (unit'[u].named \/ Torn(TaskOf[u]))
    <3>1. \A v \in Units \ {u} : unit'[v].result = "completed" =>
            \/ unit'[v].run = "returned"
            \/ unit'[v].run = "done" /\ (unit'[v].named \/ Torn(TaskOf[v])')
      BY <1>s, <1>m DEF SessionsInv, CompletedIsNamed
    <3>. QED BY <3>1, <1>f, <1>m DEF CompletedIsNamed
  <2>1. CASE RunStarts(u)
    <3>. DEFINE noted == Noted(u)
    <3>1. unit' = [unit EXCEPT ![u] =
            [run |-> "running", result |-> "none", session |-> "open", named |-> noted]]
      BY <2>1, Zenon DEF RunStarts, Begun
    <3>. HIDE DEF noted
    <3>. QED BY <3>1, <1>f
  <2>2. CASE RunRefused(u)
    <3>. DEFINE result == IF aborted THEN "cancelled" ELSE "failed"
    <3>1. unit' = [unit EXCEPT ![u] = [unit[u] EXCEPT !.run = "done", !.result = result]]
      BY <2>2, Zenon DEF RunRefused, Settle
    <3>2. result # "completed"
      OBVIOUS
    <3>. HIDE DEF result
    <3>3. unit'[u] = [unit[u] EXCEPT !.run = "done", !.result = result]
      BY <3>1, <1>f
    <3>4. unit'[u].result = result
      BY <3>3, <1>u DEF UnitRecord
    <3>. QED BY <3>4, <3>2
  <2>3. CASE \E result \in {"completed", "failed"} : RunReturns(u, result)
    <3>1. unit'[u].run = "returned"
      BY <2>3, <1>f, <1>u DEF RunReturns, UnitRecord
    <3>. QED BY <3>1
  <2>4. CASE ResultTaken(u)
    <3>. DEFINE result == IF aborted THEN "cancelled" ELSE unit[u].result
                known == unit[u].named \/ ~Torn(TaskOf[u])
    <3>1. unit' = [unit EXCEPT ![u] =
                    [unit[u] EXCEPT !.run = "done", !.named = known, !.result = result]]
      BY <2>4, Zenon DEF ResultTaken, Settle
    <3>2. known \/ Torn(TaskOf[u])
      OBVIOUS
    <3>. HIDE DEF result, known
    <3>3. unit'[u].run = "done" /\ unit'[u].named = known
      BY <3>1, <1>f, <1>u DEF UnitRecord
    <3>. QED BY <3>2, <3>3
  <2>5. CASE \E session \in {"open", "gone"} : RunThrows(u, session)
    <3>. PICK session \in {"open", "gone"} : RunThrows(u, session)
      BY <2>5
    <3>1. unit'[u].result = IF aborted THEN "cancelled" ELSE "failed"
      BY <1>f DEF RunThrows, Settle
    <3>. QED BY <3>1
  <2>6. CASE SessionCloses(u)
    <3>1. unit'[u].run = unit[u].run /\ unit'[u].result = unit[u].result /\ unit'[u].named = unit[u].named
      BY <2>6, <1>f, <1>u DEF SessionCloses, UnitRecord
    <3>. QED BY <3>1 DEF SessionsInv, CompletedIsNamed
  <2>. QED BY <2>1, <2>2, <2>3, <2>4, <2>5, <2>6 DEF UnitStep
<1>3. NoneLeft'
  <2>. SUFFICES ASSUME phase = "ended", NEW v \in Units, unit'[v].named, unit'[v].session = "open"
                PROVE  FALSE
    BY <1>s DEF NoneLeft, ToClose
  <2>1. unit[v].named /\ unit[v].session = "open"
    BY <1>s, NothingNamedLate
  <2>. QED BY <2>1 DEF SessionsInv, NoneLeft, ToClose
<1>. QED BY <1>1, <1>2, <1>3 DEF SessionsInv

LEMMA StageStartsSessions == ASSUME IInv, SessionsInv, StageStarts PROVE SessionsInv'
<1>. USE WorkflowAssumption
<1>f. unit \in [Units -> UnitRecord] /\ cur \in Nat /\ TaskOf \in [Units -> Tasks]
      /\ \A t \in Tasks : StageOf[t] \in Nat
  BY Facts
<1>g. phase = "gate" /\ phase' = "stage" /\ cur' = cur
  BY DEF StageStarts
\* What is launched belongs to the current stage, hence is fresh.
<1>s. \A u \in Units :
        \/ unit'[u] = unit[u]
        \/ StageOf[TaskOf[u]] = cur /\ unit[u] = NoRun /\ unit'[u].result = "none"
  <2>. SUFFICES ASSUME NEW u \in Units, Launched(u)
                PROVE  StageOf[TaskOf[u]] = cur /\ unit[u] = NoRun /\ unit'[u].result = "none"
    BY StageStartsShape
  <2>1. StageOf[TaskOf[u]] = cur
    BY DEF Launched, Started, TasksOf
  <2>2. unit[u] = NoRun
    BY <2>1, <1>g DEF SessionsInv, LaterIdle
  <2>3. unit'[u] \in {[NoRun EXCEPT !.run = "waiting"], [NoRun EXCEPT !.run = "broken"], Begun(TRUE)}
    BY <2>2 DEF Launched
  <2>4. unit'[u].result = "none"
    BY <2>3 DEF NoRun, Begun
  <2>. QED BY <2>1, <2>2, <2>4
<1>1. LaterIdle'
  <2>. SUFFICES ASSUME NEW u \in Units, StageOf[TaskOf[u]] > cur PROVE unit'[u] = NoRun
    BY <1>g DEF LaterIdle
  <2>1. unit[u] = NoRun /\ StageOf[TaskOf[u]] # cur
    BY <1>f DEF SessionsInv, LaterIdle
  <2>. QED BY <2>1, <1>s
\* Only the runs of earlier stages have a result, and those are no part of it.
<1>2. CompletedIsNamed'
  <2>. SUFFICES ASSUME NEW u \in Units, unit'[u].result = "completed"
                PROVE  \/ unit'[u].run = "returned"
                       \/ unit'[u].run = "done" /\ (unit'[u].named \/ Torn(TaskOf[u])')
    BY DEF CompletedIsNamed
  <2>1. unit'[u] = unit[u] /\ TaskOf[u] \in Tasks
    BY <1>s
  <2>2. ~Torn(TaskOf[u])
    BY <2>1, <1>g, Facts
  <2>. QED BY <2>1, <2>2 DEF SessionsInv, CompletedIsNamed
<1>3. NoneLeft'
  BY <1>g DEF NoneLeft
<1>. QED BY <1>1, <1>2, <1>3 DEF SessionsInv

\* Steps that leave the runs alone and do not come to an earlier point.
LEMMA QuietSessions ==
  ASSUME IInv, SessionsInv, unit' = unit,
         \/ cur' = cur /\ (phase' \in {"gate", "parked"} => phase \in {"gate", "parked"})
         \/ cur' = cur + 1,
         phase' = "ended" => ToClose = {}
  PROVE  SessionsInv'
<1>f. cur \in Nat /\ \A u \in Units : StageOf[TaskOf[u]] \in Nat
  BY Facts
<1>1. LaterIdle'
  BY <1>f DEF SessionsInv, LaterIdle
<1>2. CompletedIsNamed' /\ NoneLeft'
  BY DEF SessionsInv, CompletedIsNamed, NoneLeft, ToClose, Torn, UnitsOf
<1>. QED BY <1>1, <1>2 DEF SessionsInv

LEMMA NextSessions == IInv /\ SessionsInv /\ [Next]_vars => SessionsInv'
<1>. SUFFICES ASSUME IInv, SessionsInv, [Next]_vars PROVE SessionsInv'
  OBVIOUS
<1>n. phase = "ended" => ToClose = {}
  BY DEF SessionsInv, NoneLeft
<1>1. CASE \E u \in Units : UnitStep(u)
  BY <1>1, UnitStepSessions
<1>2. CASE Parks \/ StopsAtGate \/ StageCancelled \/ StageFails
  BY <1>2, <1>n, QuietSessions DEF Parks, StopsAtGate, StageCancelled, StageFails
<1>3. CASE StageStarts
  BY <1>3, StageStartsSessions
<1>4. CASE \E t \in Tasks : ForeachJoins(t)
  BY <1>4, <1>n, QuietSessions DEF ForeachJoins
<1>5. CASE StageCompletes
  BY <1>5, <1>n, QuietSessions DEF StageCompletes
<1>6. CASE Ends
  BY <1>6, QuietSessions DEF Ends
<1>7. CASE PauseWorkflow \/ CallerAborts
  BY <1>7, <1>n, QuietSessions DEF PauseWorkflow, CallerAborts
<1>8. CASE ResumeWorkflow \/ InterruptWorkflow
  BY <1>8, <1>n, QuietSessions DEF ResumeWorkflow, InterruptWorkflow, Woken
<1>9. CASE RetryWorkflow \/ \E t \in Tasks : RetryTask(t)
  <2>1. unit' = [u \in Units |-> NoRun] /\ phase' = "gate"
    BY <1>9 DEF RetryWorkflow, RetryTask, Begin
  <2>. QED BY <2>1 DEF SessionsInv, LaterIdle, CompletedIsNamed, NoneLeft, NoRun
<1>10. CASE UNCHANGED vars
  BY <1>10, <1>n, QuietSessions DEF vars
<1>. QED
  BY <1>1, <1>2, <1>3, <1>4, <1>5, <1>6, <1>7, <1>8, <1>9, <1>10 DEF Next, ControlStep

(* When runWorkflow ends, the session of every run that completed is       *)
(* closed, one of a foreach as well, and so is every other session that a  *)
(* result names; only the runs of a task with a malformed item are         *)
(* excepted, as nobody keeps their results.                                *)
THEOREM SessionsClosedAtEnd == Spec => []ReturnedSessionsClosed
<1>1. Init => SessionsInv
  BY DEF Init, SessionsInv, LaterIdle, CompletedIsNamed, NoneLeft, NoRun
<1>2. IInv /\ SessionsInv => ReturnedSessionsClosed
  <2>. SUFFICES ASSUME IInv, SessionsInv, phase = "ended", NEW u \in Units,
                       unit[u].named \/ (unit[u].result = "completed" /\ ~Torn(TaskOf[u])),
                       unit[u].session = "open"
                PROVE  FALSE
    BY DEF ReturnedSessionsClosed
  <2>1. InFlight(u) => Torn(TaskOf[u])
    BY DEF IInv, FlightInStage
  <2>2. unit[u].named
    BY <2>1 DEF SessionsInv, CompletedIsNamed, InFlight
  <2>. QED BY <2>2 DEF SessionsInv, NoneLeft, ToClose
<1>3. []IInv /\ Init /\ [][Next]_vars => []SessionsInv
  BY <1>1, NextSessions, PTL
<1>. QED BY <1>2, <1>3, WorkflowInvariance, PTL DEF Spec
=============================================================================
