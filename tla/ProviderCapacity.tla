-------------------------- MODULE ProviderCapacity --------------------------
(***************************************************************************)
(* workbench-controller.ts: reclaimableDirectConversations,                *)
(* providerCapacity, ensureProviderCapacity, the session reservations of   *)
(* submitWorkflow, and the follow-ups of direct conversations, over the    *)
(* session slots of providers/pi-rpc-process-provider.ts.                  *)
(*                                                                         *)
(* A slot is a child process.  Direct conversations keep theirs after a    *)
(* run, so a new run or workflow may first close idle ones; a workflow     *)
(* reserves the slots it may need before it starts.  Requests for capacity *)
(* are served one after the other (capacityReclaimTail), but each of them  *)
(* awaits the closing of sessions, and what it computed before may have    *)
(* changed by then.  A workflow may also have sessions that its            *)
(* reservation does not count: opened by a switch of models beside one     *)
(* that lives on, or by a run left behind (see WorkflowRun).               *)
(*                                                                         *)
(* Abstracted: the age order of idle sessions (any may go first), the      *)
(* router and the governor (a run may start at any time after admission).  *)
(***************************************************************************)
EXTENDS Naturals, Sequences, FiniteSets, Functions

CONSTANTS Retained,  \* direct conversations that are open and idle at first
          Fresh,     \* direct agents that may be started
          Flows,     \* workflows
          UiFlows,   \* those started from the Workbench, which reserve nothing
          Demand,    \* of each workflow: the runs it may start
          Limit,     \* maxSessions of the provider
          MaxStray   \* bound: of each workflow, uncounted sessions at a time

ASSUME CapacityAssumption ==
  /\ IsFiniteSet(Retained) /\ IsFiniteSet(Fresh) /\ IsFiniteSet(Flows)
  /\ (Retained \cup Fresh) \cap Flows = {}
  /\ UiFlows \subseteq Flows
  /\ Demand \in [Flows -> Nat]
  /\ Limit \in Nat
  /\ MaxStray \in [Flows -> Nat]
  /\ Cardinality(Retained) <= Limit

Directs == Retained \cup Fresh

VARIABLES
  sess,      \* provider slot of a direct conversation
  avail,     \* conversation.availability; "absent" before the first run
  active,    \* conversation.activeRunId is set
  pending,   \* a follow-up is queued or being drained
  flow,      \* where each workflow stands
  flowOpen,  \* its runs that have a session
  opened,    \* its runs that asked for one so far
  unnamed,   \* those with a session that no result of a task names
  stray,     \* its open sessions beyond one for each run
  reserved,  \* reservedWorkflowSessions
  tail,      \* capacity requests, the first is being served
  target,    \* the session the first request is closing, a set of at most one
  left       \* the candidates it computed and has not used

vars == <<sess, avail, active, pending, flow, flowOpen, opened, unnamed, stray, reserved, tail, target, left>>

Init ==
  /\ sess = [d \in Directs |-> IF d \in Retained THEN "open" ELSE "none"]
  /\ avail = [d \in Directs |-> IF d \in Retained THEN "ready" ELSE "absent"]
  /\ active = [d \in Directs |-> FALSE]
  /\ pending = [d \in Directs |-> FALSE]
  /\ flow = [f \in Flows |-> "none"]
  /\ flowOpen = [f \in Flows |-> 0]
  /\ opened = [f \in Flows |-> 0]
  /\ unnamed = [f \in Flows |-> 0]
  /\ stray = [f \in Flows |-> 0]
  /\ reserved = 0
  /\ tail = <<>>
  /\ target = {}
  /\ left = {}

-----------------------------------------------------------------------------
(* Capacity.                                                               *)

Reserve(f) == IF f \in UiFlows THEN 0 ELSE Demand[f]

\* What a request passes as ownedReservation.
Owned(o) == IF o \in Flows THEN Reserve(o) ELSE 0

Required(o) == IF o \in Flows THEN Demand[o] ELSE 1

\* Workflows with an entry in workflowSessionReservations.
Reserving == {f \in Flows \ UiFlows : flow[f] \in {"submitted", "waiting", "running", "closing"}}

Held == [f \in Flows |-> flowOpen[f] + stray[f]]

ProviderSessions ==
  Cardinality({d \in Directs : sess[d] # "none"}) + SumFunctionOnSet(Held, Flows)

\* Every session of a workflow that reserves, the uncounted ones as well.
Materialized == SumFunctionOnSet(Held, Reserving)

Reclaimable ==
  {d \in Directs : avail[d] = "ready" /\ ~active[d] /\ ~pending[d] /\ sess[d] # "none"}

\* Faulty variant: what reclaiming could free counts as free already.
RoomBeforeReclaim(required, owned) ==
  ProviderSessions + reserved + required
    <= Limit + Materialized + owned + Cardinality(Reclaimable)

\* availableNow >= required, with every term on its positive side.
Room(required, owned) ==
  ProviderSessions + reserved + required <= Limit + Materialized + owned

\* required <= availableAfterReclaim.
RoomAfterReclaim(required, owned) ==
  /\ required <= Limit
  /\ ProviderSessions + reserved + required
       <= Limit + Materialized + owned + Cardinality(Reclaimable)

Busy == target # {}

\* Faulty variant: the requests behind one that fails are lost.
TailAfterFailureLost == <<>>

TailAfterFailure == Tail(tail)

\* The head of the line, once nothing is being closed for it: candidates are
\* what was computed when it became the head, minus those already closed.
Admitted(o) ==
  IF o \in Flows
  THEN /\ flow' = [flow EXCEPT ![o] = "running"]
       /\ UNCHANGED avail
  ELSE /\ avail' = [avail EXCEPT ![o] = "admitted"]
       /\ UNCHANGED flow

GivenBack(f) == reserved - Reserve(f)

\* Faulty variant: a refused workflow keeps its reservation.
DeniedKeepsReservation(o) ==
  /\ IF o \in Flows
     THEN /\ flow' = [flow EXCEPT ![o] = "refused"] /\ UNCHANGED avail
     ELSE /\ avail' = [avail EXCEPT ![o] = "failed"] /\ UNCHANGED flow
  /\ UNCHANGED reserved

\* The request throws; a workflow settles and gives its reservation back.
Denied(o) ==
  IF o \in Flows
  THEN /\ flow' = [flow EXCEPT ![o] = "refused"]
       /\ reserved' = GivenBack(o)
       /\ UNCHANGED avail
  ELSE /\ avail' = [avail EXCEPT ![o] = "failed"]
       /\ UNCHANGED <<flow, reserved>>

\* One turn of the loop of ensureProviderCapacity for owner o.
Decide(o, candidates) ==
  \/ /\ Room(Required(o), Owned(o))
     /\ Admitted(o)
     /\ tail' = Tail(tail) /\ target' = {} /\ left' = {}
     /\ UNCHANGED <<sess, reserved>>
  \/ /\ ~Room(Required(o), Owned(o))
     /\ candidates = {}
     /\ Denied(o)
     /\ tail' = TailAfterFailure /\ target' = {} /\ left' = {}
     /\ UNCHANGED sess
  \/ /\ ~Room(Required(o), Owned(o))
     /\ \E d \in candidates :
          /\ avail' = [avail EXCEPT ![d] = "disposed"]
          /\ sess' = [sess EXCEPT ![d] = IF @ = "none" THEN "none" ELSE "closing"]
          /\ target' = {d}
          /\ left' = candidates \ {d}
     /\ UNCHANGED <<tail, flow, reserved>>

BeginRequest ==
  /\ tail # <<>> /\ ~Busy
  /\ Decide(Head(tail), Reclaimable)
  /\ UNCHANGED <<active, pending, flowOpen, opened, unnamed, stray>>

\* closeSession returned: the loop goes on with the candidates it had.
ContinueRequest ==
  /\ Busy
  /\ \A d \in target : sess[d] = "none"
  /\ Decide(Head(tail), left)
  /\ UNCHANGED <<active, pending, flowOpen, opened, unnamed, stray>>

\* The child process of a closing session is gone; a run it had has failed,
\* with it the follow-up that started it.
SessionClosed(d) ==
  /\ sess[d] = "closing"
  /\ sess' = [sess EXCEPT ![d] = "none"]
  /\ active' = [active EXCEPT ![d] = FALSE]
  /\ \E further \in IF active[d] THEN {FALSE, pending[d]} ELSE {pending[d]} :
       pending' = [pending EXCEPT ![d] = further]
  /\ UNCHANGED <<avail, flow, flowOpen, opened, unnamed, stray, reserved, tail, target, left>>

-----------------------------------------------------------------------------
(* Direct agents.                                                          *)

StartDirect(d) ==
  /\ d \in Fresh /\ avail[d] = "absent"
  /\ avail' = [avail EXCEPT ![d] = "waiting"]
  /\ tail' = Append(tail, d)
  /\ UNCHANGED <<sess, active, pending, flow, flowOpen, opened, unnamed, stray, reserved, target, left>>

\* The router and the governor let the first run begin; the provider checks
\* its limit again when it reserves the slot.
OpenDirect(d) ==
  /\ avail[d] = "admitted"
  /\ avail' = [avail EXCEPT ![d] = "ready"]
  /\ IF ProviderSessions < Limit
     THEN /\ sess' = [sess EXCEPT ![d] = "open"]
          /\ active' = [active EXCEPT ![d] = TRUE]
     ELSE UNCHANGED <<sess, active>>
  /\ UNCHANGED <<pending, flow, flowOpen, opened, unnamed, stray, reserved, tail, target, left>>

\* The run settles; further messages may have been queued meanwhile.  A
\* one-shot agent closes its session afterwards, which leaves the conversation
\* "ready".
RunEnds(d, oneShot, further) ==
  /\ active[d] /\ sess[d] = "open"
  /\ active' = [active EXCEPT ![d] = FALSE]
  /\ pending' = [pending EXCEPT ![d] = further]
  /\ sess' = [sess EXCEPT ![d] = IF oneShot THEN "closing" ELSE "open"]
  /\ UNCHANGED <<avail, flow, flowOpen, opened, unnamed, stray, reserved, tail, target, left>>

\* The child process crashed: invalidateSession.
ChildExits(d) ==
  /\ sess[d] = "open"
  /\ sess' = [sess EXCEPT ![d] = "closing"]
  /\ UNCHANGED <<avail, active, pending, flow, flowOpen, opened, unnamed, stray, reserved, tail, target, left>>

\* send-agent: the message is queued and its drain begins.
SendFollowUp(d) ==
  /\ avail[d] = "ready" /\ ~pending[d] /\ ~active[d]
  /\ pending' = [pending EXCEPT ![d] = TRUE]
  /\ UNCHANGED <<sess, avail, active, flow, flowOpen, opened, unnamed, stray, reserved, tail, target, left>>

\* The governor admits the follow-up: its run begins in the retained session,
\* or the session is gone and the conversation becomes unavailable.
FollowUpBegins(d) ==
  /\ pending[d] /\ ~active[d]
  /\ \/ /\ sess[d] = "open"
        /\ active' = [active EXCEPT ![d] = TRUE]
        /\ UNCHANGED <<avail, pending>>
     \/ /\ sess[d] # "open"
        /\ avail' = [avail EXCEPT ![d] = "unavailable"]
        /\ pending' = [pending EXCEPT ![d] = FALSE]
        /\ UNCHANGED active
  /\ UNCHANGED <<sess, flow, flowOpen, opened, unnamed, stray, reserved, tail, target, left>>

-----------------------------------------------------------------------------
(* Workflows.                                                              *)

\* submitWorkflow: validated against what reclaiming could free, and reserved.
SubmitFlow(f) ==
  /\ flow[f] = "none"
  /\ RoomAfterReclaim(Demand[f], 0)
  /\ flow' = [flow EXCEPT ![f] = "submitted"]
  /\ reserved' = reserved + Reserve(f)
  /\ UNCHANGED <<sess, avail, active, pending, flowOpen, opened, unnamed, stray, tail, target, left>>

\* runWorkflow validates again and asks for capacity.
RunFlow(f) ==
  /\ flow[f] = "submitted"
  /\ \/ /\ RoomAfterReclaim(Demand[f], Reserve(f))
        /\ flow' = [flow EXCEPT ![f] = "waiting"]
        /\ tail' = Append(tail, f)
        /\ UNCHANGED <<avail, reserved>>
     \/ /\ ~RoomAfterReclaim(Demand[f], Reserve(f))
        /\ Denied(f)
        /\ UNCHANGED tail
  /\ UNCHANGED <<sess, active, pending, flowOpen, opened, unnamed, stray, target, left>>

\* A run of the workflow starts its session, or the provider refuses it.  There
\* are at most Demand[f] runs: resolveWorkflowForeach enforces maxItems.
OpenTask(f) ==
  /\ flow[f] = "running" /\ opened[f] < Demand[f]
  /\ opened' = [opened EXCEPT ![f] = @ + 1]
  /\ IF ProviderSessions < Limit
     THEN flowOpen' = [flowOpen EXCEPT ![f] = @ + 1]
     ELSE UNCHANGED flowOpen
  /\ UNCHANGED <<sess, avail, active, pending, flow, unnamed, stray, reserved, tail, target, left>>

\* A run threw, or its model failed: its session is gone, or lives on and the
\* result of the task does not name it (see WorkflowRun).
TaskThrows(f) ==
  /\ flow[f] = "running" /\ unnamed[f] < flowOpen[f]
  /\ \/ flowOpen' = [flowOpen EXCEPT ![f] = @ - 1] /\ UNCHANGED unnamed
     \/ unnamed' = [unnamed EXCEPT ![f] = @ + 1] /\ UNCHANGED flowOpen
  /\ UNCHANGED <<sess, avail, active, pending, flow, opened, stray, reserved, tail, target, left>>

\* A run whose session is gone, or was refused, goes on with another model.
ReopenTask(f) ==
  /\ flow[f] = "running" /\ flowOpen[f] < opened[f] /\ ProviderSessions < Limit
  /\ flowOpen' = [flowOpen EXCEPT ![f] = @ + 1]
  /\ UNCHANGED <<sess, avail, active, pending, flow, opened, unnamed, stray, reserved, tail, target, left>>

\* A session the reservation does not count: a run that threw goes on with
\* another model although its session lives on, or a run that its foreach left
\* behind gets its permit when the stages are over.  Workflows started from the
\* Workbench have no foreach.
OpenBeside(f) ==
  /\ stray[f] < MaxStray[f] /\ ProviderSessions < Limit
  /\ \/ flow[f] = "running" /\ unnamed[f] > 0
     \/ flow[f] \in {"closing", "done"} /\ Demand[f] > 1 /\ f \notin UiFlows
  /\ stray' = [stray EXCEPT ![f] = @ + 1]
  /\ UNCHANGED <<sess, avail, active, pending, flow, flowOpen, opened, unnamed, reserved, tail, target, left>>

\* A child process that nobody waits for exits.
TaskChildExits(f) ==
  /\ \/ stray[f] > 0 /\ stray' = [stray EXCEPT ![f] = @ - 1] /\ UNCHANGED <<flowOpen, unnamed>>
     \/ /\ unnamed[f] > 0 /\ UNCHANGED stray
        /\ unnamed' = [unnamed EXCEPT ![f] = @ - 1]
        /\ flowOpen' = [flowOpen EXCEPT ![f] = @ - 1]
  /\ UNCHANGED <<sess, avail, active, pending, flow, opened, reserved, tail, target, left>>

\* The stages are over, completed or not; the sessions are being closed.
EndFlow(f) ==
  /\ flow[f] = "running"
  /\ flow' = [flow EXCEPT ![f] = "closing"]
  /\ UNCHANGED <<sess, avail, active, pending, flowOpen, opened, unnamed, stray, reserved, tail, target, left>>

\* closeWorkflowSessions closed what the results name, some of the uncounted
\* sessions among them, and the job settled.
ReleaseFlow(f) ==
  /\ flow[f] = "closing"
  /\ flow' = [flow EXCEPT ![f] = "done"]
  /\ flowOpen' = [flowOpen EXCEPT ![f] = unnamed[f]]
  /\ \E kept \in 0..stray[f] : stray' = [stray EXCEPT ![f] = kept]
  /\ reserved' = GivenBack(f)
  /\ UNCHANGED <<sess, avail, active, pending, opened, unnamed, tail, target, left>>

-----------------------------------------------------------------------------
Next ==
  \/ BeginRequest \/ ContinueRequest
  \/ \E d \in Directs :
       \/ SessionClosed(d) \/ StartDirect(d) \/ OpenDirect(d)
       \/ ChildExits(d)
       \/ \E oneShot, further \in BOOLEAN : RunEnds(d, oneShot, further)
       \/ SendFollowUp(d) \/ FollowUpBegins(d)
  \/ \E f \in Flows :
       \/ SubmitFlow(f) \/ RunFlow(f) \/ EndFlow(f) \/ ReleaseFlow(f)
       \/ OpenTask(f) \/ TaskThrows(f) \/ ReopenTask(f) \/ OpenBeside(f) \/ TaskChildExits(f)

Spec == Init /\ [][Next]_vars

\* Child processes die when they are killed (SIGTERM, then SIGKILL); the rest
\* are microtasks.  How long a workflow runs does not matter here.
Fairness ==
  /\ WF_vars(BeginRequest) /\ WF_vars(ContinueRequest)
  /\ \A d \in Directs : WF_vars(SessionClosed(d))
  /\ \A f \in Flows : WF_vars(RunFlow(f))

FairSpec == Spec /\ Fairness

-----------------------------------------------------------------------------
TypeOK ==
  /\ sess \in [Directs -> {"none", "open", "closing"}]
  /\ avail \in [Directs -> {"absent", "waiting", "admitted", "failed", "ready", "disposed", "unavailable"}]
  /\ active \in [Directs -> BOOLEAN]
  /\ pending \in [Directs -> BOOLEAN]
  /\ flow \in [Flows -> {"none", "submitted", "waiting", "running", "closing", "done", "refused"}]
  /\ flowOpen \in [Flows -> Nat]
  /\ opened \in [Flows -> Nat]
  /\ unnamed \in [Flows -> Nat]
  /\ stray \in [Flows -> Nat]
  /\ reserved \in Nat
  /\ tail \in Seq(Directs \cup Flows)
  /\ target \in SUBSET Directs
  /\ left \in SUBSET Directs

\* The reservation counter is what the unfinished workflows reserved: nothing
\* leaks when a workflow is refused, and it never goes below zero, which the
\* code would hide with Math.max.
ReservationsExact == reserved = SumFunctionOnSet(Demand, Reserving)

\* One session for each run of the workflows that were admitted with a
\* reservation, and the conversations that keep their sessions, never need more
\* slots together than there are, also when runs start again with another model:
\* if a run is refused its session, then an agent, a workflow without a
\* reservation or a session that no reservation counts took the slot.
Outstanding(f) == IF flow[f] = "running" THEN Demand[f] - flowOpen[f] ELSE 0

ReservedFits ==
  Cardinality({d \in Retained : sess[d] # "none"})
    + SumFunctionOnSet([f \in Flows |-> flowOpen[f] + Outstanding(f)], Flows \ UiFlows) <= Limit

\* Every request for capacity is answered, also behind one that fails: it is
\* admitted or refused, and never waits for another workflow to end.
RequestsAnswered ==
  /\ \A f \in Flows : flow[f] = "submitted" ~> flow[f] \in {"running", "closing", "done", "refused"}
  /\ \A d \in Directs : avail[d] = "waiting" ~> avail[d] # "waiting"
=============================================================================
