-------------------------- MODULE ResourceGovernor --------------------------
(***************************************************************************)
(* packages/pi-tsien-subagent-workbench/src/resource-governor.ts           *)
(*                                                                         *)
(* The governor every provider run passes through: a permit counter and    *)
(* three priority queues, each a rotating list of subjects with a FIFO of  *)
(* waiters per subject.  Every handler runs to completion on the event     *)
(* loop, so a handler is one action.  A request is one call of acquire and *)
(* the lease it may end with; a request that has ended may be made again.  *)
(*                                                                         *)
(* Abstracted: lease ids, error details, timers (a timeout may fire at any *)
(* moment while its request waits), and the listeners of snapshots.        *)
(***************************************************************************)
EXTENDS Integers, Sequences, FiniteSets, SequencesExt

CONSTANTS
  Requests,     \* calls of acquire
  Subjects,     \* parent, workflow or session identities
  Workload,     \* the <<priority, subject>> pairs callers use
  ActiveLimit,  \* permits (activeLimit, 8 by default)
  QueueLimit    \* waiters of all priorities together (queueLimit, 32 by default)

Priorities == 0..2      \* P0, P1, P2: the smaller the more urgent

ASSUME ConstantsAssumption ==
  /\ IsFiniteSet(Requests)
  /\ Workload \subseteq Priorities \X Subjects
  /\ ActiveLimit \in Nat \ {0}
  /\ QueueLimit \in Nat

VARIABLES
  active,           \* the permit counter
  queued,           \* the waiter counter
  queues,           \* [Priorities -> queue record]
  status,           \* where each request stands
  currentSnapshot   \* what publish last showed

vars == <<active, queued, queues, status, currentSnapshot>>

Statuses == {"idle", "waiting", "granted", "released", "rejected"}

Holders == {r \in Requests : status[r] = "granted"}
Waiters == {r \in Requests : status[r] = "waiting"}

-----------------------------------------------------------------------------
(* One priority queue.  A subject without an entry in waitersBySubject has *)
(* the empty sequence here.  The cursor counts from 0, as in the code.     *)

Queue == [subjects : Seq(Subjects), waiters : [Subjects -> Seq(Requests)], cursor : Nat]

EmptyQueue == [subjects |-> <<>>, waiters |-> [s \in Subjects |-> <<>>], cursor |-> 0]

\* q with another line for subject s.
WithLine(q, s, line) ==
  [subjects |-> q.subjects, waiters |-> [q.waiters EXCEPT ![s] = line], cursor |-> q.cursor]

Enqueue(q, s, r) ==
  [WithLine(q, s, Append(q.waiters[s], r)) EXCEPT
     !.subjects = IF q.waiters[s] = <<>> THEN Append(@, s) ELSE @]

PositionOf(seq, e) == CHOOSE i \in DOMAIN seq : seq[i] = e

RemoveSubject(q, s) ==
  LET i    == PositionOf(q.subjects, s)
      rest == RemoveAt(q.subjects, i)
      c    == IF i - 1 < q.cursor THEN q.cursor - 1 ELSE q.cursor
  IN [q EXCEPT !.subjects = rest,
               !.cursor = IF c >= Len(rest) THEN 0 ELSE c]

\* Faulty variant: the subject stays in rotation with an empty line.
RemoveWaiterOnly(q, s, i) == WithLine(q, s, RemoveAt(q.waiters[s], i))

\* Drop position i of the waiters of s, and s itself when that was the last.
RemoveWaiter(q, s, i) ==
  LET left == WithLine(q, s, RemoveAt(q.waiters[s], i))
  IN IF left.waiters[s] = <<>> THEN RemoveSubject(left, s) ELSE left

\* The subject whose turn it is.
TurnOf(q) == q.subjects[(q.cursor % Len(q.subjects)) + 1]

\* Faulty variant: the cursor stays on a subject that has more waiters.
DequeueSameSubject(q) ==
  LET s    == TurnOf(q)
      left == WithLine(q, s, Tail(q.waiters[s]))
  IN IF left.waiters[s] = <<>> THEN RemoveSubject(left, s) ELSE left

\* The queue after the head waiter of that subject was taken.
Dequeue(q) ==
  LET i    == q.cursor % Len(q.subjects)
      s    == TurnOf(q)
      left == WithLine(q, s, Tail(q.waiters[s]))
  IN IF left.waiters[s] = <<>> THEN RemoveSubject(left, s)
     ELSE [left EXCEPT !.cursor = (i + 1) % Len(q.subjects)]

\* Faulty variant: any priority with waiters is served.
ServedAny(p) == queues[p].subjects # <<>>

\* The most urgent priority that has a subject in line.
Served(p) ==
  /\ queues[p].subjects # <<>>
  /\ \A q \in Priorities : q < p => queues[q].subjects = <<>>

-----------------------------------------------------------------------------
(* Snapshots.                                                              *)

CountQueued(q) == FoldLeft(LAMBDA n, s : n + Len(q.waiters[s]), 0, q.subjects)

CreateSnapshot(a, n, qs) ==
  [active |-> a, queued |-> n, queuedByPriority |-> [p \in Priorities |-> CountQueued(qs[p])]]

Publish == currentSnapshot' = CreateSnapshot(active', queued', queues')

-----------------------------------------------------------------------------
(* acquire                                                                 *)

Calls(r) == status[r] \notin {"waiting", "granted"}

\* The signal is already aborted, or no permit is free and the call is
\* nested, or no permit is free and the line is full: no state is touched.
RejectCall(r) ==
  /\ Calls(r)
  /\ \E aborted, nested \in BOOLEAN :
        \/ aborted
        \/ active >= ActiveLimit /\ (nested \/ queued >= QueueLimit)
  /\ status' = [status EXCEPT ![r] = "rejected"]
  /\ UNCHANGED <<active, queued, queues, currentSnapshot>>

GrantCall(r) ==
  /\ Calls(r)
  /\ active < ActiveLimit
  /\ active' = active + 1
  /\ status' = [status EXCEPT ![r] = "granted"]
  /\ UNCHANGED <<queued, queues>>
  /\ Publish

EnqueueCall(r, p, s) ==
  /\ Calls(r)
  /\ active >= ActiveLimit
  /\ queued < QueueLimit
  /\ queues' = [queues EXCEPT ![p] = Enqueue(@, s, r)]
  /\ queued' = queued + 1
  /\ status' = [status EXCEPT ![r] = "waiting"]
  /\ UNCHANGED active
  /\ Publish

\* The abort listener or the timer of a waiter.  Both are removed with the
\* waiter, so neither can fire after a grant.
RejectWaiter(r) ==
  /\ status[r] = "waiting"
  /\ \E p \in Priorities, s \in Subjects :
       \E i \in DOMAIN queues[p].waiters[s] :
         /\ queues[p].waiters[s][i] = r
         /\ queues' = [queues EXCEPT ![p] = RemoveWaiter(@, s, i)]
  /\ queued' = queued - 1
  /\ status' = [status EXCEPT ![r] = "rejected"]
  /\ UNCHANGED active
  /\ Publish

-----------------------------------------------------------------------------
(* release.  The code drains in a loop while permits are free; invariant   *)
(* WorkConserving says that one round is all the loop can ever find to do. *)

\* Faulty variant: the permit is given back without draining the queue.
ReleaseWithoutDrain(r) ==
  /\ status[r] = "granted"
  /\ active' = active - 1
  /\ status' = [status EXCEPT ![r] = "released"]
  /\ UNCHANGED <<queued, queues>>
  /\ Publish

ReleaseIdle(r) ==
  /\ status[r] = "granted"
  /\ \A p \in Priorities : queues[p].subjects = <<>>
  /\ active' = active - 1
  /\ status' = [status EXCEPT ![r] = "released"]
  /\ UNCHANGED <<queued, queues>>
  /\ Publish

ReleaseAndDrain(r, p) ==
  /\ status[r] = "granted"
  /\ Served(p)
  /\ LET w == Head(queues[p].waiters[TurnOf(queues[p])])
     IN status' = [status EXCEPT ![r] = "released", ![w] = "granted"]
  /\ queues' = [queues EXCEPT ![p] = Dequeue(@)]
  /\ queued' = queued - 1
  /\ active' = active        \* one permit back, one granted
  /\ Publish

\* A second release of the same lease returns at once.
ReleaseAgain(r) ==
  /\ status[r] = "released"
  /\ UNCHANGED vars

-----------------------------------------------------------------------------
Init ==
  /\ active = 0
  /\ queued = 0
  /\ queues = [p \in Priorities |-> EmptyQueue]
  /\ status = [r \in Requests |-> "idle"]
  /\ currentSnapshot = CreateSnapshot(active, queued, queues)

Release(r) ==
  \/ ReleaseIdle(r)
  \/ \E p \in Priorities : ReleaseAndDrain(r, p)

Acquire(r) ==
  \/ RejectCall(r)
  \/ GrantCall(r)
  \/ \E w \in Workload : EnqueueCall(r, w[1], w[2])

Next == \E r \in Requests :
  Acquire(r) \/ RejectWaiter(r) \/ Release(r) \/ ReleaseAgain(r)

Spec == Init /\ [][Next]_vars

\* Callers release their lease in a finally block (subagent-service.ts:710-718),
\* so a granted lease is always given back.
Fairness == \A r \in Requests : WF_vars(Release(r))

-----------------------------------------------------------------------------
(* Invariants                                                              *)

TypeOK ==
  /\ active \in Nat
  /\ queued \in Nat
  /\ queues \in [Priorities -> Queue]
  /\ status \in [Requests -> Statuses]

\* The two counters never drift from the leases and waiters they stand for,
\* whatever order grants, aborts, timeouts and releases come in.
Accounting ==
  /\ active = Cardinality(Holders)
  /\ queued = Cardinality(Waiters)

\* The concurrency cap of the whole workbench: no more leases are out than
\* activeLimit, no more waiters than queueLimit.
WithinLimits ==
  /\ Cardinality(Holders) <= ActiveLimit
  /\ Cardinality(Waiters) <= QueueLimit

\* Nobody waits while a permit is free: no wake-up is ever lost and no call
\* barges in front of a waiter.
WorkConserving == Waiters # {} => active = ActiveLimit

\* Subjects in rotation are exactly those with waiters, each once, and the
\* cursor points into the rotation: removals by abort, timeout and grant keep
\* the two structures and the cursor in step.
RotationOK(q) ==
  /\ \A i, j \in DOMAIN q.subjects : q.subjects[i] = q.subjects[j] => i = j
  /\ \A s \in Subjects : q.waiters[s] # <<>> <=> \E i \in DOMAIN q.subjects : q.subjects[i] = s
  /\ q.cursor = 0 \/ q.cursor < Len(q.subjects)

QueuesConsistent == \A p \in Priorities : RotationOK(queues[p])

\* The request at place i of the line of s at priority p.
WaiterAt(p, s, i) == queues[p].waiters[s][i]

\* A request that waits has one place in one line and a request that does not
\* wait has none: nobody is granted twice, and no settled waiter stays behind.
OnePlaceEach ==
  /\ \A p \in Priorities, s \in Subjects :
       \A i \in DOMAIN queues[p].waiters[s] : status[WaiterAt(p, s, i)] = "waiting"
  /\ \A r \in Waiters :
       \E p \in Priorities, s \in Subjects :
         \E i \in DOMAIN queues[p].waiters[s] : WaiterAt(p, s, i) = r
  /\ \A p, q \in Priorities, s, t \in Subjects :
       \A i \in DOMAIN queues[p].waiters[s], j \in DOMAIN queues[q].waiters[t] :
         WaiterAt(p, s, i) = WaiterAt(q, t, j) => p = q /\ s = t /\ i = j

-----------------------------------------------------------------------------
(* Refinement                                                              *)

A == INSTANCE Admission WITH
       holders <- Holders,
       lines   <- [p \in Priorities |-> queues[p].waiters]

\* The governor implements Admission: no barging, strict priority, FIFO within
\* a subject, and a freed permit that never goes idle past a waiter.
ImplementsAdmission == A!ASpec

\* With two subjects the rotation is fair: while every lease is released, a
\* most-urgent waiter is granted or withdraws.
WaiterServed == \A r \in Requests : status[r] = "waiting" ~> status[r] # "waiting"
=============================================================================
