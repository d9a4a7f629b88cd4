-------------------------- MODULE GovernorRotation --------------------------
(***************************************************************************)
(* ResourceGovernor with a history variable that remembers, for a subject  *)
(* with waiters, which other subjects were served since its own last turn. *)
(* It states what "the subjects of a priority take turns" means.           *)
(***************************************************************************)
EXTENDS ResourceGovernor

VARIABLE passed     \* passed[p][s]: subjects served at p past the waiting s

rvars == <<active, queued, queues, status, currentSnapshot, passed>>

\* The <<priority, subject>> whose waiter this step grants, if any.
ServedNow ==
  {w \in Workload :
     \E i \in DOMAIN queues[w[1]].waiters[w[2]] : status'[WaiterAt(w[1], w[2], i)] = "granted"}

InRotation(qs, p, s) == qs[p].waiters[s] # <<>>

RInit == Init /\ passed = [p \in Priorities |-> [s \in Subjects |-> {}]]

RNext ==
  /\ Next
  /\ passed' = [p \in Priorities |-> [s \in Subjects |->
       IF ~InRotation(queues, p, s) \/ ~InRotation(queues', p, s) \/ <<p, s>> \in ServedNow
       THEN {}
       ELSE passed[p][s] \cup {t \in Subjects : <<p, t>> \in ServedNow}]]

RSpec == RInit /\ [][RNext]_rvars

RFairSpec == RSpec /\ Fairness

\* Within a priority the subjects take turns: none is served a second time
\* past a subject that has been waiting since before the first.
TakesTurns ==
  [][\A p \in Priorities, t \in Subjects :
       <<p, t>> \in ServedNow =>
         \A s \in Subjects \ {t} : InRotation(queues, p, s) => t \notin passed[p][s]]_rvars
=============================================================================
