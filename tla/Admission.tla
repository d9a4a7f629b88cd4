----------------------------- MODULE Admission -----------------------------
(***************************************************************************)
(* What the resource governor promises to the rest of the workbench,       *)
(* without saying how it picks between subjects: at most ActiveLimit       *)
(* callers hold a permit, nobody barges past a waiter, and a permit that   *)
(* is given back while callers wait moves in the same step to the longest  *)
(* waiting caller of some subject of the most urgent waiting priority.     *)
(* ResourceGovernor implements this specification.                         *)
(***************************************************************************)
EXTENDS Naturals, Sequences, FiniteSets

CONSTANTS Requests,     \* calls that may ask for a permit
          Subjects,     \* scheduling subjects: a parent or workflow identity
          Priorities,   \* natural numbers, the smaller the more urgent
          ActiveLimit,  \* permits
          QueueLimit    \* places in the waiting line

VARIABLES holders,      \* requests that hold a permit
          lines         \* lines[p][s]: requests waiting at priority p for s

avars == <<holders, lines>>

Lined(r) == \E p \in Priorities, s \in Subjects :
              \E i \in 1..Len(lines[p][s]) : lines[p][s][i] = r

Waiting == {r \in Requests : Lined(r)}

NobodyWaits == \A p \in Priorities, s \in Subjects : lines[p][s] = <<>>

\* No line of a more urgent priority than p has anybody in it.
MostUrgent(p) == \A q \in Priorities : q < p => \A s \in Subjects : lines[q][s] = <<>>

AInit ==
  /\ holders = {}
  /\ lines = [p \in Priorities |-> [s \in Subjects |-> <<>>]]

Admit(r) ==
  /\ r \notin holders
  /\ NobodyWaits
  /\ Cardinality(holders) < ActiveLimit
  /\ holders' = holders \cup {r}
  /\ UNCHANGED lines

Wait(r, p, s) ==
  /\ r \notin holders \cup Waiting
  /\ Cardinality(holders) = ActiveLimit
  /\ Cardinality(Waiting) < QueueLimit
  /\ lines' = [lines EXCEPT ![p][s] = Append(@, r)]
  /\ UNCHANGED holders

\* A waiter that gives up leaves its line; the others keep their order.
Withdraw(p, s, i) ==
  /\ i \in 1..Len(lines[p][s])
  /\ lines' = [lines EXCEPT ![p][s] = SubSeq(@, 1, i - 1) \o SubSeq(@, i + 1, Len(@))]
  /\ UNCHANGED holders

GiveBack(r) ==
  /\ r \in holders
  /\ NobodyWaits
  /\ holders' = holders \ {r}
  /\ UNCHANGED lines

HandOver(r, p, s) ==
  /\ r \in holders
  /\ lines[p][s] # <<>>
  /\ MostUrgent(p)
  /\ holders' = (holders \ {r}) \cup {Head(lines[p][s])}
  /\ lines' = [lines EXCEPT ![p][s] = Tail(@)]

ANext ==
  \/ \E r \in Requests : Admit(r) \/ GiveBack(r)
  \/ \E r \in Requests, p \in Priorities, s \in Subjects :
        Wait(r, p, s) \/ HandOver(r, p, s)
  \/ \E p \in Priorities, s \in Subjects :
        \E i \in 1..Len(lines[p][s]) : Withdraw(p, s, i)

ASpec == AInit /\ [][ANext]_avars
=============================================================================
