----------------------- MODULE ResourceGovernor_proofs -----------------------
(***************************************************************************)
(* Proofs about ResourceGovernor for any number of requests and subjects   *)
(* and any limits.  The first lemmas describe the queue operators: what    *)
(* they do to the waiting lines, and that they keep rotation and lines in  *)
(* step.  The invariant is then preserved action by action.                *)
(***************************************************************************)
EXTENDS GovernorRotation, FiniteSetTheorems, SequenceTheorems, TLAPS

(* RemoveAt drops one position and keeps the order of the others.          *)
LEMMA RemoveAtProperties ==
  ASSUME NEW S, NEW seq \in Seq(S), NEW i \in 1..Len(seq)
  PROVE  /\ RemoveAt(seq, i) \in Seq(S)
         /\ Len(RemoveAt(seq, i)) = Len(seq) - 1
         /\ \A j \in 1..(Len(seq) - 1) :
              RemoveAt(seq, i)[j] = IF j < i THEN seq[j] ELSE seq[j + 1]
<1>. DEFINE u == SubSeq(seq, 1, i - 1)
            v == SubSeq(seq, i + 1, Len(seq))
<1>0. Len(seq) \in Nat
  BY LenProperties
<1>1. u \in Seq(S) /\ Len(u) = i - 1 /\ \A j \in 1..(i - 1) : u[j] = seq[j]
  OBVIOUS
<1>2. v \in Seq(S) /\ Len(v) = Len(seq) - i /\ \A j \in 1..(Len(seq) - i) : v[j] = seq[i + j]
  OBVIOUS
<1>3. RemoveAt(seq, i) = u \o v
  BY DEF RemoveAt
<1>. HIDE DEF u, v
<1>4. u \o v \in Seq(S) /\ Len(u \o v) = Len(seq) - 1
  BY <1>1, <1>2
<1>5. ASSUME NEW j \in 1..(Len(seq) - 1)
      PROVE  (u \o v)[j] = IF j < i THEN seq[j] ELSE seq[j + 1]
  <2>1. CASE j < i
    BY <2>1, <1>1, <1>2
  <2>2. CASE j >= i
    <3>1. (u \o v)[j] = v[j - (i - 1)]
      BY <2>2, <1>1, <1>2
    <3>2. j - (i-1) \in 1..(Len(seq) - i)
      BY <2>2, <1>1, <1>2
    <3>3. v[j - (i - 1)] = seq[i + (j - (i - 1))]
      BY <3>2, <1>2
    <3>. QED BY <3>1, <3>3, <2>2
  <2>3. j < i \/ j >= i
    BY <1>0
  <2>. QED BY <2>1, <2>2, <2>3
<1>. QED
  BY <1>3, <1>4, <1>5

(* Taking an element out of a sequence without repetition removes exactly *)
(* that element.                                                          *)
LEMMA RemoveOnce ==
  ASSUME NEW S, NEW seq \in Seq(S), NEW i \in 1..Len(seq),
         \A j, k \in 1..Len(seq) : seq[j] = seq[k] => j = k
  PROVE  /\ \A j, k \in 1..(Len(seq) - 1) :
              RemoveAt(seq, i)[j] = RemoveAt(seq, i)[k] => j = k
         /\ \A e : (\E j \in 1..(Len(seq) - 1) : RemoveAt(seq, i)[j] = e)
                     <=> e # seq[i] /\ \E j \in 1..Len(seq) : seq[j] = e
<1>. DEFINE rest == RemoveAt(seq, i)
<1>0. Len(seq) \in Nat
  BY LenProperties
<1>1. \A j \in 1..(Len(seq) - 1) : rest[j] = IF j < i THEN seq[j] ELSE seq[j + 1]
  BY RemoveAtProperties
<1>. HIDE DEF rest
<1>2. \A j, k \in 1..(Len(seq) - 1) : rest[j] = rest[k] => j = k
  BY <1>0, <1>1
<1>3. ASSUME NEW e, NEW j \in 1..(Len(seq) - 1), rest[j] = e
      PROVE  e # seq[i] /\ \E k \in 1..Len(seq) : seq[k] = e
  BY <1>0, <1>1, <1>3
<1>4. ASSUME NEW j \in 1..Len(seq), seq[j] # seq[i]
      PROVE  \E k \in 1..(Len(seq) - 1) : rest[k] = seq[j]
  <2>1. CASE j < i
    BY <2>1, <1>0, <1>1
  <2>2. CASE j > i
    <3>1. j - 1 \in 1..(Len(seq) - 1) /\ rest[j - 1] = seq[j]
      BY <2>2, <1>0, <1>1
    <3>. QED BY <3>1
  <2>. QED BY <2>1, <2>2, <1>0, <1>4
<1>. QED
  BY <1>2, <1>3, <1>4 DEF rest

(* PositionOf finds an element that is there.                              *)
LEMMA PositionOfProperties ==
  ASSUME NEW seq, NEW e, \E i \in DOMAIN seq : seq[i] = e
  PROVE  PositionOf(seq, e) \in DOMAIN seq /\ seq[PositionOf(seq, e)] = e
BY DEF PositionOf

(* What is true of a queue between handlers.                               *)
QueueOK(q) == q \in Queue /\ RotationOK(q)

(* The parts of a queue and their types.                                   *)
LEMMA QueueFields ==
  ASSUME NEW q \in Queue
  PROVE  /\ q.subjects \in Seq(Subjects)
         /\ Len(q.subjects) \in Nat
         /\ DOMAIN q.subjects = 1..Len(q.subjects)
         /\ q.waiters \in [Subjects -> Seq(Requests)]
         /\ q.cursor \in Nat
         /\ q = [subjects |-> q.subjects, waiters |-> q.waiters, cursor |-> q.cursor]
BY LenProperties DEF Queue

(* Taking a subject out of the rotation, once its line is empty, leaves    *)
(* the other subjects once each and the cursor inside the rotation.        *)
LEMMA RemoveSubjectProperties ==
  ASSUME NEW q \in Queue, NEW s \in Subjects,
         \A i, j \in DOMAIN q.subjects : q.subjects[i] = q.subjects[j] => i = j,
         q.cursor = 0 \/ q.cursor < Len(q.subjects),
         \E i \in DOMAIN q.subjects : q.subjects[i] = s,
         \A t \in Subjects \ {s} :
           q.waiters[t] # <<>> <=> \E i \in DOMAIN q.subjects : q.subjects[i] = t,
         q.waiters[s] = <<>>
  PROVE  QueueOK(RemoveSubject(q, s)) /\ RemoveSubject(q, s).waiters = q.waiters
<1>. DEFINE subs == q.subjects
            pos == PositionOf(subs, s)
            rest == RemoveAt(subs, pos)
            c == IF pos - 1 < q.cursor THEN q.cursor - 1 ELSE q.cursor
            cur == IF c >= Len(rest) THEN 0 ELSE c
            r == RemoveSubject(q, s)
<1>0. /\ subs \in Seq(Subjects)
      /\ Len(subs) \in Nat
      /\ DOMAIN subs = 1..Len(subs)
      /\ q.waiters \in [Subjects -> Seq(Requests)]
      /\ q.cursor \in Nat
  BY QueueFields
<1>r. r = [subjects |-> rest, waiters |-> q.waiters, cursor |-> cur]
  <2>. HIDE DEF subs, pos, rest, c, cur
  <2>1. r = [q EXCEPT !.subjects = rest, !.cursor = cur]
    BY DEF RemoveSubject, subs, pos, rest, c, cur
  <2>. QED BY <2>1, QueueFields
<1>1. pos \in 1..Len(subs) /\ subs[pos] = s
  BY <1>0, PositionOfProperties
<1>i. \A i, j \in 1..Len(subs) : subs[i] = subs[j] => i = j
  BY <1>0
<1>. HIDE DEF subs, pos
<1>2. rest \in Seq(Subjects) /\ Len(rest) = Len(subs) - 1
  BY ONLY <1>0, <1>1, RemoveAtProperties
<1>3. /\ \A j, k \in 1..(Len(subs) - 1) : rest[j] = rest[k] => j = k
      /\ \A t : (\E j \in 1..(Len(subs) - 1) : rest[j] = t)
                   <=> t # subs[pos] /\ \E j \in 1..Len(subs) : subs[j] = t
  BY ONLY <1>0, <1>1, <1>i, RemoveOnce
<1>. HIDE DEF rest
<1>d. DOMAIN rest = 1..(Len(subs) - 1)
  BY <1>2, LenProperties
<1>4. cur \in Nat /\ (cur = 0 \/ cur < Len(rest))
  <2>1. q.cursor = 0 \/ q.cursor < Len(subs)
    BY DEF subs
  <2>2. pos \in Nat /\ pos >= 1
    BY <1>0, <1>1
  <2>. DEFINE k == q.cursor
              n == Len(subs)
              m == Len(rest)
  <2>3. k \in Nat /\ n \in Nat /\ m = n - 1 /\ pos <= n /\ (k = 0 \/ k < n)
    BY <1>0, <1>1, <1>2, <2>1
  <2>4. /\ c = IF pos - 1 < k THEN k - 1 ELSE k
        /\ cur = IF c >= m THEN 0 ELSE c
    OBVIOUS
  <2>5. (cur \in Nat /\ (cur = 0 \/ cur < m)) => cur \in Nat /\ (cur = 0 \/ cur < Len(rest))
    OBVIOUS
  <2>. HIDE DEF c, cur, k, n, m
  <2>6. c \in Nat
    BY ONLY <2>2, <2>3, <2>4
  <2>7. cur \in Nat /\ (cur = 0 \/ cur < m)
    BY ONLY <2>2, <2>3, <2>4, <2>6
  <2>. QED BY ONLY <2>5, <2>7
<1>5. \A t \in Subjects : q.waiters[t] # <<>> <=> \E j \in DOMAIN rest : rest[j] = t
  <2>. SUFFICES ASSUME NEW t \in Subjects
                PROVE  q.waiters[t] # <<>> <=> \E j \in DOMAIN rest : rest[j] = t
    OBVIOUS
  <2>1. CASE t = s
    BY <2>1, <1>1, <1>3, <1>d
  <2>2. CASE t # s
    BY <2>2, <1>0, <1>1, <1>3, <1>d DEF subs
  <2>. QED BY <2>1, <2>2
<1>. HIDE DEF cur, r
<1>6. r \in Queue
  BY <1>r, <1>0, <1>2, <1>4 DEF Queue
<1>7. RotationOK(r)
  BY <1>r, <1>2, <1>3, <1>d, <1>4, <1>5 DEF RotationOK
<1>. QED
  BY <1>r, <1>6, <1>7 DEF QueueOK, r

(* A line that gets shorter: as long as somebody is left the rotation      *)
(* stands, and when nobody is left RemoveSubject repairs it.               *)
LEMMA ShorterLine ==
  ASSUME NEW q, QueueOK(q), NEW s \in Subjects, q.waiters[s] # <<>>,
         NEW line \in Seq(Requests), NEW left,
         left = WithLine(q, s, line)
  PROVE  /\ left \in Queue
         /\ left.subjects = q.subjects
         /\ left.cursor = q.cursor
         /\ left.waiters = [q.waiters EXCEPT ![s] = line]
         /\ line # <<>> => QueueOK(left)
         /\ line = <<>> => /\ QueueOK(RemoveSubject(left, s))
                          /\ RemoveSubject(left, s).waiters = left.waiters
<1>0. q \in Queue /\ RotationOK(q)
  BY DEF QueueOK
<1>1. /\ left = [subjects |-> q.subjects, cursor |-> q.cursor,
                 waiters |-> [q.waiters EXCEPT ![s] = line]]
      /\ left.subjects = q.subjects
      /\ left.cursor = q.cursor
      /\ left.waiters = [q.waiters EXCEPT ![s] = line]
  BY <1>0, QueueFields DEF WithLine
<1>2. left \in Queue
  BY <1>0, <1>1, QueueFields DEF Queue
<1>3. left.waiters[s] = line /\ \A t \in Subjects \ {s} : left.waiters[t] = q.waiters[t]
  BY <1>0, <1>1, QueueFields
<1>4. ASSUME line # <<>> PROVE RotationOK(left)
  BY <1>0, <1>1, <1>3, <1>4 DEF RotationOK
<1>5. ASSUME line = <<>>
      PROVE  /\ QueueOK(RemoveSubject(left, s))
             /\ RemoveSubject(left, s).waiters = left.waiters
  <2>1. /\ \A i, j \in DOMAIN left.subjects : left.subjects[i] = left.subjects[j] => i = j
        /\ left.cursor = 0 \/ left.cursor < Len(left.subjects)
        /\ \E i \in DOMAIN left.subjects : left.subjects[i] = s
        /\ \A t \in Subjects \ {s} :
             left.waiters[t] # <<>> <=> \E i \in DOMAIN left.subjects : left.subjects[i] = t
        /\ left.waiters[s] = <<>>
    BY <1>0, <1>1, <1>3, <1>5 DEF RotationOK
  <2>. QED BY ONLY <2>1, <1>2, s \in Subjects, RemoveSubjectProperties
<1>. QED
  BY <1>1, <1>2, <1>4, <1>5 DEF QueueOK

(* A new waiter joins the end of its subject's line.                       *)
LEMMA EnqueueProperties ==
  ASSUME NEW q, QueueOK(q), NEW s \in Subjects, NEW r \in Requests
  PROVE  /\ QueueOK(Enqueue(q, s, r))
         /\ Enqueue(q, s, r).waiters = [q.waiters EXCEPT ![s] = Append(@, r)]
<1>. DEFINE subs == IF q.waiters[s] = <<>> THEN Append(q.subjects, s) ELSE q.subjects
            lines == [q.waiters EXCEPT ![s] = Append(@, r)]
            e == Enqueue(q, s, r)
<1>0. q \in Queue /\ RotationOK(q)
  BY DEF QueueOK
<1>1. /\ e = [subjects |-> subs, waiters |-> lines, cursor |-> q.cursor]
      /\ e.subjects = subs /\ e.waiters = lines /\ e.cursor = q.cursor
  <2>1. e = [WithLine(q, s, Append(q.waiters[s], r)) EXCEPT !.subjects = subs]
    BY DEF Enqueue, WithLine
  <2>2. WithLine(q, s, Append(q.waiters[s], r)) =
          [subjects |-> q.subjects, waiters |-> lines, cursor |-> q.cursor]
    BY DEF WithLine
  <2>. HIDE DEF e, subs, lines
  <2>. QED BY ONLY <2>1, <2>2
<1>2. /\ lines \in [Subjects -> Seq(Requests)]
      /\ lines[s] # <<>>
      /\ \A t \in Subjects \ {s} : lines[t] = q.waiters[t]
  BY <1>0, QueueFields
<1>. HIDE DEF lines, e
<1>3. CASE q.waiters[s] # <<>>
  <2>1. e \in Queue
    BY <1>0, <1>1, <1>2, <1>3, QueueFields DEF Queue
  <2>2. RotationOK(e)
    BY <1>0, <1>1, <1>2, <1>3 DEF RotationOK
  <2>. QED BY <2>1, <2>2, <1>1 DEF QueueOK, lines, e
<1>4. CASE q.waiters[s] = <<>>
  <2>. DEFINE old == q.subjects
              new == Append(old, s)
  <2>0. old \in Seq(Subjects) /\ Len(old) \in Nat /\ DOMAIN old = 1..Len(old) /\ q.cursor \in Nat
    BY <1>0, QueueFields
  <2>1. /\ subs = new
        /\ new \in Seq(Subjects)
        /\ Len(new) = Len(old) + 1
        /\ DOMAIN new = 1..(Len(old) + 1)
        /\ \A i \in 1..Len(old) : new[i] = old[i]
        /\ new[Len(old) + 1] = s
    BY <1>4, <2>0
  <2>2. \A i \in 1..Len(old) : old[i] # s
    BY <1>0, <1>4, <2>0 DEF RotationOK
  <2>3. \A i, j \in 1..Len(old) : old[i] = old[j] => i = j
    BY <1>0, <2>0 DEF RotationOK
  <2>4. \A t \in Subjects : q.waiters[t] # <<>> <=> \E i \in 1..Len(old) : old[i] = t
    BY <1>0, <2>0 DEF RotationOK
  <2>5. q.cursor = 0 \/ q.cursor < Len(old)
    BY <1>0 DEF RotationOK
  <2>. HIDE DEF old, new
  <2>6. e \in Queue
    BY <2>0, <2>1, <1>1, <1>2 DEF Queue
  <2>7. \A i, j \in DOMAIN new : new[i] = new[j] => i = j
    BY <2>0, <2>1, <2>2, <2>3
  <2>8. \A t \in Subjects : lines[t] # <<>> <=> \E i \in DOMAIN new : new[i] = t
    <3>. SUFFICES ASSUME NEW t \in Subjects
                  PROVE  lines[t] # <<>> <=> \E i \in DOMAIN new : new[i] = t
      OBVIOUS
    <3>1. CASE t = s
      BY <3>1, <1>2, <2>0, <2>1
    <3>2. CASE t # s
      <4>1. (\E i \in 1..(Len(old) + 1) : new[i] = t) <=> \E i \in 1..Len(old) : old[i] = t
        BY <3>2, <2>0, <2>1
      <4>2. lines[t] = q.waiters[t]
        BY <3>2, <1>2
      <4>. QED BY <4>1, <4>2, <2>1, <2>4
    <3>. QED BY <3>1, <3>2
  <2>9. e.subjects = new /\ (e.cursor = 0 \/ e.cursor < Len(new))
    BY <2>0, <2>1, <2>5, <1>1
  <2>10. RotationOK(e)
    BY <2>7, <2>8, <2>9, <1>1 DEF RotationOK
  <2>. QED BY <2>6, <2>10, <1>1 DEF QueueOK, lines, e
<1>. QED BY <1>3, <1>4

(* A waiter that aborts or times out leaves its line.                      *)
LEMMA RemoveWaiterProperties ==
  ASSUME NEW q, QueueOK(q), NEW s \in Subjects, NEW i \in DOMAIN q.waiters[s]
  PROVE  /\ QueueOK(RemoveWaiter(q, s, i))
         /\ RemoveWaiter(q, s, i).waiters = [q.waiters EXCEPT ![s] = RemoveAt(@, i)]
<1>. DEFINE line == RemoveAt(q.waiters[s], i)
            left == WithLine(q, s, line)
<1>0. q.waiters \in [Subjects -> Seq(Requests)]
  BY QueueFields DEF QueueOK
<1>1. q.waiters[s] \in Seq(Requests) /\ i \in 1..Len(q.waiters[s]) /\ q.waiters[s] # <<>>
  BY <1>0, LenProperties
<1>2. line \in Seq(Requests)
  BY <1>1, RemoveAtProperties
<1>3. RemoveWaiter(q, s, i) = IF left.waiters[s] = <<>> THEN RemoveSubject(left, s) ELSE left
  BY DEF RemoveWaiter
<1>. HIDE DEF left, line
<1>4. left = WithLine(q, s, line)
  BY DEF left
<1>5. /\ left.waiters = [q.waiters EXCEPT ![s] = line]
      /\ line # <<>> => QueueOK(left)
      /\ line = <<>> => /\ QueueOK(RemoveSubject(left, s))
                       /\ RemoveSubject(left, s).waiters = left.waiters
  BY <1>1, <1>2, <1>4, ShorterLine
<1>6. left.waiters[s] = line
  BY <1>0, <1>5
<1>. QED
  BY <1>0, <1>3, <1>5, <1>6 DEF line

(* Remainders of naturals.                                                 *)
LEMMA ModSmall == ASSUME NEW m \in Nat, NEW n \in Nat, m < n PROVE m % n = m
OBVIOUS

LEMMA ModRange == ASSUME NEW m \in Nat, NEW n \in Nat, n > 0 PROVE m % n \in 0..(n - 1)
OBVIOUS

(* The cursor of a non-empty rotation points at a subject with waiters.    *)
LEMMA TurnOfProperties ==
  ASSUME NEW q, QueueOK(q), q.subjects # <<>>
  PROVE  /\ q.cursor % Len(q.subjects) = q.cursor
         /\ q.cursor + 1 \in 1..Len(q.subjects)
         /\ TurnOf(q) = q.subjects[q.cursor + 1]
         /\ TurnOf(q) \in Subjects
         /\ q.waiters[TurnOf(q)] \in Seq(Requests)
         /\ q.waiters[TurnOf(q)] # <<>>
<1>0. q \in Queue /\ RotationOK(q)
  BY DEF QueueOK
<1>1. /\ q.subjects \in Seq(Subjects) /\ Len(q.subjects) \in Nat
      /\ DOMAIN q.subjects = 1..Len(q.subjects) /\ q.cursor \in Nat
      /\ q.waiters \in [Subjects -> Seq(Requests)]
  BY <1>0, QueueFields
<1>2. Len(q.subjects) > 0
  BY <1>1, EmptySeq
<1>3. q.cursor < Len(q.subjects)
  BY <1>0, <1>1, <1>2 DEF RotationOK
<1>4. q.cursor % Len(q.subjects) = q.cursor
  BY ONLY <1>1, <1>2, <1>3, ModSmall
<1>5. TurnOf(q) = q.subjects[q.cursor + 1]
  BY <1>4 DEF TurnOf
<1>6. q.cursor + 1 \in 1..Len(q.subjects)
  BY <1>1, <1>3
<1>7. TurnOf(q) \in Subjects
  BY <1>1, <1>5, <1>6, ElementOfSeq
<1>8. q.waiters[TurnOf(q)] # <<>>
  BY <1>0, <1>1, <1>5, <1>6, <1>7 DEF RotationOK
<1>. QED
  BY <1>1, <1>4, <1>5, <1>6, <1>7, <1>8

(* Serving the subject whose turn it is takes the head of its line.        *)
LEMMA DequeueProperties ==
  ASSUME NEW q, QueueOK(q), q.subjects # <<>>
  PROVE  /\ QueueOK(Dequeue(q))
         /\ Dequeue(q).waiters = [q.waiters EXCEPT ![TurnOf(q)] = Tail(@)]
<1>. DEFINE s == TurnOf(q)
            line == Tail(q.waiters[s])
            left == WithLine(q, s, line)
            c == (q.cursor + 1) % Len(q.subjects)
            moved == [left EXCEPT !.cursor = c]
<1>0. q \in Queue /\ RotationOK(q) /\ Len(q.subjects) \in Nat /\ q.cursor \in Nat
  BY QueueFields DEF QueueOK
<1>w. q.waiters \in [Subjects -> Seq(Requests)]
  BY <1>0, QueueFields
<1>1. /\ s \in Subjects
      /\ q.waiters[s] \in Seq(Requests) /\ q.waiters[s] # <<>>
      /\ q.cursor % Len(q.subjects) = q.cursor
      /\ q.cursor + 1 \in 1..Len(q.subjects)
  BY TurnOfProperties
<1>2. line \in Seq(Requests)
  BY <1>1
<1>3. Dequeue(q) = IF left.waiters[s] = <<>> THEN RemoveSubject(left, s) ELSE moved
  BY <1>1 DEF Dequeue
<1>. HIDE DEF s, line, left, moved, c
<1>4. left = WithLine(q, s, line)
  BY DEF left
<1>5. /\ left \in Queue
      /\ left.subjects = q.subjects
      /\ left.waiters = [q.waiters EXCEPT ![s] = line]
      /\ line # <<>> => QueueOK(left)
      /\ line = <<>> => /\ QueueOK(RemoveSubject(left, s))
                       /\ RemoveSubject(left, s).waiters = left.waiters
  BY <1>1, <1>2, <1>4, ShorterLine
<1>6. left.waiters[s] = line
  BY <1>1, <1>5, <1>w
<1>7. CASE line = <<>>
  BY <1>3, <1>5, <1>6, <1>7 DEF line, s
<1>8. CASE line # <<>>
  <2>1. c \in Nat /\ c < Len(q.subjects)
    <3>1. q.cursor + 1 \in Nat /\ Len(q.subjects) > 0
      BY <1>0, <1>1
    <3>2. c \in 0..(Len(q.subjects) - 1)
      BY ONLY <3>1, <1>0, ModRange DEF c
    <3>. QED BY <3>2, <1>0
  <2>2. /\ moved = [subjects |-> left.subjects, waiters |-> left.waiters, cursor |-> c]
        /\ moved.subjects = left.subjects /\ moved.waiters = left.waiters /\ moved.cursor = c
    <3>1. moved = [left EXCEPT !.cursor = c]
      BY DEF moved
    <3>2. left = [subjects |-> left.subjects, waiters |-> left.waiters, cursor |-> left.cursor]
      BY <1>5, QueueFields
    <3>. QED BY ONLY <3>1, <3>2
  <2>3. moved \in Queue
    BY <2>1, <2>2, <1>5, QueueFields DEF Queue
  <2>4. RotationOK(left)
    BY <1>5, <1>8 DEF QueueOK
  <2>5. RotationOK(moved)
    BY <2>1, <2>2, <2>4, <1>5 DEF RotationOK
  <2>6. Dequeue(q) = moved
    BY <1>3, <1>6, <1>8
  <2>. QED BY <2>2, <2>3, <2>5, <2>6, <1>5 DEF QueueOK, line, s
<1>. QED BY <1>7, <1>8

-----------------------------------------------------------------------------
(* The inductive invariant: the counters and limits follow from each other *)
(* only together with the place of every waiter.  A release that finds no  *)
(* subject in rotation must know that nobody waits, which takes both       *)
(* QueuesConsistent and OnePlaceEach.                                      *)
IInv ==
  /\ TypeOK
  /\ Accounting
  /\ WithinLimits
  /\ WorkConserving
  /\ QueuesConsistent
  /\ OnePlaceEach

(* One queue changes, and in it the line of one subject.                   *)
LEMMA LineChange ==
  ASSUME TypeOK, QueuesConsistent,
         NEW p \in Priorities, NEW s \in Subjects, RotationOK(queues'[p]),
         \A t \in Subjects \ {s} : queues'[p].waiters[t] = queues[p].waiters[t],
         \A q \in Priorities \ {p} : queues'[q] = queues[q]
  PROVE  /\ QueuesConsistent'
         /\ \A q \in Priorities, t \in Subjects :
              q # p \/ t # s => queues'[q].waiters[t] = queues[q].waiters[t]
BY DEF QueuesConsistent

(* The lines are sequences of requests.                                    *)
LEMMA LineType ==
  ASSUME TypeOK, NEW p \in Priorities, NEW s \in Subjects
  PROVE  /\ queues[p] \in Queue
         /\ queues[p].waiters[s] \in Seq(Requests)
         /\ Len(queues[p].waiters[s]) \in Nat
         /\ DOMAIN queues[p].waiters[s] = 1..Len(queues[p].waiters[s])
         /\ \A i \in DOMAIN queues[p].waiters[s] : queues[p].waiters[s][i] \in Requests
<1>1. queues[p] \in Queue
  BY DEF TypeOK
<1>2. queues[p].waiters[s] \in Seq(Requests)
  BY <1>1, QueueFields
<1>. QED BY <1>1, <1>2, LenProperties, ElementOfSeq

(* A request that starts to wait gets the one new place.                   *)
LEMMA PlaceAdded ==
  ASSUME TypeOK, OnePlaceEach,
         NEW p \in Priorities, NEW s \in Subjects, NEW r \in Requests, status[r] # "waiting",
         \A q \in Priorities, t \in Subjects :
            queues'[q].waiters[t] = IF q = p /\ t = s THEN Append(queues[p].waiters[s], r)
                                    ELSE queues[q].waiters[t],
         \A x \in Requests : status'[x] = "waiting" <=> status[x] = "waiting" \/ x = r
  PROVE  OnePlaceEach'
<1>. DEFINE old(q, t) == queues[q].waiters[t]
            new(q, t) == queues'[q].waiters[t]
            last == Len(old(p, s)) + 1
<1>1. \A q \in Priorities, t \in Subjects :
        /\ Len(old(q, t)) \in Nat
        /\ DOMAIN old(q, t) = 1..Len(old(q, t))
        /\ \A i \in DOMAIN old(q, t) : old(q, t)[i] \in Requests
  BY LineType
<1>2. /\ DOMAIN new(p, s) = DOMAIN old(p, s) \cup {last}
      /\ \A i \in DOMAIN old(p, s) : new(p, s)[i] = old(p, s)[i]
      /\ new(p, s)[last] = r
      /\ last \notin DOMAIN old(p, s)
  <2>1. old(p, s) \in Seq(Requests) /\ Len(old(p, s)) \in Nat /\ DOMAIN old(p, s) = 1..Len(old(p, s))
    BY LineType
  <2>2. new(p, s) = Append(old(p, s), r)
    OBVIOUS
  <2>. HIDE DEF old, new
  <2>3. /\ Append(old(p, s), r) \in Seq(Requests)
        /\ Len(Append(old(p, s), r)) = last
        /\ \A i \in 1..Len(old(p, s)) : Append(old(p, s), r)[i] = old(p, s)[i]
        /\ Append(old(p, s), r)[last] = r
    BY ONLY <2>1, r \in Requests, AppendProperties
  <2>4. DOMAIN new(p, s) = 1..last
    BY ONLY <2>2, <2>3, LenProperties
  <2>. QED BY ONLY <2>1, <2>2, <2>3, <2>4
<1>3. \A q \in Priorities, t \in Subjects :
        ~(q = p /\ t = s) => new(q, t) = old(q, t)
  OBVIOUS
<1>4. /\ \A q \in Priorities, t \in Subjects :
            \A i \in DOMAIN old(q, t) : status[old(q, t)[i]] = "waiting"
      /\ \A x \in Requests : status[x] = "waiting" =>
            \E q \in Priorities, t \in Subjects :
              \E i \in DOMAIN old(q, t) : old(q, t)[i] = x
      /\ \A q, q2 \in Priorities, t, t2 \in Subjects :
            \A i \in DOMAIN old(q, t), j \in DOMAIN old(q2, t2) :
              old(q, t)[i] = old(q2, t2)[j] => q = q2 /\ t = t2 /\ i = j
  BY DEF OnePlaceEach, WaiterAt, Waiters
<1>n. \A q \in Priorities, t \in Subjects : \A i \in DOMAIN new(q, t) :
        \/ i \in DOMAIN old(q, t) /\ new(q, t)[i] = old(q, t)[i]
        \/ q = p /\ t = s /\ i = last /\ new(q, t)[i] = r
  BY <1>2, <1>3
<1>o. \A q \in Priorities, t \in Subjects : \A i \in DOMAIN old(q, t) :
        i \in DOMAIN new(q, t) /\ new(q, t)[i] = old(q, t)[i]
  BY <1>2, <1>3
<1>. HIDE DEF old, new, last
<1>5. ASSUME NEW q \in Priorities, NEW t \in Subjects, NEW i \in DOMAIN new(q, t)
      PROVE  status'[new(q, t)[i]] = "waiting"
  <2>1. CASE i \in DOMAIN old(q, t) /\ new(q, t)[i] = old(q, t)[i]
    BY <2>1, <1>1, <1>4
  <2>2. CASE new(q, t)[i] = r
    BY <2>2
  <2>. QED BY <2>1, <2>2, <1>n
<1>6. ASSUME NEW x \in Requests, status'[x] = "waiting"
      PROVE  \E q \in Priorities, t \in Subjects : \E i \in DOMAIN new(q, t) : new(q, t)[i] = x
  <2>1. CASE x = r
    BY <2>1, <1>2
  <2>2. CASE status[x] = "waiting"
    BY <2>2, <1>4, <1>o
  <2>. QED BY <1>6, <2>1, <2>2
<1>7. ASSUME NEW q \in Priorities, NEW q2 \in Priorities, NEW t \in Subjects, NEW t2 \in Subjects,
             NEW i \in DOMAIN new(q, t), NEW j \in DOMAIN new(q2, t2),
             new(q, t)[i] = new(q2, t2)[j]
      PROVE  q = q2 /\ t = t2 /\ i = j
  BY <1>7, <1>n, <1>4
<1>. QED
  BY <1>5, <1>6, <1>7 DEF OnePlaceEach, WaiterAt, Waiters, new

(* A request that stops waiting gives up its place.                        *)
LEMMA PlaceRemoved ==
  ASSUME TypeOK, OnePlaceEach,
         NEW p \in Priorities, NEW s \in Subjects, NEW k \in DOMAIN queues[p].waiters[s],
         \A q \in Priorities, t \in Subjects :
            queues'[q].waiters[t] = IF q = p /\ t = s THEN RemoveAt(queues[p].waiters[s], k)
                                    ELSE queues[q].waiters[t],
         \A x \in Requests :
            status'[x] = "waiting" <=> status[x] = "waiting" /\ x # queues[p].waiters[s][k]
  PROVE  OnePlaceEach'
<1>. DEFINE old(q, t) == queues[q].waiters[t]
            new(q, t) == queues'[q].waiters[t]
            w == old(p, s)[k]
            n == Len(old(p, s))
            \* where the waiter at place i of a new line was before
            was(q, t, i) == IF q = p /\ t = s /\ i >= k THEN i + 1 ELSE i
<1>1. \A q \in Priorities, t \in Subjects :
        /\ Len(old(q, t)) \in Nat
        /\ DOMAIN old(q, t) = 1..Len(old(q, t))
        /\ \A i \in DOMAIN old(q, t) : old(q, t)[i] \in Requests
  BY LineType
<1>2. /\ n \in Nat /\ k \in 1..n
      /\ DOMAIN new(p, s) = 1..(n - 1)
      /\ \A i \in 1..(n - 1) : new(p, s)[i] = IF i < k THEN old(p, s)[i] ELSE old(p, s)[i + 1]
  <2>1. old(p, s) \in Seq(Requests) /\ n \in Nat /\ k \in 1..n
    BY LineType
  <2>2. /\ RemoveAt(old(p, s), k) \in Seq(Requests)
        /\ Len(RemoveAt(old(p, s), k)) = n - 1
        /\ \A j \in 1..(n - 1) :
              RemoveAt(old(p, s), k)[j] = IF j < k THEN old(p, s)[j] ELSE old(p, s)[j + 1]
    BY ONLY <2>1, RemoveAtProperties
  <2>3. new(p, s) = RemoveAt(old(p, s), k)
    OBVIOUS
  <2>. HIDE DEF old, new, n
  <2>4. DOMAIN new(p, s) = 1..(n - 1)
    BY ONLY <2>1, <2>2, <2>3, LenProperties
  <2>. QED BY ONLY <2>1, <2>2, <2>3, <2>4
<1>3. \A q \in Priorities, t \in Subjects :
        ~(q = p /\ t = s) => new(q, t) = old(q, t)
  OBVIOUS
<1>4. /\ \A q \in Priorities, t \in Subjects :
            \A i \in DOMAIN old(q, t) : status[old(q, t)[i]] = "waiting"
      /\ \A x \in Requests : status[x] = "waiting" =>
            \E q \in Priorities, t \in Subjects :
              \E i \in DOMAIN old(q, t) : old(q, t)[i] = x
      /\ \A q, q2 \in Priorities, t, t2 \in Subjects :
            \A i \in DOMAIN old(q, t), j \in DOMAIN old(q2, t2) :
              old(q, t)[i] = old(q2, t2)[j] => q = q2 /\ t = t2 /\ i = j
  BY DEF OnePlaceEach, WaiterAt, Waiters
<1>5. \A x \in Requests : status'[x] = "waiting" <=> status[x] = "waiting" /\ x # w
  OBVIOUS
<1>k. DOMAIN old(p, s) = 1..n
  BY <1>1
<1>. HIDE DEF old, new, w, n
<1>w. w = old(p, s)[k] /\ k \in DOMAIN old(p, s)
  BY <1>2, <1>k DEF w
<1>n. ASSUME NEW q \in Priorities, NEW t \in Subjects, NEW i \in DOMAIN new(q, t)
      PROVE  /\ was(q, t, i) \in DOMAIN old(q, t)
             /\ new(q, t)[i] = old(q, t)[was(q, t, i)]
             /\ ~(q = p /\ t = s /\ was(q, t, i) = k)
  <2>1. CASE q = p /\ t = s
    BY <2>1, <1>2, <1>k
  <2>2. CASE ~(q = p /\ t = s)
    BY <2>2, <1>3
  <2>. QED BY <2>1, <2>2
<1>o. ASSUME NEW q \in Priorities, NEW t \in Subjects, NEW i \in DOMAIN old(q, t),
             ~(q = p /\ t = s /\ i = k)
      PROVE  \E j \in DOMAIN new(q, t) : new(q, t)[j] = old(q, t)[i]
  <2>1. CASE ~(q = p /\ t = s)
    BY <2>1, <1>3
  <2>2. CASE q = p /\ t = s /\ i < k
    BY <2>2, <1>2, <1>k
  <2>3. CASE q = p /\ t = s /\ i > k
    <3>1. i - 1 \in DOMAIN new(q, t) /\ new(q, t)[i - 1] = old(q, t)[i]
      BY <2>3, <1>2, <1>k
    <3>. QED BY <3>1
  <2>4. q = p /\ t = s => i < k \/ i > k
    BY <1>o, <1>2, <1>k
  <2>. QED BY <2>1, <2>2, <2>3, <2>4
<1>6. ASSUME NEW q \in Priorities, NEW t \in Subjects, NEW i \in DOMAIN new(q, t)
      PROVE  status'[new(q, t)[i]] = "waiting"
  <2>1. /\ was(q, t, i) \in DOMAIN old(q, t)
        /\ new(q, t)[i] = old(q, t)[was(q, t, i)]
        /\ ~(q = p /\ t = s /\ was(q, t, i) = k)
    BY <1>n
  <2>. HIDE DEF was
  <2>2. new(q, t)[i] \in Requests /\ status[new(q, t)[i]] = "waiting"
    BY <2>1, <1>1, <1>4
  <2>3. new(q, t)[i] # w
    BY <2>1, <1>4, <1>w
  <2>. QED BY <2>2, <2>3, <1>5
<1>7. ASSUME NEW x \in Requests, status'[x] = "waiting"
      PROVE  \E q \in Priorities, t \in Subjects : \E i \in DOMAIN new(q, t) : new(q, t)[i] = x
  <2>1. status[x] = "waiting" /\ x # w
    BY <1>5, <1>7
  <2>2. PICK q \in Priorities, t \in Subjects : \E i \in DOMAIN old(q, t) : old(q, t)[i] = x
    BY <2>1, <1>4
  <2>3. PICK i \in DOMAIN old(q, t) : old(q, t)[i] = x
    BY <2>2
  <2>4. ~(q = p /\ t = s /\ i = k)
    BY <2>1, <2>3, <1>w
  <2>. QED BY <2>3, <2>4, <1>o
<1>8. ASSUME NEW q \in Priorities, NEW q2 \in Priorities, NEW t \in Subjects, NEW t2 \in Subjects,
             NEW i \in DOMAIN new(q, t), NEW j \in DOMAIN new(q2, t2),
             new(q, t)[i] = new(q2, t2)[j]
      PROVE  q = q2 /\ t = t2 /\ i = j
  <2>1. /\ was(q, t, i) \in DOMAIN old(q, t)
        /\ new(q, t)[i] = old(q, t)[was(q, t, i)]
        /\ was(q2, t2, j) \in DOMAIN old(q2, t2)
        /\ new(q2, t2)[j] = old(q2, t2)[was(q2, t2, j)]
    BY <1>n
  <2>2. q = q2 /\ t = t2 /\ was(q, t, i) = was(q2, t2, j)
    <3>. DEFINE i0 == was(q, t, i)
                j0 == was(q2, t2, j)
    <3>1. i0 \in DOMAIN old(q, t) /\ j0 \in DOMAIN old(q2, t2) /\ old(q, t)[i0] = old(q2, t2)[j0]
      BY <2>1, <1>8
    <3>2. \A a \in DOMAIN old(q, t), b \in DOMAIN old(q2, t2) :
             old(q, t)[a] = old(q2, t2)[b] => q = q2 /\ t = t2 /\ a = b
      BY <1>4
    <3>. HIDE DEF i0, j0
    <3>3. q = q2 /\ t = t2 /\ i0 = j0
      BY <3>1, <3>2
    <3>. QED BY <3>3 DEF i0, j0
  <2>3. CASE q = p /\ t = s
    <3>1. i \in 1..(n - 1) /\ j \in 1..(n - 1)
      BY <2>2, <2>3, <1>2
    <3>. QED BY <3>1, <2>2, <2>3, <1>2
  <2>4. CASE ~(q = p /\ t = s)
    BY <2>2, <2>4
  <2>. QED BY <2>3, <2>4
<1>. QED
  BY <1>6, <1>7, <1>8 DEF OnePlaceEach, WaiterAt, Waiters, new

(* Holders and Waiters are finite, so adding or removing one request moves *)
(* their cardinalities by one.                                             *)
LEMMA FiniteCounts ==
  /\ IsFiniteSet(Holders) /\ Cardinality(Holders) \in Nat
  /\ IsFiniteSet(Waiters) /\ Cardinality(Waiters) \in Nat
<1>1. IsFiniteSet(Requests)
  BY ConstantsAssumption
<1>2. Holders \in SUBSET Requests /\ Waiters \in SUBSET Requests
  BY DEF Holders, Waiters
<1>. QED
  BY <1>1, <1>2, FS_Subset, FS_CardinalityType

(* When no subject is in rotation nobody waits.                            *)
LEMMA EmptyRotations ==
  ASSUME TypeOK, QueuesConsistent, OnePlaceEach,
         \A p \in Priorities : queues[p].subjects = <<>>
  PROVE  Waiters = {}
<1>1. \A p \in Priorities, s \in Subjects : queues[p].waiters[s] = <<>>
  BY DEF QueuesConsistent, RotationOK
<1>2. \A p \in Priorities, s \in Subjects : DOMAIN queues[p].waiters[s] = {}
  BY <1>1
<1>. QED
  BY <1>2 DEF OnePlaceEach

(* What a most urgent served priority yields: the place of the next waiter. *)
LEMMA NextWaiter ==
  ASSUME TypeOK, QueuesConsistent, OnePlaceEach,
         NEW p \in Priorities, queues[p].subjects # <<>>
  PROVE  LET s == TurnOf(queues[p])
             line == queues[p].waiters[s]
         IN /\ s \in Subjects
            /\ line \in Seq(Requests)
            /\ 1 \in DOMAIN line
            /\ Head(line) = line[1]
            /\ Head(line) \in Requests
            /\ status[Head(line)] = "waiting"
            /\ Tail(line) = RemoveAt(line, 1)
<1>. DEFINE s == TurnOf(queues[p])
            line == queues[p].waiters[s]
<1>1. QueueOK(queues[p])
  BY DEF TypeOK, QueuesConsistent, QueueOK
<1>2. s \in Subjects /\ line \in Seq(Requests) /\ line # <<>>
  BY <1>1, TurnOfProperties
<1>3. 1 \in DOMAIN line /\ Head(line) = line[1] /\ Head(line) \in Requests
  <2>. HIDE DEF line
  <2>1. Len(line) \in Nat /\ DOMAIN line = 1..Len(line) /\ Len(line) > 0
    BY <1>2, LenProperties, EmptySeq
  <2>. QED BY <2>1, <1>2, ElementOfSeq
<1>4. status[line[1]] = "waiting"
  BY <1>2, <1>3 DEF OnePlaceEach, WaiterAt
<1>5. Tail(line) = RemoveAt(line, 1)
  <2>. HIDE DEF line
  <2>0. Len(line) \in Nat /\ DOMAIN line = 1..Len(line) /\ 1 \in 1..Len(line)
    BY <1>2, <1>3, LenProperties
  <2>1. /\ Tail(line) \in Seq(Requests) /\ Len(Tail(line)) = Len(line) - 1
        /\ \A j \in 1..(Len(line) - 1) : Tail(line)[j] = line[j + 1]
    BY <1>2, <2>0
  <2>2. /\ RemoveAt(line, 1) \in Seq(Requests) /\ Len(RemoveAt(line, 1)) = Len(line) - 1
        /\ \A j \in 1..(Len(line) - 1) :
              RemoveAt(line, 1)[j] = IF j < 1 THEN line[j] ELSE line[j + 1]
    BY ONLY <1>2, <2>0, RemoveAtProperties
  <2>. QED BY <2>1, <2>2, SeqEqual
<1>. QED BY <1>2, <1>3, <1>4, <1>5

-----------------------------------------------------------------------------
LEMMA InitInvariant == Init => IInv
<1>. SUFFICES ASSUME Init PROVE IInv
  OBVIOUS
<1>1. EmptyQueue \in Queue
  BY DEF EmptyQueue, Queue
<1>2. TypeOK
  BY <1>1 DEF Init, TypeOK, Statuses
<1>3. Holders = {} /\ Waiters = {}
  BY DEF Init, Holders, Waiters
<1>4. Accounting /\ WithinLimits /\ WorkConserving
  BY <1>3, FS_EmptySet, ConstantsAssumption DEF Init, Accounting, WithinLimits, WorkConserving
<1>5. QueuesConsistent
  BY DEF Init, EmptyQueue, QueuesConsistent, RotationOK
<1>6. OnePlaceEach
  BY <1>3 DEF Init, EmptyQueue, OnePlaceEach
<1>. QED
  BY <1>2, <1>4, <1>5, <1>6 DEF IInv

(* A step that changes neither the queues nor who waits keeps the places.  *)
LEMMA PlacesKept ==
  ASSUME OnePlaceEach, TypeOK, queues' = queues,
         \A x \in Requests : status'[x] = "waiting" <=> status[x] = "waiting"
  PROVE  OnePlaceEach'
<1>1. \A p \in Priorities, s \in Subjects : \A i \in DOMAIN queues[p].waiters[s] :
         queues[p].waiters[s][i] \in Requests
  BY LineType
<1>. QED
  BY <1>1 DEF OnePlaceEach, WaiterAt, Waiters

LEMMA RejectCallKeeps ==
  ASSUME IInv, NEW r \in Requests, RejectCall(r)
  PROVE  IInv'
<1>. USE DEF IInv
<1>1. status \in [Requests -> Statuses] /\ status[r] \notin {"waiting", "granted"}
  BY DEF RejectCall, Calls, TypeOK
<1>2. TypeOK'
  BY DEF RejectCall, TypeOK, Statuses
<1>3. Holders' = Holders /\ Waiters' = Waiters
  BY <1>1 DEF RejectCall, Holders, Waiters
<1>4. (Accounting /\ WithinLimits /\ WorkConserving)'
  BY <1>3 DEF RejectCall, Accounting, WithinLimits, WorkConserving
<1>5. QueuesConsistent'
  BY DEF RejectCall, QueuesConsistent
<1>6. OnePlaceEach'
  BY <1>1, PlacesKept DEF RejectCall
<1>. QED BY <1>2, <1>4, <1>5, <1>6

LEMMA GrantCallKeeps ==
  ASSUME IInv, NEW r \in Requests, GrantCall(r)
  PROVE  IInv'
<1>. USE DEF IInv
<1>1. status \in [Requests -> Statuses] /\ status[r] \notin {"waiting", "granted"}
  BY DEF GrantCall, Calls, TypeOK
<1>2. TypeOK'
  BY DEF GrantCall, TypeOK, Statuses
<1>3. Holders' = Holders \cup {r} /\ r \notin Holders /\ Waiters' = Waiters
  BY <1>1 DEF GrantCall, Holders, Waiters
<1>4. Cardinality(Holders') = Cardinality(Holders) + 1
  BY <1>3, FiniteCounts, FS_AddElement
<1>5. (Accounting /\ WithinLimits)'
  BY <1>3, <1>4, FiniteCounts, ConstantsAssumption
     DEF GrantCall, Accounting, WithinLimits
<1>6. WorkConserving'
  BY <1>3, ConstantsAssumption DEF GrantCall, WorkConserving, TypeOK
<1>7. QueuesConsistent'
  BY DEF GrantCall, QueuesConsistent
<1>8. OnePlaceEach'
  BY <1>1, PlacesKept DEF GrantCall
<1>. QED BY <1>2, <1>5, <1>6, <1>7, <1>8

LEMMA EnqueueCallKeeps ==
  ASSUME IInv, NEW r \in Requests, NEW p \in Priorities, NEW s \in Subjects,
         EnqueueCall(r, p, s)
  PROVE  IInv'
<1>. USE DEF IInv
<1>1. status \in [Requests -> Statuses] /\ status[r] \notin {"waiting", "granted"}
  BY DEF EnqueueCall, Calls, TypeOK
<1>2. QueueOK(queues[p])
  BY DEF TypeOK, QueuesConsistent, QueueOK
<1>3. /\ QueueOK(Enqueue(queues[p], s, r))
      /\ Enqueue(queues[p], s, r).waiters =
            [queues[p].waiters EXCEPT ![s] = Append(queues[p].waiters[s], r)]
  BY <1>2, EnqueueProperties
<1>4. /\ queues' \in [Priorities -> Queue]
      /\ QueuesConsistent'
      /\ \A q \in Priorities, t \in Subjects :
           queues'[q].waiters[t] = IF q = p /\ t = s THEN Append(queues[p].waiters[s], r)
                                   ELSE queues[q].waiters[t]
  <2>1. /\ TypeOK /\ QueuesConsistent
        /\ queues' = [queues EXCEPT ![p] = Enqueue(queues[p], s, r)]
    BY DEF EnqueueCall
  <2>. DEFINE x == Enqueue(queues[p], s, r)
              new == Append(queues[p].waiters[s], r)
  <2>s. s \in Subjects
    BY <1>1
  <2>q. queues \in [Priorities -> Queue] /\ queues[p].waiters \in [Subjects -> Seq(Requests)]
    BY LineType, QueueFields DEF TypeOK
  <2>2. /\ x \in Queue /\ RotationOK(x)
        /\ x.waiters = [queues[p].waiters EXCEPT ![s] = new]
        /\ queues' = [queues EXCEPT ![p] = x]
    BY <1>3, <2>1 DEF QueueOK
  <2>. HIDE DEF x, new
  <2>3. /\ queues' \in [Priorities -> Queue]
        /\ QueuesConsistent'
        /\ \A q \in Priorities, t \in Subjects :
             queues'[q].waiters[t] = IF q = p /\ t = s THEN new ELSE queues[q].waiters[t]
    <3>1. /\ queues'[p] = x /\ queues'[p].waiters[s] = new
          /\ \A t \in Subjects \ {s} : queues'[p].waiters[t] = queues[p].waiters[t]
          /\ \A q \in Priorities \ {p} : queues'[q] = queues[q]
          /\ queues' \in [Priorities -> Queue]
      BY ONLY <2>q, <2>2, <2>s, p \in Priorities
    <3>2. QueuesConsistent' /\ \A q \in Priorities, t \in Subjects :
             q # p \/ t # s => queues'[q].waiters[t] = queues[q].waiters[t]
      BY ONLY <3>1, <2>1, <2>2, <2>s, p \in Priorities, LineChange
    <3>. QED BY <3>1, <3>2
  <2>. QED BY <2>3 DEF new
<1>5. TypeOK'
  BY <1>4 DEF EnqueueCall, TypeOK, Statuses
<1>6. Holders' = Holders /\ Waiters' = Waiters \cup {r} /\ r \notin Waiters
  BY <1>1 DEF EnqueueCall, Holders, Waiters
<1>7. Cardinality(Waiters') = Cardinality(Waiters) + 1
  BY <1>6, FiniteCounts, FS_AddElement
<1>8. (Accounting /\ WithinLimits /\ WorkConserving)'
  BY <1>6, <1>7, FiniteCounts, ConstantsAssumption
     DEF EnqueueCall, Accounting, WithinLimits, WorkConserving, TypeOK
<1>9. OnePlaceEach'
  <2>1. \A x \in Requests : status'[x] = "waiting" <=> status[x] = "waiting" \/ x = r
    BY <1>1 DEF EnqueueCall
  <2>. QED BY <1>1, <1>4, <2>1, PlaceAdded
<1>. QED BY <1>4, <1>5, <1>8, <1>9

LEMMA RejectWaiterKeeps ==
  ASSUME IInv, NEW r \in Requests, RejectWaiter(r)
  PROVE  IInv'
<1>. USE DEF IInv
<1>1. status \in [Requests -> Statuses] /\ status[r] = "waiting"
  BY DEF RejectWaiter, TypeOK
<1>2. PICK p \in Priorities, s \in Subjects : \E i \in DOMAIN queues[p].waiters[s] :
        /\ queues[p].waiters[s][i] = r
        /\ queues' = [queues EXCEPT ![p] = RemoveWaiter(queues[p], s, i)]
  BY DEF RejectWaiter
<1>3. PICK i \in DOMAIN queues[p].waiters[s] :
        /\ queues[p].waiters[s][i] = r
        /\ queues' = [queues EXCEPT ![p] = RemoveWaiter(queues[p], s, i)]
  BY <1>2
<1>4. QueueOK(queues[p])
  BY DEF TypeOK, QueuesConsistent, QueueOK
<1>5. /\ QueueOK(RemoveWaiter(queues[p], s, i))
      /\ RemoveWaiter(queues[p], s, i).waiters =
            [queues[p].waiters EXCEPT ![s] = RemoveAt(queues[p].waiters[s], i)]
  BY <1>4, RemoveWaiterProperties
<1>6. /\ queues' \in [Priorities -> Queue]
      /\ QueuesConsistent'
      /\ \A q \in Priorities, t \in Subjects :
           queues'[q].waiters[t] = IF q = p /\ t = s THEN RemoveAt(queues[p].waiters[s], i)
                                   ELSE queues[q].waiters[t]
  <2>1. TypeOK /\ QueuesConsistent
    OBVIOUS
  <2>. DEFINE x == RemoveWaiter(queues[p], s, i)
              new == RemoveAt(queues[p].waiters[s], i)
  <2>s. s \in Subjects
    BY <1>1
  <2>q. queues \in [Priorities -> Queue] /\ queues[p].waiters \in [Subjects -> Seq(Requests)]
    BY LineType, QueueFields DEF TypeOK
  <2>2. /\ x \in Queue /\ RotationOK(x)
        /\ x.waiters = [queues[p].waiters EXCEPT ![s] = new]
        /\ queues' = [queues EXCEPT ![p] = x]
    BY <1>3, <1>5 DEF QueueOK
  <2>. HIDE DEF x, new
  <2>3. /\ queues' \in [Priorities -> Queue]
        /\ QueuesConsistent'
        /\ \A q \in Priorities, t \in Subjects :
             queues'[q].waiters[t] = IF q = p /\ t = s THEN new ELSE queues[q].waiters[t]
    <3>1. /\ queues'[p] = x /\ queues'[p].waiters[s] = new
          /\ \A t \in Subjects \ {s} : queues'[p].waiters[t] = queues[p].waiters[t]
          /\ \A q \in Priorities \ {p} : queues'[q] = queues[q]
          /\ queues' \in [Priorities -> Queue]
      BY ONLY <2>q, <2>2, <2>s, p \in Priorities
    <3>2. QueuesConsistent' /\ \A q \in Priorities, t \in Subjects :
             q # p \/ t # s => queues'[q].waiters[t] = queues[q].waiters[t]
      BY ONLY <3>1, <2>1, <2>2, <2>s, p \in Priorities, LineChange
    <3>. QED BY <3>1, <3>2
  <2>. QED BY <2>3 DEF new
<1>7. Holders' = Holders /\ Waiters' = Waiters \ {r} /\ r \in Waiters
  BY <1>1 DEF RejectWaiter, Holders, Waiters
<1>8. Cardinality(Waiters') = Cardinality(Waiters) - 1 /\ Cardinality(Waiters') \in Nat
  BY <1>7, FiniteCounts, FS_RemoveElement, FS_CardinalityType
<1>9. TypeOK'
  BY <1>6, <1>8 DEF RejectWaiter, TypeOK, Statuses, Accounting
<1>10. (Accounting /\ WithinLimits /\ WorkConserving)'
  BY <1>7, <1>8, FiniteCounts, ConstantsAssumption
     DEF RejectWaiter, Accounting, WithinLimits, WorkConserving
<1>11. OnePlaceEach'
  <2>1. \A x \in Requests :
          status'[x] = "waiting" <=> status[x] = "waiting" /\ x # queues[p].waiters[s][i]
    BY <1>1, <1>3 DEF RejectWaiter
  <2>. QED BY <1>6, <2>1, PlaceRemoved
<1>. QED BY <1>6, <1>9, <1>10, <1>11

LEMMA ReleaseIdleKeeps ==
  ASSUME IInv, NEW r \in Requests, ReleaseIdle(r)
  PROVE  IInv'
<1>. USE DEF IInv
<1>1. status \in [Requests -> Statuses] /\ status[r] = "granted"
  BY DEF ReleaseIdle, TypeOK
<1>2. Waiters = {}
  BY EmptyRotations DEF ReleaseIdle
<1>3. Holders' = Holders \ {r} /\ r \in Holders /\ Waiters' = Waiters
  BY <1>1 DEF ReleaseIdle, Holders, Waiters
<1>4. Cardinality(Holders') = Cardinality(Holders) - 1 /\ Cardinality(Holders') \in Nat
  BY <1>3, FiniteCounts, FS_RemoveElement, FS_CardinalityType
<1>5. TypeOK'
  BY <1>4 DEF ReleaseIdle, TypeOK, Statuses, Accounting
<1>6. (Accounting /\ WithinLimits /\ WorkConserving)'
  BY <1>2, <1>3, <1>4, FiniteCounts, ConstantsAssumption
     DEF ReleaseIdle, Accounting, WithinLimits, WorkConserving
<1>7. QueuesConsistent'
  BY DEF ReleaseIdle, QueuesConsistent
<1>8. OnePlaceEach'
  BY <1>1, PlacesKept DEF ReleaseIdle
<1>. QED BY <1>5, <1>6, <1>7, <1>8

LEMMA ReleaseAndDrainKeeps ==
  ASSUME IInv, NEW r \in Requests, NEW p \in Priorities, ReleaseAndDrain(r, p)
  PROVE  IInv'
<1>. USE DEF IInv
<1>. DEFINE s == TurnOf(queues[p])
            line == queues[p].waiters[s]
            w == Head(line)
<1>0. queues[p].subjects # <<>>
  BY DEF ReleaseAndDrain, Served
<1>1. /\ s \in Subjects /\ 1 \in DOMAIN line
      /\ w = line[1] /\ w \in Requests /\ status[w] = "waiting"
      /\ Tail(line) = RemoveAt(line, 1)
  BY <1>0, NextWaiter
<1>2. status \in [Requests -> Statuses] /\ status[r] = "granted" /\ w # r
  BY <1>1 DEF ReleaseAndDrain, TypeOK
<1>3. status' = [status EXCEPT ![r] = "released", ![w] = "granted"]
  BY DEF ReleaseAndDrain
<1>4. /\ QueueOK(queues[p])
      /\ QueueOK(Dequeue(queues[p]))
      /\ Dequeue(queues[p]).waiters = [queues[p].waiters EXCEPT ![s] = RemoveAt(line, 1)]
  <2>1. QueueOK(queues[p])
    BY DEF TypeOK, QueuesConsistent, QueueOK
  <2>2. /\ QueueOK(Dequeue(queues[p]))
        /\ Dequeue(queues[p]).waiters = [queues[p].waiters EXCEPT ![s] = Tail(line)]
    BY <2>1, <1>0, DequeueProperties
  <2>. QED BY <2>1, <2>2, <1>1
<1>. HIDE DEF s, w
<1>5. queues' = [queues EXCEPT ![p] = Dequeue(queues[p])]
  BY DEF ReleaseAndDrain
<1>6. /\ queues' \in [Priorities -> Queue]
      /\ QueuesConsistent'
      /\ \A q \in Priorities, t \in Subjects :
           queues'[q].waiters[t] = IF q = p /\ t = s THEN RemoveAt(line, 1)
                                   ELSE queues[q].waiters[t]
  <2>1. TypeOK /\ QueuesConsistent
    OBVIOUS
  <2>. DEFINE x == Dequeue(queues[p])
              new == RemoveAt(line, 1)
  <2>s. s \in Subjects
    BY <1>1
  <2>q. queues \in [Priorities -> Queue] /\ queues[p].waiters \in [Subjects -> Seq(Requests)]
    BY LineType, QueueFields DEF TypeOK
  <2>2. /\ x \in Queue /\ RotationOK(x)
        /\ x.waiters = [queues[p].waiters EXCEPT ![s] = new]
        /\ queues' = [queues EXCEPT ![p] = x]
    BY <1>4, <1>5 DEF QueueOK
  <2>. HIDE DEF x, new
  <2>3. /\ queues' \in [Priorities -> Queue]
        /\ QueuesConsistent'
        /\ \A q \in Priorities, t \in Subjects :
             queues'[q].waiters[t] = IF q = p /\ t = s THEN new ELSE queues[q].waiters[t]
    <3>1. /\ queues'[p] = x /\ queues'[p].waiters[s] = new
          /\ \A t \in Subjects \ {s} : queues'[p].waiters[t] = queues[p].waiters[t]
          /\ \A q \in Priorities \ {p} : queues'[q] = queues[q]
          /\ queues' \in [Priorities -> Queue]
      BY ONLY <2>q, <2>2, <2>s, p \in Priorities
    <3>2. QueuesConsistent' /\ \A q \in Priorities, t \in Subjects :
             q # p \/ t # s => queues'[q].waiters[t] = queues[q].waiters[t]
      BY ONLY <3>1, <2>1, <2>2, <2>s, p \in Priorities, LineChange
    <3>. QED BY <3>1, <3>2
  <2>. QED BY <2>3 DEF new
<1>7. /\ Holders' = (Holders \ {r}) \cup {w} /\ r \in Holders /\ w \notin Holders \ {r}
      /\ Waiters' = Waiters \ {w} /\ w \in Waiters
  BY <1>1, <1>2, <1>3 DEF Holders, Waiters
<1>8. Cardinality(Holders') = Cardinality(Holders)
  <2>1. /\ IsFiniteSet(Holders \ {r})
        /\ Cardinality(Holders \ {r}) = Cardinality(Holders) - 1
    BY <1>7, FiniteCounts, FS_RemoveElement
  <2>2. Cardinality((Holders \ {r}) \cup {w}) = Cardinality(Holders \ {r}) + 1
    BY <2>1, <1>7, FS_AddElement
  <2>. QED BY <2>1, <2>2, <1>7, FiniteCounts
<1>9. Cardinality(Waiters') = Cardinality(Waiters) - 1 /\ Cardinality(Waiters') \in Nat
  BY <1>7, FiniteCounts, FS_RemoveElement, FS_CardinalityType
<1>10. TypeOK'
  BY <1>1, <1>2, <1>3, <1>6, <1>9 DEF ReleaseAndDrain, TypeOK, Statuses, Accounting
<1>11. (Accounting /\ WithinLimits /\ WorkConserving)'
  BY <1>7, <1>8, <1>9, FiniteCounts, ConstantsAssumption
     DEF ReleaseAndDrain, Accounting, WithinLimits, WorkConserving
<1>12. OnePlaceEach'
  <2>1. \A x \in Requests : status'[x] = "waiting" <=> status[x] = "waiting" /\ x # line[1]
    BY <1>1, <1>2, <1>3
  <2>. QED BY <1>1, <1>6, <2>1, PlaceRemoved
<1>. QED BY <1>6, <1>10, <1>11, <1>12

LEMMA StepInvariant == IInv /\ [Next]_vars => IInv'
<1>. SUFFICES ASSUME IInv, [Next]_vars PROVE IInv'
  OBVIOUS
<1>1. ASSUME NEW r \in Requests, RejectCall(r) PROVE IInv'
  BY <1>1, RejectCallKeeps
<1>2. ASSUME NEW r \in Requests, GrantCall(r) PROVE IInv'
  BY <1>2, GrantCallKeeps
<1>3. ASSUME NEW r \in Requests, NEW w \in Workload, EnqueueCall(r, w[1], w[2]) PROVE IInv'
  <2>1. w[1] \in Priorities /\ w[2] \in Subjects
    BY ConstantsAssumption
  <2>. QED BY <1>3, <2>1, EnqueueCallKeeps
<1>4. ASSUME NEW r \in Requests, RejectWaiter(r) PROVE IInv'
  BY <1>4, RejectWaiterKeeps
<1>5. ASSUME NEW r \in Requests, ReleaseIdle(r) PROVE IInv'
  BY <1>5, ReleaseIdleKeeps
<1>6. ASSUME NEW r \in Requests, NEW p \in Priorities, ReleaseAndDrain(r, p) PROVE IInv'
  BY <1>6, ReleaseAndDrainKeeps
<1>7. ASSUME UNCHANGED vars PROVE IInv'
  BY <1>7 DEF vars, IInv, TypeOK, Accounting, WithinLimits, WorkConserving,
     QueuesConsistent, RotationOK, OnePlaceEach, WaiterAt, Holders, Waiters
<1>. QED
  BY <1>1, <1>2, <1>3, <1>4, <1>5, <1>6, <1>7
     DEF Next, Acquire, Release, ReleaseAgain

(* The invariant holds of every behaviour of the governor.                 *)
THEOREM Invariance == Spec => []IInv
<1>. QED BY InitInvariant, StepInvariant, PTL DEF Spec

(* Type correctness.                                                       *)
THEOREM TypeCorrect == Spec => []TypeOK
<1>1. IInv => TypeOK
  BY DEF IInv
<1>. QED BY <1>1, Invariance, PTL

(* The concurrency cap: never more leases out than activeLimit, never more *)
(* waiters than queueLimit.                                                *)
THEOREM CapRespected == Spec => []WithinLimits
<1>1. IInv => WithinLimits
  BY DEF IInv
<1>. QED BY <1>1, Invariance, PTL

(* Nobody waits while a permit is free: no wake-up is lost.                *)
THEOREM NoLostWakeUp == Spec => []WorkConserving
<1>1. IInv => WorkConserving
  BY DEF IInv
<1>. QED BY <1>1, Invariance, PTL

(* The counters count the leases and waiters.                              *)
THEOREM CountersExact == Spec => []Accounting
<1>1. IInv => Accounting
  BY DEF IInv
<1>. QED BY <1>1, Invariance, PTL

(* The rotations and the waiting lines are in step, and whoever waits has   *)
(* one place in one line: a waiter is granted or rejected, never both.      *)
THEOREM LinesConsistent == Spec => [](QueuesConsistent /\ OnePlaceEach)
<1>1. IInv => QueuesConsistent /\ OnePlaceEach
  BY DEF IInv
<1>. QED BY <1>1, Invariance, PTL

-----------------------------------------------------------------------------
(* Admission is implemented: each handler is a step of it or changes        *)
(* neither the holders nor the lines.                                       *)

linesShown == [p \in Priorities |-> queues[p].waiters]

(* The instance has its own copy of Cardinality.                            *)
LEMMA CardinalityOfA ==
  ASSUME NEW S PROVE A!Cardinality(S) = Cardinality(S)
BY DEF A!Cardinality, Cardinality

LEMMA LinesShown ==
  ASSUME NEW p \in Priorities, NEW s \in Subjects
  PROVE  linesShown[p][s] = queues[p].waiters[s]
BY DEF linesShown

LEMMA SameLines ==
  ASSUME queues' = queues
  PROVE  linesShown' = linesShown
BY DEF linesShown

(* One line changes.                                                        *)
LEMMA LineShown ==
  ASSUME NEW p \in Priorities, NEW s \in Subjects, NEW new,
         \A q \in Priorities \ {p} : queues'[q] = queues[q],
         queues'[p].waiters = [queues[p].waiters EXCEPT ![s] = new]
  PROVE  linesShown' = [linesShown EXCEPT ![p][s] = new]
<1>1. \A q \in Priorities : queues'[q].waiters =
        IF q = p THEN [queues[p].waiters EXCEPT ![s] = new] ELSE queues[q].waiters
  OBVIOUS
<1>2. linesShown' = [q \in Priorities |-> IF q = p THEN [linesShown[p] EXCEPT ![s] = new]
                                          ELSE linesShown[q]]
  BY <1>1 DEF linesShown
<1>. QED BY <1>2 DEF linesShown

(* Whoever is in a line waits.                                              *)
LEMMA WaitingShown ==
  ASSUME IInv
  PROVE  A!Waiting = Waiters
<1>1. \A p \in Priorities, s \in Subjects :
        DOMAIN queues[p].waiters[s] = 1..Len(queues[p].waiters[s])
  BY LineType DEF IInv
<1>2. A!Waiting = {r \in Requests : \E p \in Priorities, s \in Subjects :
                     \E i \in 1..Len(linesShown[p][s]) : linesShown[p][s][i] = r}
  BY DEF A!Waiting, A!Lined, linesShown
<1>3. A!Waiting = {r \in Requests : \E p \in Priorities, s \in Subjects :
                     \E i \in DOMAIN queues[p].waiters[s] : queues[p].waiters[s][i] = r}
  BY <1>1, <1>2, LinesShown
<1>4. ASSUME NEW r \in Requests
      PROVE  r \in Waiters <=> \E p \in Priorities, s \in Subjects :
                     \E i \in DOMAIN queues[p].waiters[s] : queues[p].waiters[s][i] = r
  BY DEF IInv, OnePlaceEach, WaiterAt, Waiters
<1>5. Waiters \subseteq Requests
  BY DEF Waiters
<1>. QED BY <1>3, <1>4, <1>5

(* A line that is not empty has a waiter.                                   *)
LEMMA NoWaiters ==
  ASSUME IInv, Waiters = {}
  PROVE  A!NobodyWaits
<1>1. ASSUME NEW p \in Priorities, NEW s \in Subjects, queues[p].waiters[s] # <<>>
      PROVE  FALSE
  <2>1. /\ queues[p].waiters[s] \in Seq(Requests)
        /\ DOMAIN queues[p].waiters[s] = 1..Len(queues[p].waiters[s])
    BY LineType DEF IInv
  <2>2. 1 \in DOMAIN queues[p].waiters[s] /\ queues[p].waiters[s][1] \in Requests
    BY <1>1, <2>1
  <2>3. status[queues[p].waiters[s][1]] = "waiting"
    BY <2>2 DEF IInv, OnePlaceEach, WaiterAt
  <2>. QED BY <2>2, <2>3 DEF Waiters
<1>2. \A p \in Priorities, s \in Subjects : linesShown[p][s] = <<>>
  BY <1>1, LinesShown
<1>. QED BY <1>2 DEF A!NobodyWaits, linesShown

(* A rotation without subjects has no lines.                                *)
LEMMA NoSubjectNoLine ==
  ASSUME IInv, NEW p \in Priorities, queues[p].subjects = <<>>, NEW s \in Subjects
  PROVE  linesShown[p][s] = <<>>
<1>1. queues[p].waiters[s] = <<>>
  BY DEF IInv, QueuesConsistent, RotationOK
<1>. QED BY <1>1, LinesShown

LEMMA GrantAdmits ==
  ASSUME IInv, NEW r \in Requests, GrantCall(r)
  PROVE  A!Admit(r)
<1>1. /\ r \notin Holders /\ Holders' = Holders \cup {r} /\ queues' = queues
      /\ active < ActiveLimit
  BY DEF GrantCall, Calls, Holders, IInv, TypeOK
<1>2. Waiters = {}
  BY <1>1, ConstantsAssumption DEF IInv, WorkConserving, TypeOK
<1>3. A!NobodyWaits
  BY <1>2, NoWaiters
<1>4. A!Cardinality(Holders) < ActiveLimit
  BY <1>1, CardinalityOfA DEF IInv, Accounting
<1>. QED BY <1>1, <1>3, <1>4, SameLines DEF A!Admit, linesShown

LEMMA EnqueueWaits ==
  ASSUME IInv, NEW r \in Requests, NEW p \in Priorities, NEW s \in Subjects, EnqueueCall(r, p, s)
  PROVE  A!Wait(r, p, s)
<1>1. /\ r \notin Holders /\ r \notin Waiters /\ Holders' = Holders
      /\ active >= ActiveLimit /\ queued < QueueLimit
      /\ queues' = [queues EXCEPT ![p] = Enqueue(queues[p], s, r)]
  BY DEF EnqueueCall, Calls, Holders, Waiters, IInv, TypeOK
<1>2. r \notin Holders \cup A!Waiting
  BY <1>1, WaitingShown
<1>3. A!Cardinality(Holders) = ActiveLimit
  BY <1>1, CardinalityOfA, FiniteCounts, ConstantsAssumption DEF IInv, Accounting, WithinLimits
<1>4. A!Cardinality(A!Waiting) < QueueLimit
  BY <1>1, CardinalityOfA, WaitingShown DEF IInv, Accounting
<1>5. linesShown' = [linesShown EXCEPT ![p][s] = Append(@, r)]
  <2>1. QueueOK(queues[p]) /\ TypeOK
    BY DEF IInv, TypeOK, QueuesConsistent, QueueOK
  <2>2. Enqueue(queues[p], s, r).waiters =
          [queues[p].waiters EXCEPT ![s] = Append(queues[p].waiters[s], r)]
    BY <2>1, EnqueueProperties
  <2>3. linesShown' = [linesShown EXCEPT ![p][s] = Append(queues[p].waiters[s], r)]
    <3>1. /\ \A q \in Priorities \ {p} : queues'[q] = queues[q]
          /\ queues'[p] = Enqueue(queues[p], s, r)
      BY <1>1, <2>1 DEF TypeOK
    <3>2. PICK new : new = Append(queues[p].waiters[s], r)
      OBVIOUS
    <3>3. queues'[p].waiters = [queues[p].waiters EXCEPT ![s] = new]
      BY <2>2, <3>1, <3>2
    <3>4. linesShown' = [linesShown EXCEPT ![p][s] = new]
      BY <3>1, <3>3, LineShown
    <3>. QED BY <3>2, <3>4
  <2>. QED BY <2>3, LinesShown
<1>. QED BY <1>1, <1>2, <1>3, <1>4, <1>5 DEF A!Wait, linesShown

LEMMA RejectWithdraws ==
  ASSUME IInv, NEW r \in Requests, RejectWaiter(r)
  PROVE  A!ANext
<1>1. PICK p \in Priorities, s \in Subjects : \E i \in DOMAIN queues[p].waiters[s] :
        queues' = [queues EXCEPT ![p] = RemoveWaiter(queues[p], s, i)]
  BY DEF RejectWaiter
<1>2. PICK i \in DOMAIN queues[p].waiters[s] :
        queues' = [queues EXCEPT ![p] = RemoveWaiter(queues[p], s, i)]
  BY <1>1
<1>3. Holders' = Holders
  BY DEF RejectWaiter, Holders, IInv, TypeOK
<1>4. QueueOK(queues[p]) /\ TypeOK
  BY DEF IInv, TypeOK, QueuesConsistent, QueueOK
<1>5. linesShown' = [linesShown EXCEPT ![p][s] = RemoveAt(queues[p].waiters[s], i)]
  <2>1. RemoveWaiter(queues[p], s, i).waiters =
          [queues[p].waiters EXCEPT ![s] = RemoveAt(queues[p].waiters[s], i)]
    BY <1>4, RemoveWaiterProperties
  <2>2. /\ \A q \in Priorities \ {p} : queues'[q] = queues[q]
        /\ queues'[p] = RemoveWaiter(queues[p], s, i)
    BY <1>2, <1>4 DEF TypeOK
  <2>. QED BY <2>1, <2>2, LineShown
<1>6. i \in 1..Len(linesShown[p][s])
  BY <1>4, LineType, LinesShown
<1>7. linesShown' = [linesShown EXCEPT ![p][s] =
                       SubSeq(@, 1, i - 1) \o SubSeq(@, i + 1, Len(@))]
  BY <1>5, LinesShown DEF RemoveAt
<1>8. A!Withdraw(p, s, i)
  BY <1>3, <1>6, <1>7 DEF A!Withdraw, linesShown
<1>. QED BY <1>6, <1>8 DEF A!ANext, linesShown

LEMMA ReleaseGivesBack ==
  ASSUME IInv, NEW r \in Requests, ReleaseIdle(r)
  PROVE  A!GiveBack(r)
<1>1. r \in Holders /\ Holders' = Holders \ {r} /\ queues' = queues
  BY DEF ReleaseIdle, Holders, IInv, TypeOK
<1>2. A!NobodyWaits
  <2>1. \A p \in Priorities, s \in Subjects : linesShown[p][s] = <<>>
    BY NoSubjectNoLine DEF ReleaseIdle
  <2>. QED BY <2>1 DEF A!NobodyWaits, linesShown
<1>. QED BY <1>1, <1>2, SameLines DEF A!GiveBack, linesShown

LEMMA DrainHandsOver ==
  ASSUME IInv, NEW r \in Requests, NEW p \in Priorities, ReleaseAndDrain(r, p)
  PROVE  A!ANext
<1>t. TypeOK /\ QueuesConsistent /\ OnePlaceEach /\ QueueOK(queues[p])
  BY DEF IInv, TypeOK, QueuesConsistent, QueueOK
<1>1. /\ queues[p].subjects # <<>> /\ status[r] = "granted"
      /\ \A q \in Priorities : q < p => queues[q].subjects = <<>>
      /\ status' = [status EXCEPT ![r] = "released",
                                 ![Head(queues[p].waiters[TurnOf(queues[p])])] = "granted"]
      /\ queues' = [queues EXCEPT ![p] = Dequeue(queues[p])]
  BY DEF ReleaseAndDrain, Served
<1>2. PICK s : s = TurnOf(queues[p])
  OBVIOUS
<1>3. PICK line : line = queues[p].waiters[s]
  OBVIOUS
<1>4. PICK w : w = Head(line)
  OBVIOUS
<1>5. s \in Subjects /\ line # <<>> /\ w \in Requests /\ status[w] = "waiting"
  <2>1. LET u == TurnOf(queues[p])
            l == queues[p].waiters[u]
        IN  u \in Subjects /\ l # <<>> /\ Head(l) \in Requests /\ status[Head(l)] = "waiting"
    BY <1>1, <1>t, NextWaiter, TurnOfProperties
  <2>. QED BY <1>2, <1>3, <1>4, <2>1
<1>6. r \in Holders /\ Holders' = (Holders \ {r}) \cup {w}
  BY <1>1, <1>2, <1>3, <1>4, <1>5, <1>t DEF Holders, TypeOK
<1>7. line = linesShown[p][s] /\ w = Head(linesShown[p][s])
  BY <1>3, <1>4, <1>5, LinesShown
<1>8. linesShown' = [linesShown EXCEPT ![p][s] = Tail(@)]
  <2>1. PICK new : new = Tail(line)
    OBVIOUS
  <2>2. Dequeue(queues[p]).waiters = [queues[p].waiters EXCEPT ![s] = new]
    <3>1. Dequeue(queues[p]).waiters =
            [queues[p].waiters EXCEPT ![TurnOf(queues[p])] = Tail(@)]
      BY <1>1, <1>t, DequeueProperties
    <3>2. Tail(queues[p].waiters[TurnOf(queues[p])]) = new
      BY <1>2, <1>3, <2>1
    <3>3. Dequeue(queues[p]).waiters = [queues[p].waiters EXCEPT ![TurnOf(queues[p])] = new]
      BY <3>1, <3>2
    <3>. QED BY <1>2, <3>3
  <2>3. /\ \A q \in Priorities \ {p} : queues'[q] = queues[q]
        /\ queues'[p] = Dequeue(queues[p])
    BY <1>1, <1>t DEF TypeOK
  <2>4. linesShown' = [linesShown EXCEPT ![p][s] = new]
    <3>1. queues'[p].waiters = [queues[p].waiters EXCEPT ![s] = new]
      BY <2>2, <2>3
    <3>2. \A q \in Priorities \ {p} : queues'[q] = queues[q]
      BY <2>3
    <3>3. s \in Subjects
      BY <1>5
    <3>. QED BY <3>1, <3>2, <3>3, LineShown
  <2>. QED BY <1>7, <2>1, <2>4
<1>9. A!MostUrgent(p)
  <2>1. \A q \in Priorities : q < p => \A t \in Subjects : linesShown[q][t] = <<>>
    BY <1>1, NoSubjectNoLine
  <2>. QED BY <2>1 DEF A!MostUrgent, linesShown
<1>10. A!HandOver(r, p, s)
  BY <1>5, <1>6, <1>7, <1>8, <1>9 DEF A!HandOver, linesShown
<1>. QED BY <1>5, <1>10 DEF A!ANext

LEMMA AdmissionInit == Init => A!AInit
<1>. SUFFICES ASSUME Init PROVE A!AInit
  OBVIOUS
<1>1. Holders = {}
  BY DEF Init, Holders
<1>2. linesShown = [p \in Priorities |-> [s \in Subjects |-> <<>>]]
  BY DEF Init, linesShown, EmptyQueue
<1>. QED BY <1>1, <1>2 DEF A!AInit, linesShown

LEMMA AdmissionNext == IInv /\ [Next]_vars => [A!ANext]_(A!avars)
<1>. SUFFICES ASSUME IInv, [Next]_vars PROVE A!ANext \/ UNCHANGED A!avars
  OBVIOUS
<1>0. ASSUME Holders' = Holders, queues' = queues PROVE UNCHANGED A!avars
  BY <1>0, SameLines DEF A!avars, linesShown
<1>1. ASSUME NEW r \in Requests, RejectCall(r) PROVE UNCHANGED A!avars
  <2>1. Holders' = Holders /\ queues' = queues
    BY <1>1 DEF RejectCall, Calls, Holders, IInv, TypeOK
  <2>. QED BY <2>1, <1>0
<1>2. CASE UNCHANGED vars
  BY <1>2, <1>0 DEF vars, Holders
<1>3. ASSUME NEW r \in Requests, GrantCall(r) \/ ReleaseIdle(r) PROVE A!ANext
  BY <1>3, GrantAdmits, ReleaseGivesBack DEF A!ANext
<1>4. ASSUME NEW r \in Requests, NEW w \in Workload, EnqueueCall(r, w[1], w[2]) PROVE A!ANext
  <2>1. w[1] \in Priorities /\ w[2] \in Subjects
    BY ConstantsAssumption
  <2>2. A!Wait(r, w[1], w[2])
    BY <1>4, <2>1, EnqueueWaits
  <2>. QED BY <2>1, <2>2 DEF A!ANext
<1>5. ASSUME NEW r \in Requests, RejectWaiter(r) PROVE A!ANext
  BY <1>5, RejectWithdraws
<1>6. ASSUME NEW r \in Requests, NEW p \in Priorities, ReleaseAndDrain(r, p) PROVE A!ANext
  BY <1>6, DrainHandsOver
<1>. QED
  BY <1>1, <1>2, <1>3, <1>4, <1>5, <1>6 DEF Next, Acquire, Release, ReleaseAgain

(* No barging, strict priority, first come first served within a subject,   *)
(* and a freed permit never goes idle past a waiter.                        *)
THEOREM AdmissionImplemented == Spec => ImplementsAdmission
<1>1. A!AInit /\ [][A!ANext]_(A!avars) => ImplementsAdmission
  BY PTL DEF ImplementsAdmission, A!ASpec
<1>. QED BY AdmissionInit, AdmissionNext, Invariance, <1>1, PTL DEF Spec

-----------------------------------------------------------------------------
(* Two subjects take turns.  What was served past a waiting subject is      *)
(* behind it in the rotation: with two subjects, the cursor is at the one   *)
(* that was passed.  Of three this is false, since the cursor may stay on   *)
(* the third.                                                               *)

InLine(q, s) == q.waiters[s] # <<>>

TurnFollows(q, served) ==
  \A s, t \in Subjects :
    s # t /\ InLine(q, s) /\ InLine(q, t) /\ t \in served[s] => TurnOf(q) = s

PassedIsNext == \A p \in Priorities : TurnFollows(queues[p], passed[p])

LinesInWorkload ==
  \A p \in Priorities, s \in Subjects : InLine(queues[p], s) => <<p, s>> \in Workload

Pair(a, b) == a # b /\ Subjects = {a, b}

(* Two subjects with waiters fill the rotation.                             *)
LEMMA BothInRotation ==
  ASSUME NEW q, QueueOK(q), NEW a, NEW b, Pair(a, b), InLine(q, a), InLine(q, b)
  PROVE  /\ Len(q.subjects) = 2
         /\ q.cursor \in 0..1
         /\ q.subjects[1] \in Subjects /\ q.subjects[2] \in Subjects
         /\ q.subjects[1] # q.subjects[2]
         /\ TurnOf(q) = q.subjects[q.cursor + 1]
<1>. DEFINE subs == q.subjects
<1>1. /\ subs \in Seq(Subjects) /\ Len(subs) \in Nat /\ DOMAIN subs = 1..Len(subs)
      /\ q.cursor \in Nat
  BY QueueFields DEF QueueOK
<1>2. /\ \A i, j \in 1..Len(subs) : subs[i] = subs[j] => i = j
      /\ q.cursor = 0 \/ q.cursor < Len(subs)
  BY <1>1 DEF QueueOK, RotationOK
<1>3. a \in Subjects /\ b \in Subjects /\ a # b
  BY DEF Pair
<1>4. PICK i, j \in 1..Len(subs) : subs[i] = a /\ subs[j] = b
  BY <1>1, <1>3 DEF QueueOK, RotationOK, InLine
<1>5. \A k \in 1..Len(subs) : subs[k] \in {a, b}
  BY <1>1 DEF Pair
<1>6. \A k \in 1..Len(subs) : k = i \/ k = j
  BY <1>2, <1>4, <1>5
<1>7. i # j
  BY <1>3, <1>4
<1>. HIDE DEF subs
<1>8. Len(subs) = 2
  <2>1. i \in Nat /\ j \in Nat /\ i >= 1 /\ j >= 1 /\ i <= Len(subs) /\ j <= Len(subs)
    BY <1>1
  <2>2. Len(subs) >= 2
    BY <2>1, <1>1, <1>7
  <2>3. ~ (Len(subs) >= 3)
    <3>. SUFFICES ASSUME Len(subs) >= 3 PROVE FALSE
      OBVIOUS
    <3>1. 1 \in 1..Len(subs) /\ 2 \in 1..Len(subs) /\ 3 \in 1..Len(subs)
      BY <1>1
    <3>. QED BY ONLY <3>1, <1>6
  <2>. QED BY <2>2, <2>3, <1>1
<1>9. subs[1] # subs[2]
  BY <1>2, <1>8
<1>10. subs[1] \in Subjects /\ subs[2] \in Subjects
  <2>1. \A k \in 1..Len(subs) : subs[k] \in Subjects
    BY <1>1, ElementOfSeq
  <2>2. 1 \in 1..Len(subs) /\ 2 \in 1..Len(subs)
    BY <1>8
  <2>. QED BY ONLY <2>1, <2>2
<1>11. q.cursor \in 0..1
  BY <1>1, <1>2, <1>8
<1>12. q.cursor % Len(subs) = q.cursor
  BY <1>8, <1>11
<1>. QED BY <1>8, <1>9, <1>10, <1>11, <1>12 DEF TurnOf, subs

(* One subject with waiters is alone in it.                                 *)
LEMMA AloneInRotation ==
  ASSUME NEW q, QueueOK(q), NEW a, NEW b, Pair(a, b), InLine(q, a), ~InLine(q, b)
  PROVE  Len(q.subjects) = 1 /\ q.subjects[1] = a /\ q.cursor = 0
<1>. DEFINE subs == q.subjects
<1>1. /\ subs \in Seq(Subjects) /\ Len(subs) \in Nat /\ DOMAIN subs = 1..Len(subs)
      /\ q.cursor \in Nat
  BY QueueFields DEF QueueOK
<1>2. /\ \A i, j \in 1..Len(subs) : subs[i] = subs[j] => i = j
      /\ q.cursor = 0 \/ q.cursor < Len(subs)
  BY <1>1 DEF QueueOK, RotationOK
<1>3. a \in Subjects /\ b \in Subjects
  BY DEF Pair
<1>4. PICK i \in 1..Len(subs) : subs[i] = a
  BY <1>1, <1>3 DEF QueueOK, RotationOK, InLine
<1>5. \A k \in 1..Len(subs) : subs[k] # b
  BY <1>1, <1>3 DEF QueueOK, RotationOK, InLine
<1>6. \A k \in 1..Len(subs) : subs[k] = a
  BY <1>1, <1>5 DEF Pair
<1>. HIDE DEF subs
<1>7. \A k \in 1..Len(subs) : k = i
  BY <1>2, <1>4, <1>6
<1>8. 1 \in 1..Len(subs) /\ (Len(subs) >= 2 => 2 \in 1..Len(subs))
  BY <1>1
<1>9. Len(subs) = 1
  BY <1>1, <1>7, <1>8
<1>. QED BY <1>1, <1>2, <1>6, <1>8, <1>9 DEF subs

(* A subject that joins or leaves the rotation of the other does not move   *)
(* the cursor away from it.                                                 *)
LEMMA EnqueueKeepsTurn ==
  ASSUME NEW q, QueueOK(q), NEW s, NEW t, Pair(s, t), NEW x \in Subjects, NEW r \in Requests,
         InLine(q, s), InLine(Enqueue(q, x, r), t), InLine(q, t) => TurnOf(q) = s
  PROVE  TurnOf(Enqueue(q, x, r)) = s
<1>. DEFINE e == Enqueue(q, x, r)
            subs == IF q.waiters[x] = <<>> THEN Append(q.subjects, x) ELSE q.subjects
<1>1. /\ q.subjects \in Seq(Subjects) /\ Len(q.subjects) \in Nat
      /\ q.waiters \in [Subjects -> Seq(Requests)]
  BY QueueFields DEF QueueOK
<1>2. e.subjects = subs /\ e.cursor = q.cursor
  BY DEF Enqueue, WithLine
<1>3. e.waiters = [q.waiters EXCEPT ![x] = Append(@, r)]
  BY EnqueueProperties
<1>4. \A y \in Subjects \ {x} : e.waiters[y] = q.waiters[y]
  BY <1>1, <1>3
<1>5. InLine(e, t) /\ (InLine(e, t) <=> e.waiters[t] # <<>>)
  BY DEF InLine
<1>. HIDE DEF e
<1>6. CASE InLine(q, t)
  <2>1. x \in {s, t}
    BY DEF Pair
  <2>2. q.waiters[x] # <<>>
    BY <1>6, <2>1 DEF InLine
  <2>3. e.subjects = q.subjects
    BY <1>2, <2>2
  <2>. QED BY <1>2, <1>6, <2>3 DEF TurnOf, e
<1>7. CASE ~InLine(q, t)
  <2>1. Len(q.subjects) = 1 /\ q.subjects[1] = s /\ q.cursor = 0
    BY <1>7, AloneInRotation
  <2>2. x = t
    BY <1>4, <1>5, <1>7 DEF InLine, Pair
  <2>3. q.waiters[x] = <<>>
    BY <1>7, <2>2 DEF InLine
  <2>4. e.subjects = Append(q.subjects, x)
    BY <1>2, <2>3
  <2>5. Len(e.subjects) = 2 /\ e.subjects[1] = s
    BY <1>1, <2>1, <2>4
  <2>6. e.cursor = 0 /\ 0 % 2 = 0
    BY <1>2, <2>1
  <2>7. TurnOf(e) = e.subjects[1]
    BY <2>5, <2>6 DEF TurnOf
  <2>. QED BY <2>5, <2>7 DEF e
<1>. QED BY <1>6, <1>7

LEMMA RemoveKeepsTurn ==
  ASSUME NEW q, QueueOK(q), NEW x \in Subjects, NEW i \in DOMAIN q.waiters[x],
         InLine(RemoveWaiter(q, x, i), x)
  PROVE  TurnOf(RemoveWaiter(q, x, i)) = TurnOf(q)
<1>. DEFINE line == RemoveAt(q.waiters[x], i)
            left == WithLine(q, x, line)
<1>1. q.waiters \in [Subjects -> Seq(Requests)]
  BY QueueFields DEF QueueOK
<1>2. RemoveWaiter(q, x, i).waiters = [q.waiters EXCEPT ![x] = line]
  BY RemoveWaiterProperties
<1>3. RemoveWaiter(q, x, i).waiters[x] = line
  BY <1>1, <1>2
<1>4. left.waiters[x] = line
  BY <1>1 DEF WithLine
<1>5. RemoveWaiter(q, x, i) = IF left.waiters[x] = <<>> THEN RemoveSubject(left, x) ELSE left
  BY DEF RemoveWaiter
<1>6. left.subjects = q.subjects /\ left.cursor = q.cursor
  BY DEF WithLine
<1>. HIDE DEF left, line
<1>7. RemoveWaiter(q, x, i) = left
  BY <1>3, <1>4, <1>5 DEF InLine
<1>. QED BY <1>6, <1>7 DEF TurnOf

(* A subject that was served and still has waiters is followed by the other.*)
LEMMA DequeueTurns ==
  ASSUME NEW q, QueueOK(q), q.subjects # <<>>, NEW s, NEW t, Pair(s, t),
         TurnOf(q) = t, InLine(q, s), InLine(Dequeue(q), t)
  PROVE  TurnOf(Dequeue(q)) = s
<1>. DEFINE line == Tail(q.waiters[t])
            left == WithLine(q, t, line)
            c == (q.cursor + 1) % Len(q.subjects)
<1>1. q.waiters \in [Subjects -> Seq(Requests)] /\ t \in Subjects /\ s \in Subjects
  BY QueueFields DEF QueueOK, Pair
<1>2. Dequeue(q).waiters = [q.waiters EXCEPT ![t] = line]
  BY DequeueProperties
<1>3. Dequeue(q).waiters[t] = line
  BY <1>1, <1>2
<1>4. q.cursor % Len(q.subjects) = q.cursor /\ InLine(q, t)
  BY TurnOfProperties DEF InLine
<1>5. left.waiters[t] = line
  BY <1>1 DEF WithLine
<1>6. Dequeue(q) = IF left.waiters[t] = <<>> THEN RemoveSubject(left, t)
                   ELSE [left EXCEPT !.cursor = c]
  BY <1>4 DEF Dequeue
<1>7. left = [subjects |-> q.subjects, waiters |-> left.waiters, cursor |-> q.cursor]
  BY DEF WithLine
<1>. HIDE DEF left, line, c
<1>8. Dequeue(q) = [left EXCEPT !.cursor = c]
  BY <1>3, <1>5, <1>6 DEF InLine
<1>9. Dequeue(q).subjects = q.subjects /\ Dequeue(q).cursor = c
  BY ONLY <1>7, <1>8
<1>10. Pair(t, s)
  BY DEF Pair
<1>11. /\ Len(q.subjects) = 2 /\ q.cursor \in 0..1
       /\ q.subjects[1] \in Subjects /\ q.subjects[2] \in Subjects
       /\ q.subjects[1] # q.subjects[2]
       /\ TurnOf(q) = q.subjects[q.cursor + 1]
  BY <1>4, <1>10, BothInRotation
<1>12. TurnOf(Dequeue(q)) = q.subjects[(c % 2) + 1]
  BY <1>9, <1>11 DEF TurnOf
<1>13. c = (q.cursor + 1) % 2
  BY <1>11 DEF c
<1>14. CASE q.cursor = 0
  <2>1. (c % 2) + 1 = 2
    BY <1>13, <1>14
  <2>. QED BY <1>11, <1>12, <1>14, <2>1 DEF Pair
<1>15. CASE q.cursor = 1
  <2>1. (c % 2) + 1 = 1
    BY <1>13, <1>15
  <2>. QED BY <1>11, <1>12, <1>15, <2>1 DEF Pair
<1>. QED BY <1>11, <1>14, <1>15

(* What the history becomes.                                                *)
LEMMA PassedNext ==
  ASSUME RNext, NEW p \in Priorities, NEW s \in Subjects
  PROVE  passed'[p][s] =
           IF ~InRotation(queues, p, s) \/ ~InRotation(queues', p, s) \/ <<p, s>> \in ServedNow
           THEN {}
           ELSE passed[p][s] \cup {t \in Subjects : <<p, t>> \in ServedNow}
BY DEF RNext

(* A step that grants no waiter serves nobody.                              *)
LEMMA NobodyServed ==
  ASSUME IInv, \A x \in Requests : status[x] = "waiting" => status'[x] # "granted"
  PROVE  ServedNow = {}
<1>. SUFFICES ASSUME NEW w \in ServedNow PROVE FALSE
  OBVIOUS
<1>1. w \in Workload /\ w[1] \in Priorities /\ w[2] \in Subjects
  BY ConstantsAssumption DEF ServedNow
<1>2. PICK i \in DOMAIN queues[w[1]].waiters[w[2]] : status'[WaiterAt(w[1], w[2], i)] = "granted"
  BY DEF ServedNow
<1>3. WaiterAt(w[1], w[2], i) \in Requests
  BY <1>1, LineType DEF IInv, WaiterAt
<1>4. status[WaiterAt(w[1], w[2], i)] = "waiting"
  BY <1>1 DEF IInv, OnePlaceEach
<1>. QED BY <1>2, <1>3, <1>4

(* A release serves the subject whose turn it is, and no other.             *)
LEMMA TurnServed ==
  ASSUME IInv, LinesInWorkload, NEW r \in Requests, NEW p \in Priorities, ReleaseAndDrain(r, p)
  PROVE  /\ TurnOf(queues[p]) \in Subjects /\ InLine(queues[p], TurnOf(queues[p]))
         /\ ServedNow = {<<p, TurnOf(queues[p])>>}
<1>. DEFINE s == TurnOf(queues[p])
            line == queues[p].waiters[s]
            w == Head(line)
<1>1. queues[p].subjects # <<>>
  BY DEF ReleaseAndDrain, Served
<1>2. /\ s \in Subjects /\ 1 \in DOMAIN line
      /\ w = line[1] /\ w \in Requests /\ status[w] = "waiting"
  BY <1>1, NextWaiter DEF IInv
<1>3. status \in [Requests -> Statuses] /\ status[r] = "granted" /\ w # r
  BY <1>2 DEF ReleaseAndDrain, IInv, TypeOK
<1>4. status' = [status EXCEPT ![r] = "released", ![w] = "granted"]
  BY DEF ReleaseAndDrain
<1>5. QueueOK(queues[p])
  BY DEF IInv, TypeOK, QueuesConsistent, QueueOK
<1>6. InLine(queues[p], s)
  BY <1>1, <1>5, TurnOfProperties DEF InLine
<1>7. <<p, s>> \in Workload
  BY <1>2, <1>6 DEF LinesInWorkload
<1>8. WaiterAt(p, s, 1) = w
  BY <1>2 DEF WaiterAt
<1>. HIDE DEF s, w, line
<1>9. status'[w] = "granted" /\ \A x \in Requests \ {w} : status[x] = "waiting" => status'[x] # "granted"
  BY <1>2, <1>3, <1>4
<1>10. <<p, s>> \in ServedNow
  <2>1. <<p, s>>[1] = p /\ <<p, s>>[2] = s
    OBVIOUS
  <2>2. 1 \in DOMAIN queues[p].waiters[s] /\ status'[WaiterAt(p, s, 1)] = "granted"
    BY <1>2, <1>8, <1>9 DEF line
  <2>. QED BY <1>7, <2>1, <2>2 DEF ServedNow
<1>11. ASSUME NEW v \in ServedNow PROVE v = <<p, s>>
  <2>1. /\ v \in Workload /\ v[1] \in Priorities /\ v[2] \in Subjects /\ v = <<v[1], v[2]>>
    BY ConstantsAssumption, <1>11 DEF ServedNow
  <2>2. PICK i \in DOMAIN queues[v[1]].waiters[v[2]] : status'[WaiterAt(v[1], v[2], i)] = "granted"
    BY <1>11 DEF ServedNow
  <2>3. WaiterAt(v[1], v[2], i) \in Requests
    BY <2>1, LineType DEF IInv, WaiterAt
  <2>4. status[WaiterAt(v[1], v[2], i)] = "waiting"
    BY <2>1 DEF IInv, OnePlaceEach
  <2>5. WaiterAt(v[1], v[2], i) = WaiterAt(p, s, 1)
    BY <2>2, <2>3, <2>4, <1>8, <1>9
  <2>6. v[1] = p /\ v[2] = s
    BY <2>1, <2>5, <1>2 DEF IInv, OnePlaceEach, line
  <2>. QED BY <2>1, <2>6
<1>. QED BY <1>2, <1>6, <1>10, <1>11 DEF s

(* The lines stay those of the workload.                                    *)
LEMMA WorkloadKept ==
  ASSUME LinesInWorkload,
         \A p \in Priorities, s \in Subjects :
           InLine(queues'[p], s) => InLine(queues[p], s) \/ <<p, s>> \in Workload
  PROVE  LinesInWorkload'
BY DEF LinesInWorkload

(* A queue that serves nobody keeps the turn of a subject that was passed.  *)
KeepsTurn(q, r) ==
  \A s, t \in Subjects :
    /\ s # t /\ InLine(q, s) /\ InLine(r, s) /\ InLine(r, t)
    /\ InLine(q, t) => TurnOf(q) = s
    => TurnOf(r) = s

LEMMA PassedWaits ==
  ASSUME RNext, NEW p \in Priorities, TurnFollows(queues[p], passed[p]),
         \A t \in Subjects : <<p, t>> \notin ServedNow,
         KeepsTurn(queues[p], queues'[p])
  PROVE  TurnFollows(queues'[p], passed'[p])
<1>. SUFFICES ASSUME NEW s \in Subjects, NEW t \in Subjects, s # t,
                     InLine(queues'[p], s), InLine(queues'[p], t), t \in passed'[p][s]
              PROVE  TurnOf(queues'[p]) = s
  BY DEF TurnFollows
<1>1. InLine(queues[p], s) /\ t \in passed[p][s]
  BY PassedNext DEF InRotation, InLine
<1>2. InLine(queues[p], t) => TurnOf(queues[p]) = s
  BY <1>1 DEF TurnFollows
<1>. QED BY <1>1, <1>2 DEF KeepsTurn

(* When a subject was served the other one is next.                         *)
LEMMA ServedGoesBehind ==
  ASSUME NEW a, NEW b, Pair(a, b), RNext,
         NEW p \in Priorities, QueueOK(queues[p]), queues[p].subjects # <<>>,
         ServedNow = {<<p, TurnOf(queues[p])>>},
         queues'[p] = Dequeue(queues[p])
  PROVE  TurnFollows(queues'[p], passed'[p])
<1>. DEFINE u == TurnOf(queues[p])
<1>. SUFFICES ASSUME NEW s \in Subjects, NEW t \in Subjects, s # t,
                     InLine(queues'[p], s), InLine(queues'[p], t), t \in passed'[p][s]
              PROVE  TurnOf(queues'[p]) = s
  BY DEF TurnFollows
<1>1. InLine(queues[p], s) /\ <<p, s>> \notin ServedNow
  BY PassedNext DEF InRotation, InLine
<1>2. s # u
  BY <1>1
<1>3. u \in Subjects
  BY TurnOfProperties
<1>4. t = u /\ Pair(s, t)
  BY <1>2, <1>3 DEF Pair
<1>. QED BY <1>1, <1>4, DequeueTurns

-----------------------------------------------------------------------------
TInv == PassedIsNext /\ LinesInWorkload

(* A step that leaves the queues as they are.                               *)
LEMMA SameQueuesTurn ==
  ASSUME TInv, RNext, queues' = queues, ServedNow = {}
  PROVE  TInv'
<1>1. ASSUME NEW p \in Priorities PROVE TurnFollows(queues'[p], passed'[p])
  <2>1. KeepsTurn(queues[p], queues'[p])
    BY DEF KeepsTurn
  <2>. QED BY <2>1, PassedWaits DEF TInv, PassedIsNext
<1>2. LinesInWorkload'
  BY DEF TInv, LinesInWorkload
<1>. QED BY <1>1, <1>2 DEF TInv, PassedIsNext

(* A step that changes one of them and serves nobody.                       *)
LEMMA OneQueueTurn ==
  ASSUME TInv, RNext, ServedNow = {}, NEW p \in Priorities,
         \A q \in Priorities \ {p} : queues'[q] = queues[q],
         KeepsTurn(queues[p], queues'[p])
  PROVE  PassedIsNext'
<1>1. ASSUME NEW q \in Priorities PROVE TurnFollows(queues'[q], passed'[q])
  <2>1. KeepsTurn(queues[q], queues'[q])
    BY DEF KeepsTurn
  <2>. QED BY <2>1, PassedWaits DEF TInv, PassedIsNext
<1>. QED BY <1>1 DEF PassedIsNext

LEMMA EnqueueTurn ==
  ASSUME IInv, TInv, RNext, NEW a, NEW b, Pair(a, b), NEW r \in Requests, NEW w \in Workload,
         EnqueueCall(r, w[1], w[2])
  PROVE  TInv'
<1>. DEFINE p == w[1]
            x == w[2]
<1>0. p \in Priorities /\ x \in Subjects /\ w = <<p, x>>
  BY ConstantsAssumption
<1>. HIDE DEF p, x
<1>1. /\ status \in [Requests -> Statuses] /\ queues \in [Priorities -> Queue]
      /\ queues' = [queues EXCEPT ![p] = Enqueue(queues[p], x, r)]
      /\ status' = [status EXCEPT ![r] = "waiting"]
  BY DEF EnqueueCall, IInv, TypeOK, p, x
<1>2. ServedNow = {}
  BY <1>1, NobodyServed
<1>3. QueueOK(queues[p])
  BY <1>0 DEF IInv, TypeOK, QueuesConsistent, QueueOK
<1>4. queues'[p] = Enqueue(queues[p], x, r) /\ \A q \in Priorities \ {p} : queues'[q] = queues[q]
  BY <1>0, <1>1
<1>5. KeepsTurn(queues[p], queues'[p])
  <2>. SUFFICES ASSUME NEW s \in Subjects, NEW t \in Subjects, s # t,
                       InLine(queues[p], s), InLine(queues'[p], t),
                       InLine(queues[p], t) => TurnOf(queues[p]) = s
                PROVE  TurnOf(queues'[p]) = s
    BY DEF KeepsTurn
  <2>1. Pair(s, t)
    BY DEF Pair
  <2>2. InLine(Enqueue(queues[p], x, r), t)
    BY <1>4
  <2>. QED BY <1>0, <1>3, <1>4, <2>1, <2>2, EnqueueKeepsTurn
<1>6. LinesInWorkload'
  <2>. SUFFICES ASSUME NEW q \in Priorities, NEW s \in Subjects, InLine(queues'[q], s)
                PROVE  InLine(queues[q], s) \/ <<q, s>> \in Workload
    BY WorkloadKept DEF TInv
  <2>1. CASE q # p
    BY <2>1, <1>4
  <2>2. CASE q = p /\ s # x
    <3>1. queues'[p].waiters = [queues[p].waiters EXCEPT ![x] = Append(@, r)]
      BY <1>0, <1>3, <1>4, EnqueueProperties
    <3>2. queues[p].waiters \in [Subjects -> Seq(Requests)]
      BY <1>3, QueueFields DEF QueueOK
    <3>3. queues'[p].waiters[s] = queues[p].waiters[s]
      BY <3>1, <3>2, <2>2
    <3>. QED BY <3>3, <2>2 DEF InLine
  <2>3. CASE q = p /\ s = x
    BY <2>3, <1>0
  <2>. QED BY <2>1, <2>2, <2>3
<1>7. PassedIsNext'
  BY <1>0, <1>2, <1>4, <1>5, OneQueueTurn
<1>. QED BY <1>6, <1>7 DEF TInv

LEMMA RejectTurn ==
  ASSUME IInv, TInv, RNext, NEW a, NEW b, Pair(a, b), NEW r \in Requests, RejectWaiter(r)
  PROVE  TInv'
<1>1. /\ status \in [Requests -> Statuses] /\ queues \in [Priorities -> Queue]
      /\ status' = [status EXCEPT ![r] = "rejected"]
  BY DEF RejectWaiter, IInv, TypeOK
<1>2. ServedNow = {}
  BY <1>1, NobodyServed
<1>3. PICK p \in Priorities, x \in Subjects : \E i \in DOMAIN queues[p].waiters[x] :
        queues' = [queues EXCEPT ![p] = RemoveWaiter(queues[p], x, i)]
  BY DEF RejectWaiter
<1>4. PICK i \in DOMAIN queues[p].waiters[x] :
        queues' = [queues EXCEPT ![p] = RemoveWaiter(queues[p], x, i)]
  BY <1>3
<1>5. QueueOK(queues[p])
  BY DEF IInv, TypeOK, QueuesConsistent, QueueOK
<1>6. /\ queues'[p] = RemoveWaiter(queues[p], x, i)
      /\ \A q \in Priorities \ {p} : queues'[q] = queues[q]
  BY <1>1, <1>4
<1>7. queues[p].waiters \in [Subjects -> Seq(Requests)]
  BY <1>5, QueueFields DEF QueueOK
<1>8. queues'[p].waiters = [queues[p].waiters EXCEPT ![x] = RemoveAt(@, i)]
  BY <1>5, <1>6, RemoveWaiterProperties
<1>9. \A s \in Subjects \ {x} : queues'[p].waiters[s] = queues[p].waiters[s]
  BY <1>7, <1>8
<1>10. InLine(queues[p], x)
  BY <1>7, LenProperties DEF InLine
<1>11. \A s \in Subjects : InLine(queues'[p], s) => InLine(queues[p], s)
  BY <1>9, <1>10 DEF InLine
<1>12. InLine(queues'[p], x) => TurnOf(queues'[p]) = TurnOf(queues[p])
  BY <1>5, <1>6, RemoveKeepsTurn
<1>p. PassedIsNext'
  <2>. SUFFICES ASSUME NEW q \in Priorities PROVE TurnFollows(queues'[q], passed'[q])
    BY DEF PassedIsNext
  <2>1. CASE q # p
    <3>1. KeepsTurn(queues[q], queues'[q])
      BY <2>1, <1>6 DEF KeepsTurn
    <3>. QED BY <3>1, <1>2, PassedWaits DEF TInv, PassedIsNext
  <2>2. CASE q = p
    <3>. SUFFICES ASSUME NEW s \in Subjects, NEW t \in Subjects, s # t,
                         InLine(queues'[p], s), InLine(queues'[p], t), t \in passed'[p][s]
                  PROVE  TurnOf(queues'[p]) = s
      BY <2>2 DEF TurnFollows
    <3>1. InLine(queues[p], s) /\ InLine(queues[p], t) /\ t \in passed[p][s]
      BY <1>2, <1>11, PassedNext DEF InRotation, InLine
    <3>2. TurnOf(queues[p]) = s
      BY <3>1 DEF TInv, PassedIsNext, TurnFollows
    <3>3. x \in {s, t}
      BY DEF Pair
    <3>. QED BY <3>2, <3>3, <1>12
  <2>. QED BY <2>1, <2>2
<1>w. LinesInWorkload'
  <2>. SUFFICES ASSUME NEW q \in Priorities, NEW s \in Subjects, InLine(queues'[q], s)
                PROVE  InLine(queues[q], s) \/ <<q, s>> \in Workload
    BY WorkloadKept DEF TInv
  <2>. QED BY <1>6, <1>11
<1>. QED BY <1>p, <1>w DEF TInv

LEMMA DrainTurn ==
  ASSUME IInv, TInv, RNext, NEW a, NEW b, Pair(a, b),
         NEW r \in Requests, NEW p \in Priorities, ReleaseAndDrain(r, p)
  PROVE  TInv'
<1>1. queues \in [Priorities -> Queue] /\ queues' = [queues EXCEPT ![p] = Dequeue(queues[p])]
  BY DEF ReleaseAndDrain, IInv, TypeOK
<1>2. queues'[p] = Dequeue(queues[p]) /\ \A q \in Priorities \ {p} : queues'[q] = queues[q]
  BY <1>1
<1>3. QueueOK(queues[p]) /\ queues[p].subjects # <<>>
  BY DEF IInv, TypeOK, QueuesConsistent, QueueOK, ReleaseAndDrain, Served
<1>4. /\ ServedNow = {<<p, TurnOf(queues[p])>>}
      /\ TurnOf(queues[p]) \in Subjects /\ InLine(queues[p], TurnOf(queues[p]))
  BY TurnServed DEF TInv
<1>p. PassedIsNext'
  <2>. SUFFICES ASSUME NEW q \in Priorities PROVE TurnFollows(queues'[q], passed'[q])
    BY DEF PassedIsNext
  <2>1. CASE q # p
    <3>1. KeepsTurn(queues[q], queues'[q])
      BY <2>1, <1>2 DEF KeepsTurn
    <3>2. \A t \in Subjects : <<q, t>> \notin ServedNow
      BY <2>1, <1>4
    <3>3. TurnFollows(queues[q], passed[q])
      BY DEF TInv, PassedIsNext
    <3>. QED BY <3>1, <3>2, <3>3, PassedWaits
  <2>2. CASE q = p
    BY <2>2, <1>2, <1>3, <1>4, ServedGoesBehind
  <2>. QED BY <2>1, <2>2
<1>w. LinesInWorkload'
  <2>. SUFFICES ASSUME NEW q \in Priorities, NEW s \in Subjects, InLine(queues'[q], s)
                PROVE  InLine(queues[q], s) \/ <<q, s>> \in Workload
    BY WorkloadKept DEF TInv
  <2>1. CASE q # p
    BY <2>1, <1>2
  <2>2. CASE q = p
    <3>1. queues[p].waiters \in [Subjects -> Seq(Requests)]
      BY <1>3, QueueFields DEF QueueOK
    <3>2. queues'[p].waiters = [queues[p].waiters EXCEPT ![TurnOf(queues[p])] = Tail(@)]
      BY <1>2, <1>3, DequeueProperties
    <3>3. CASE s = TurnOf(queues[p])
      BY <3>3, <2>2, <1>4
    <3>4. CASE s # TurnOf(queues[p])
      <4>1. queues'[p].waiters[s] = queues[p].waiters[s]
        BY <3>1, <3>2, <3>4
      <4>. QED BY <4>1, <2>2 DEF InLine
    <3>. QED BY <3>3, <3>4
  <2>. QED BY <2>1, <2>2
<1>. QED BY <1>p, <1>w DEF TInv

LEMMA StepTurn ==
  ASSUME NEW a, NEW b, Pair(a, b), IInv, TInv, [RNext]_rvars
  PROVE  TInv'
<1>0. status \in [Requests -> Statuses]
  BY DEF IInv, TypeOK
<1>1. ASSUME RNext, NEW r \in Requests, RejectCall(r) PROVE TInv'
  <2>1. queues' = queues /\ ServedNow = {}
    BY <1>0, <1>1, NobodyServed DEF RejectCall
  <2>. QED BY <2>1, <1>1, SameQueuesTurn
<1>2. ASSUME RNext, NEW r \in Requests, GrantCall(r) PROVE TInv'
  <2>1. status[r] # "waiting" /\ status' = [status EXCEPT ![r] = "granted"] /\ queues' = queues
    BY <1>2 DEF GrantCall, Calls
  <2>2. ServedNow = {}
    BY <1>0, <2>1, NobodyServed
  <2>. QED BY <2>1, <2>2, <1>2, SameQueuesTurn
<1>3. ASSUME RNext, NEW r \in Requests, NEW w \in Workload, EnqueueCall(r, w[1], w[2]) PROVE TInv'
  BY <1>3, EnqueueTurn
<1>4. ASSUME RNext, NEW r \in Requests, RejectWaiter(r) PROVE TInv'
  BY <1>4, RejectTurn
<1>5. ASSUME RNext, NEW r \in Requests, ReleaseIdle(r) PROVE TInv'
  <2>1. queues' = queues /\ ServedNow = {}
    BY <1>0, <1>5, NobodyServed DEF ReleaseIdle
  <2>. QED BY <2>1, <1>5, SameQueuesTurn
<1>6. ASSUME RNext, NEW r \in Requests, NEW p \in Priorities, ReleaseAndDrain(r, p) PROVE TInv'
  BY <1>6, DrainTurn
<1>7. ASSUME RNext, UNCHANGED vars PROVE TInv'
  <2>1. queues' = queues /\ status' = status
    BY <1>7 DEF vars
  <2>2. ServedNow = {}
    BY <2>1, NobodyServed
  <2>. QED BY <2>1, <2>2, <1>7, SameQueuesTurn
<1>8. ASSUME UNCHANGED rvars PROVE TInv'
  BY <1>8 DEF rvars, TInv, PassedIsNext, LinesInWorkload
<1>9. ASSUME RNext PROVE TInv'
  <2>1. PICK r \in Requests : Acquire(r) \/ RejectWaiter(r) \/ Release(r) \/ ReleaseAgain(r)
    BY <1>9 DEF RNext, Next
  <2>. QED BY <2>1, <1>9, <1>1, <1>2, <1>3, <1>4, <1>5, <1>6, <1>7
           DEF Acquire, Release, ReleaseAgain
<1>. QED BY <1>8, <1>9

LEMMA InitTurn == RInit => TInv
BY DEF RInit, Init, EmptyQueue, TInv, PassedIsNext, TurnFollows, LinesInWorkload, InLine

(* A served subject is not one that a waiting subject has been passed by.   *)
LEMMA NoneServedTwice ==
  ASSUME IInv, TInv, RNext
  PROVE  \A p \in Priorities, t \in Subjects :
           <<p, t>> \in ServedNow =>
             \A s \in Subjects \ {t} : InRotation(queues, p, s) => t \notin passed[p][s]
<1>. SUFFICES ASSUME NEW p \in Priorities, NEW t \in Subjects, <<p, t>> \in ServedNow,
                     NEW s \in Subjects \ {t}, InRotation(queues, p, s), t \in passed[p][s]
              PROVE  FALSE
  OBVIOUS
<1>0. status \in [Requests -> Statuses]
  BY DEF IInv, TypeOK
<1>1. PICK r \in Requests : Acquire(r) \/ RejectWaiter(r) \/ Release(r) \/ ReleaseAgain(r)
  BY DEF RNext, Next
<1>2. PICK q \in Priorities : ReleaseAndDrain(r, q)
  <2>. SUFFICES ASSUME \A q \in Priorities : ~ReleaseAndDrain(r, q)
                PROVE  \A x \in Requests : status[x] = "waiting" => status'[x] # "granted"
    BY NobodyServed
  <2>1. CASE RejectCall(r)
    BY <2>1, <1>0 DEF RejectCall
  <2>2. CASE GrantCall(r)
    BY <2>2, <1>0 DEF GrantCall, Calls
  <2>3. CASE \E w \in Workload : EnqueueCall(r, w[1], w[2])
    BY <2>3, <1>0 DEF EnqueueCall
  <2>4. CASE RejectWaiter(r)
    BY <2>4, <1>0 DEF RejectWaiter
  <2>5. CASE ReleaseIdle(r)
    BY <2>5, <1>0 DEF ReleaseIdle
  <2>6. CASE ReleaseAgain(r)
    BY <2>6 DEF ReleaseAgain, vars
  <2>. QED BY <2>1, <2>2, <2>3, <2>4, <2>5, <2>6, <1>1 DEF Acquire, Release
<1>3. /\ ServedNow = {<<q, TurnOf(queues[q])>>}
      /\ InLine(queues[q], TurnOf(queues[q]))
  BY <1>2, TurnServed DEF TInv
<1>4. p = q /\ t = TurnOf(queues[p])
  BY <1>3
<1>5. InLine(queues[p], s) /\ InLine(queues[p], t)
  BY <1>3, <1>4 DEF InRotation, InLine
<1>6. TurnOf(queues[p]) = s
  BY <1>5 DEF TInv, PassedIsNext, TurnFollows
<1>. QED BY <1>4, <1>6

(* Two subjects take turns: while one waits, the other is not served twice, *)
(* through aborts, time-outs and subjects that leave the rotation and come  *)
(* back.                                                                    *)
THEOREM TwoTakeTurns ==
  ASSUME NEW CONSTANT a, NEW CONSTANT b, a # b, Subjects = {a, b}
  PROVE  RSpec => TakesTurns
<1>1. Pair(a, b)
  BY DEF Pair
<1>2. RSpec => Spec
  <2>1. RInit => Init
    BY DEF RInit
  <2>2. [RNext]_rvars => [Next]_vars
    BY DEF RNext, rvars, vars
  <2>. QED BY <2>1, <2>2, PTL DEF RSpec, Spec
<1>3. IInv /\ TInv /\ [RNext]_rvars => TInv'
  BY <1>1, StepTurn
<1>4. RSpec => [](IInv /\ TInv)
  BY <1>2, <1>3, InitTurn, Invariance, PTL DEF RSpec
<1>5. IInv /\ TInv /\ [RNext]_rvars =>
        [\A p \in Priorities, t \in Subjects :
           <<p, t>> \in ServedNow =>
             \A s \in Subjects \ {t} : InRotation(queues, p, s) => t \notin passed[p][s]]_rvars
  BY NoneServedTwice
<1>. QED BY <1>4, <1>5, PTL DEF RSpec, TakesTurns
=============================================================================
