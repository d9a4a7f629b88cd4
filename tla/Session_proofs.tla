---------------------------- MODULE Session_proofs ----------------------------
(***************************************************************************)
(* Proofs about what the extensions keep of one session, for any size of   *)
(* it.  LiveInputs: one input at a time, each in its own session, and none *)
(* refused but when compactions overlap.  Everything the queue does goes   *)
(* through Drain, so the lemmas are about one pass of it.  LiveConnection: *)
(* no gaps on the wire, and a dashboard that tells the truth.              *)
(* GoalSession: one continuation at a time, and dialogs that act on what   *)
(* they showed.                                                            *)
(***************************************************************************)
EXTENDS LiveInputs, LiveConnection, GoalSession, FiniteSetTheorems, SequenceTheorems,
        WellFoundedInduction, TLAPS

\* The inputs of a line wait, once each, and were sent to the session there is.
Line(q, s, h) ==
  /\ \A k \in 1..Len(q) : s[q[k]] = "queued" /\ h[q[k]] = session
  /\ \A k, l \in 1..Len(q) : q[k] = q[l] => k = l

\* What is open in the session there is, is the active input.
OpenIsActive(s, active) ==
  session # 0 => \A i \in Inputs : s[i] = "open" /\ taken[i] = session => active = i

\* An input that was not sent yet was not given to any session.
NewUntaken(s) == \A i \in Inputs : s[i] = "new" => taken[i] = 0

TakenAtHome(h) == \A i \in Inputs : taken[i] # 0 => taken[i] = h[i]

\* Sessions are numbered in the order in which they begin.
InOrder == session <= sessions /\ \A i \in Inputs : taken[i] <= sessions

\* Pi compacts within a session, and counts its compactions.
CompactingCounted == compacting # "no" => session # 0 /\ compactions > 0

\* While Pi compacts the mark stands, and the only timer of this session is that
\* of the compaction under way, once its end was reported: unless a compaction
\* began before the timer of the one before.
MarkStands ==
  ~overlapped /\ compacting # "no" =>
    /\ compaction
    /\ \A t \in finishing : t[1] = session => compacting = "ending" /\ t[2] = compactions

\* The inductive invariant.
IInv ==
  /\ TypeOK
  /\ Line(inputQueue, state, home)
  /\ OpenIsActive(state, activeInput)
  /\ NewUntaken(state)
  /\ TakenAtHome(home)
  /\ InOrder
  /\ CompactingCounted
  /\ MarkStands
  /\ LostOnlyToOverlap

InputStates == {"new", "queued", "open", "done", "dropped"}

-----------------------------------------------------------------------------
(* One pass over the queue.                                                *)

\* The head of a line without repetition does not occur behind it.
LEMMA TailOfLine ==
  ASSUME NEW q \in Seq(Inputs), q # <<>>,
         \A k, l \in 1..Len(q) : q[k] = q[l] => k = l
  PROVE  /\ Head(q) = q[1] /\ Head(q) \in Inputs
         /\ Tail(q) \in Seq(Inputs)
         /\ Len(q) \in Nat /\ Len(q) > 0 /\ Len(Tail(q)) = Len(q) - 1
         /\ \A k \in 1..Len(Tail(q)) : Tail(q)[k] = q[k + 1] /\ k + 1 \in 1..Len(q)
         /\ \A k \in 1..Len(Tail(q)) : Tail(q)[k] # Head(q)
         /\ \A k, l \in 1..Len(Tail(q)) : Tail(q)[k] = Tail(q)[l] => k = l
<1>1. Len(q) \in Nat /\ Len(q) > 0 /\ Head(q) = q[1] /\ Head(q) \in Inputs
  OBVIOUS
<1>2. /\ Tail(q) \in Seq(Inputs) /\ Len(Tail(q)) = Len(q) - 1
      /\ \A k \in 1..(Len(q) - 1) : Tail(q)[k] = q[k + 1]
  OBVIOUS
<1>. QED BY <1>1, <1>2

\* Whatever line, active input and mark a handler passes on, the queue after the
\* pass is in order, and what it gave to Pi is the only input open there.
LEMMA DrainKeepsOrder ==
  ASSUME TypeOK, InOrder,
         NEW q \in Seq(Inputs), NEW active \in Inputs \cup {NONE}, NEW mark \in BOOLEAN,
         NEW s \in [Inputs -> InputStates], NEW h \in [Inputs -> 0..MaxSessions],
         Line(q, s, h), OpenIsActive(s, active), NewUntaken(s), TakenAtHome(h),
         Drain(q, active, mark, s), home' = h,
         UNCHANGED <<session, sessions>>
  PROVE  /\ inputQueue' \in Seq(Inputs) /\ activeInput' \in Inputs \cup {NONE}
         /\ state' \in [Inputs -> InputStates] /\ taken' \in [Inputs -> 0..MaxSessions]
         /\ compaction' \in BOOLEAN /\ lost' \subseteq Inputs
         /\ Line(inputQueue, state, home)'
         /\ OpenIsActive(state, activeInput)'
         /\ NewUntaken(state)' /\ TakenAtHome(home)' /\ InOrder'
<1>t. /\ session \in 0..MaxSessions /\ sessions \in 0..MaxSessions
      /\ taken \in [Inputs -> 0..MaxSessions] /\ lost \subseteq Inputs
      /\ MaxSessions \in Nat
  BY LiveInputsAssumption DEF TypeOK
<1>1. CASE active # NONE \/ session = 0 \/ Blocks(mark) \/ q = <<>>
  <2>1. /\ inputQueue' = q /\ activeInput' = active /\ state' = s
        /\ UNCHANGED <<taken, lost>> /\ compaction' \in {mark, FALSE}
    BY <1>1, Zenon DEF Drain
  <2>. QED BY <2>1, <1>t DEF Line, OpenIsActive, NewUntaken, TakenAtHome, InOrder
<1>2. CASE ~(active # NONE \/ session = 0 \/ Blocks(mark) \/ q = <<>>)
  <2>1. /\ inputQueue' = Tail(q) /\ activeInput' = Head(q)
        /\ state' = [s EXCEPT ![Head(q)] = "open"]
        /\ taken' = [taken EXCEPT ![Head(q)] = session]
        /\ lost' \in {lost, lost \cup {Head(q)}}
        /\ compaction' = FALSE
    BY <1>2, Zenon DEF Drain
  <2>2. /\ Head(q) = q[1] /\ Head(q) \in Inputs
        /\ Tail(q) \in Seq(Inputs)
        /\ Len(q) \in Nat /\ Len(q) > 0 /\ Len(Tail(q)) = Len(q) - 1
        /\ \A k \in 1..Len(Tail(q)) : Tail(q)[k] = q[k + 1] /\ k + 1 \in 1..Len(q)
        /\ \A k \in 1..Len(Tail(q)) : Tail(q)[k] # Head(q)
        /\ \A k, l \in 1..Len(Tail(q)) : Tail(q)[k] = Tail(q)[l] => k = l
    BY <1>2, TailOfLine DEF Line
  <2>3. s[Head(q)] = "queued" /\ h[Head(q)] = session
    BY <2>2 DEF Line
  <2>4. /\ state' \in [Inputs -> InputStates] /\ taken' \in [Inputs -> 0..MaxSessions]
        /\ lost' \subseteq Inputs
    BY <2>1, <2>2, <1>t DEF InputStates
  <2>5. Line(inputQueue, state, home)'
    <3>1. ASSUME NEW k \in 1..Len(Tail(q))
          PROVE  state'[Tail(q)[k]] = "queued" /\ h[Tail(q)[k]] = session
      <4>1. Tail(q)[k] \in Inputs /\ s[Tail(q)[k]] = "queued" /\ h[Tail(q)[k]] = session
        BY <2>2 DEF Line
      <4>. QED BY <4>1, <2>1, <2>2
    <3>. QED BY <3>1, <2>1, <2>2 DEF Line
  <2>6. OpenIsActive(state, activeInput)'
    BY <1>2, <1>t, <2>1, <2>2, LiveInputsAssumption DEF OpenIsActive
  <2>7. NewUntaken(state)' /\ TakenAtHome(home)' /\ InOrder'
    BY <1>t, <2>1, <2>2, <2>3 DEF NewUntaken, TakenAtHome, InOrder
  <2>. QED BY <2>1, <2>2, <2>4, <2>5, <2>6, <2>7
<1>. QED BY <1>1, <1>2
\* A pass refuses no input that it should not, and leaves the mark where it must:
\* it is enough that the mark it is given stands while Pi compacts.
LEMMA DrainKeepsMark ==
  ASSUME TypeOK, MarkStands, LostOnlyToOverlap,
         NEW q, NEW active, NEW mark \in BOOLEAN, NEW s,
         ~overlapped /\ compacting # "no" => mark,
         Drain(q, active, mark, s),
         UNCHANGED <<session, compacting, overlapped, compactions>>,
         finishing' \subseteq finishing
  PROVE  MarkStands' /\ LostOnlyToOverlap'
<1>1. CASE active # NONE \/ session = 0 \/ Blocks(mark)
  <2>1. compaction' = mark /\ lost' = lost
    BY <1>1, Zenon DEF Drain
  <2>. QED BY <2>1 DEF MarkStands, LostOnlyToOverlap
<1>2. CASE ~(active # NONE \/ session = 0 \/ Blocks(mark))
  <2>1. mark /\ ~overlapped => compacting = "no"
    BY <1>2 DEF Blocks, IsIdle
  <2>2. overlapped \/ compacting = "no"
    BY <2>1
  <2>3. compacting = "no" => lost' = lost
    BY <1>2, Zenon DEF Drain
  <2>. QED BY <2>2, <2>3 DEF MarkStands, LostOnlyToOverlap
<1>. QED BY <1>1, <1>2

\* Clear leaves an empty line, whatever session comes next.
LEMMA ClearKeeps ==
  ASSUME TypeOK, NewUntaken(state), TakenAtHome(home), LostOnlyToOverlap,
         Clear, UNCHANGED <<home, overlapped>>,
         \A i \in Inputs : taken[i] # session' \/ session' = 0
  PROVE  /\ inputQueue' \in Seq(Inputs) /\ activeInput' \in Inputs \cup {NONE}
         /\ state' \in [Inputs -> InputStates]
         /\ compaction' \in BOOLEAN /\ UNCHANGED <<taken, lost>>
         /\ Line(inputQueue, state, home)'
         /\ OpenIsActive(state, activeInput)'
         /\ NewUntaken(state)' /\ TakenAtHome(home)' /\ LostOnlyToOverlap'
<1>1. /\ inputQueue' = <<>> /\ activeInput' = NONE /\ compaction' = FALSE
      /\ state' = [i \in Inputs |-> IF state[i] = "queued" THEN "dropped" ELSE state[i]]
      /\ UNCHANGED <<taken, lost>>
  BY DEF Clear
<1>2. state' \in [Inputs -> InputStates] /\ NewUntaken(state)'
  BY <1>1 DEF TypeOK, InputStates, NewUntaken
<1>3. Line(inputQueue, state, home)'
  BY <1>1 DEF Line
<1>4. OpenIsActive(state, activeInput)'
  BY <1>1 DEF OpenIsActive
<1>5. TakenAtHome(home)' /\ LostOnlyToOverlap'
  BY <1>1 DEF TakenAtHome, LostOnlyToOverlap
<1>6. inputQueue' \in Seq(Inputs)
  BY <1>1
<1>. QED BY <1>1, <1>2, <1>3, <1>4, <1>5, <1>6

-----------------------------------------------------------------------------
(* The invariant.                                                          *)

LEMMA InitIInv == Init => IInv
<1>. SUFFICES ASSUME Init PROVE IInv
  OBVIOUS
<1>1. TypeOK
  <2>1. {drainSoon, compaction, running, overlapped} \subseteq BOOLEAN
    BY DEF Init
  <2>2. 0 \in 0..MaxSessions /\ 0 \in 0..MaxRuns /\ 0 \in 0..MaxCompactions
    BY LiveInputsAssumption
  <2>3. /\ state \in [Inputs -> {"new", "queued", "open", "done", "dropped"}]
        /\ home \in [Inputs -> 0..MaxSessions] /\ taken \in [Inputs -> 0..MaxSessions]
        /\ inputQueue \in Seq(Inputs)
    BY <2>2 DEF Init
  <2>. QED BY <2>1, <2>2, <2>3 DEF Init, TypeOK
<1>2. Line(inputQueue, state, home)
  BY DEF Init, Line
<1>. QED BY <1>1, <1>2
  DEF Init, IInv, OpenIsActive, NewUntaken, TakenAtHome, InOrder, CompactingCounted,
      MarkStands, LostOnlyToOverlap

\* The steps of the queue within a session: those that end in a pass.
LEMMA PassKeeps ==
  ASSUME IInv,
         NEW q \in Seq(Inputs), NEW mark \in BOOLEAN, NEW s \in [Inputs -> InputStates],
         NEW h \in [Inputs -> 0..MaxSessions],
         Line(q, s, h), OpenIsActive(s, activeInput), NewUntaken(s), TakenAtHome(h),
         ~overlapped /\ compacting # "no" => mark,
         Drain(q, activeInput, mark, s), home' = h,
         UNCHANGED piVars, drainSoon' \in BOOLEAN, finishing' \subseteq finishing
  PROVE  IInv'
<1>. USE DEF IInv
<1>1. UNCHANGED <<session, sessions, running, compacting, overlapped, runs, compactions>>
  BY DEF piVars
<1>2. /\ inputQueue' \in Seq(Inputs) /\ activeInput' \in Inputs \cup {NONE}
      /\ state' \in [Inputs -> InputStates] /\ taken' \in [Inputs -> 0..MaxSessions]
      /\ compaction' \in BOOLEAN /\ lost' \subseteq Inputs
      /\ Line(inputQueue, state, home)'
      /\ OpenIsActive(state, activeInput)'
      /\ NewUntaken(state)' /\ TakenAtHome(home)' /\ InOrder'
  <2>1. activeInput \in Inputs \cup {NONE}
    BY DEF TypeOK
  <2>. QED BY <1>1, <2>1, DrainKeepsOrder
<1>3. MarkStands' /\ LostOnlyToOverlap'
  BY <1>1, DrainKeepsMark
<1>4. TypeOK'
  BY <1>1, <1>2 DEF TypeOK, InputStates
<1>5. CompactingCounted'
  BY <1>1 DEF CompactingCounted
<1>. QED BY <1>2, <1>3, <1>4, <1>5

LEMMA EnqueueKeeps == ASSUME IInv, NEW i \in Inputs, Enqueue(i) PROVE IInv'
<1>. DEFINE q == Append(inputQueue, i)
            s == [state EXCEPT ![i] = "queued"]
            h == [home EXCEPT ![i] = session]
<1>1. /\ inputQueue \in Seq(Inputs) /\ state \in [Inputs -> InputStates]
      /\ home \in [Inputs -> 0..MaxSessions] /\ session \in 0..MaxSessions
      /\ compaction \in BOOLEAN /\ state[i] = "new" /\ taken \in [Inputs -> 0..MaxSessions]
      /\ drainSoon \in BOOLEAN
  BY DEF IInv, TypeOK, InputStates, Enqueue
<1>2. q \in Seq(Inputs) /\ s \in [Inputs -> InputStates] /\ h \in [Inputs -> 0..MaxSessions]
  BY <1>1 DEF InputStates
<1>3. Line(q, s, h)
  <2>1. /\ Len(q) = Len(inputQueue) + 1 /\ Len(inputQueue) \in Nat /\ q[Len(q)] = i
        /\ \A k \in 1..Len(inputQueue) : q[k] = inputQueue[k] /\ inputQueue[k] \in Inputs
    BY <1>1
  <2>2. \A k \in 1..Len(inputQueue) :
          /\ q[k] # i /\ s[q[k]] = "queued" /\ h[q[k]] = session
          /\ \A l \in 1..Len(inputQueue) : q[k] = q[l] => k = l
    BY <1>1, <2>1 DEF IInv, Line
  <2>3. s[i] = "queued" /\ h[i] = session
    BY <1>1
  <2>. HIDE DEF q, s, h
  <2>4. \A k \in 1..Len(q) : k \in 1..Len(inputQueue) \/ k = Len(q)
    BY <2>1
  <2>. QED BY <2>1, <2>2, <2>3, <2>4 DEF Line
<1>4. OpenIsActive(s, activeInput) /\ NewUntaken(s) /\ TakenAtHome(h)
  BY <1>1 DEF IInv, OpenIsActive, NewUntaken, TakenAtHome
<1>5. ~overlapped /\ compacting # "no" => compaction
  BY DEF IInv, MarkStands
<1>6. /\ Drain(q, activeInput, compaction, s) /\ home' = h
      /\ UNCHANGED piVars /\ UNCHANGED <<drainSoon, finishing>>
  BY DEF Enqueue
<1>. HIDE DEF q, s, h
<1>. QED BY <1>1, <1>2, <1>3, <1>4, <1>5, <1>6, PassKeeps

LEMMA SamePassKeeps ==
  ASSUME IInv, NEW mark \in BOOLEAN,
         ~overlapped /\ compacting # "no" => mark,
         Drain(inputQueue, activeInput, mark, state),
         UNCHANGED <<piVars, home>>, drainSoon' \in BOOLEAN, finishing' \subseteq finishing
  PROVE  IInv'
<1>1. /\ inputQueue \in Seq(Inputs) /\ state \in [Inputs -> InputStates]
      /\ home \in [Inputs -> 0..MaxSessions]
  BY DEF IInv, TypeOK, InputStates
<1>2. /\ Line(inputQueue, state, home) /\ OpenIsActive(state, activeInput)
      /\ NewUntaken(state) /\ TakenAtHome(home)
  BY DEF IInv
<1>. QED BY <1>1, <1>2, PassKeeps

LEMMA FinishCompactionKeeps ==
  ASSUME IInv, NEW t \in Timers, FinishCompaction(t) PROVE IInv'
<1>1. /\ t \in finishing /\ ~(t = <<session, compactions>> /\ compacting = "ending")
      /\ finishing' = finishing \ {t} /\ UNCHANGED <<piVars, home, drainSoon>>
  BY DEF FinishCompaction
<1>2. drainSoon' \in BOOLEAN /\ finishing' \subseteq finishing
  BY <1>1 DEF IInv, TypeOK
<1>3. CASE TimerIsCurrent(t)
  <2>1. ~overlapped => compacting = "no"
    <3>1. t = <<t[1], t[2]>> /\ t[1] = session
      BY <1>3 DEF Timers, TimerIsCurrent
    <3>. QED BY <1>1, <3>1 DEF IInv, MarkStands
  <2>2. Drain(inputQueue, activeInput, FALSE, state)
    BY <1>3 DEF FinishCompaction
  <2>. QED BY <1>1, <1>2, <2>1, <2>2, SamePassKeeps
<1>4. CASE ~TimerIsCurrent(t)
  <2>1. UNCHANGED <<inputQueue, activeInput, state, taken, lost, compaction, home, drainSoon,
                    session, sessions, running, compacting, overlapped, runs, compactions>>
    BY <1>1, <1>4 DEF FinishCompaction, queueVars, piVars
  <2>. QED BY <1>1, <2>1
    DEF IInv, TypeOK, Line, OpenIsActive, NewUntaken, TakenAtHome, InOrder,
        CompactingCounted, MarkStands, LostOnlyToOverlap
<1>. QED BY <1>3, <1>4

LEMMA DispatchSettlesKeeps ==
  ASSUME IInv, NEW i \in Inputs, DispatchSettles(i) PROVE IInv'
<1>1. /\ state[i] = "open" /\ state' = [state EXCEPT ![i] = "done"]
      /\ activeInput' = IF activeInput = i THEN NONE ELSE activeInput
      /\ drainSoon' \in BOOLEAN
      /\ UNCHANGED <<piVars, inputQueue, home, taken, lost, compaction, finishing>>
  BY DEF DispatchSettles, FreesQueue, IInv, TypeOK
<1>2. UNCHANGED <<session, sessions, running, compacting, overlapped, runs, compactions>>
  BY <1>1 DEF piVars
<1>3. TypeOK'
  BY <1>1, <1>2 DEF IInv, TypeOK
<1>4. Line(inputQueue, state, home)'
  <2>1. \A k \in 1..Len(inputQueue) :
          inputQueue[k] \in Inputs /\ state[inputQueue[k]] = "queued" /\ home[inputQueue[k]] = session
    BY DEF IInv, TypeOK, Line
  <2>2. state \in [Inputs -> InputStates]
    BY DEF IInv, TypeOK, InputStates
  <2>3. \A k \in 1..Len(inputQueue) : state'[inputQueue[k]] = "queued"
    BY <1>1, <2>1, <2>2
  <2>. QED BY <1>1, <1>2, <2>1, <2>3 DEF IInv, Line
<1>5. OpenIsActive(state, activeInput)' /\ NewUntaken(state)'
  BY <1>1, <1>2 DEF IInv, TypeOK, OpenIsActive, NewUntaken
<1>6. TakenAtHome(home)' /\ InOrder' /\ CompactingCounted' /\ MarkStands' /\ LostOnlyToOverlap'
  BY <1>1, <1>2 DEF IInv, TakenAtHome, InOrder, CompactingCounted, MarkStands, LostOnlyToOverlap
<1>. QED BY <1>3, <1>4, <1>5, <1>6 DEF IInv

\* Pi's runs and compactions do not touch the queue.
LEMMA PiKeeps ==
  ASSUME IInv,
         CompactionBegins \/ CompactionReported \/ CompactionEnds \/ RunBegins \/ RunEnds
  PROVE  IInv'
<1>1. UNCHANGED <<session, sessions, inputQueue, activeInput, state, home, taken, lost, drainSoon>>
  BY DEF CompactionBegins, CompactionReported, CompactionEnds, RunBegins, RunEnds, queueVars
<1>2. /\ Line(inputQueue, state, home)' /\ OpenIsActive(state, activeInput)'
      /\ NewUntaken(state)' /\ TakenAtHome(home)' /\ InOrder'
  BY <1>1 DEF IInv, Line, OpenIsActive, NewUntaken, TakenAtHome, InOrder
<1>3. TypeOK' /\ CompactingCounted'
  <2>1. {drainSoon, compaction, running, overlapped}' \subseteq BOOLEAN
    <3>1. {drainSoon, compaction, running, overlapped} \subseteq BOOLEAN
      BY DEF IInv, TypeOK
    <3>2. /\ UNCHANGED drainSoon
          /\ running' \in {running, TRUE, FALSE} /\ compaction' \in {compaction, TRUE}
      BY DEF CompactionBegins, CompactionReported, CompactionEnds, RunBegins, RunEnds, queueVars
    <3>3. overlapped' = overlapped \/ overlapped' \in BOOLEAN
      BY DEF CompactionBegins, CompactionReported, CompactionEnds, RunBegins, RunEnds
    <3>. QED BY <3>1, <3>2, <3>3
  <2>3. /\ compacting' \in {"no", "yes", "ending"}
        /\ runs' \in 0..MaxRuns /\ compactions' \in 0..MaxCompactions
        /\ CompactingCounted'
    <3>1. MaxRuns \in Nat /\ MaxCompactions \in Nat
      BY LiveInputsAssumption
    <3>2. /\ compacting \in {"no", "yes", "ending"} /\ CompactingCounted
          /\ runs \in 0..MaxRuns /\ compactions \in 0..MaxCompactions
      BY DEF IInv, TypeOK
    <3>3. CASE CompactionBegins
      BY <3>1, <3>2, <3>3 DEF CompactionBegins, CompactingCounted
    <3>4. CASE CompactionReported \/ CompactionEnds
      BY <3>2, <3>4 DEF CompactionReported, CompactionEnds, CompactingCounted
    <3>5. CASE RunBegins \/ RunEnds
      BY <3>1, <3>2, <3>5 DEF RunBegins, RunEnds, CompactingCounted
    <3>. QED BY <3>3, <3>4, <3>5
  <2>2. finishing' \subseteq Timers
    BY LiveInputsAssumption
    DEF IInv, TypeOK, CompactionBegins, CompactionReported, CompactionEnds, RunBegins, RunEnds,
        CompactingCounted, Timers
  <2>. QED BY <1>1, <2>1, <2>2, <2>3 DEF IInv, TypeOK
<1>4. MarkStands'
  <2>1. CASE CompactionBegins
    BY <2>1 DEF CompactionBegins, MarkStands
  <2>2. CASE CompactionReported
    BY <2>2 DEF CompactionReported, queueVars, IInv, MarkStands
  <2>3. CASE CompactionEnds
    BY <2>3 DEF CompactionEnds, MarkStands
  <2>4. CASE RunBegins \/ RunEnds
    BY <2>4 DEF RunBegins, RunEnds, queueVars, IInv, MarkStands
  <2>. QED BY <2>1, <2>2, <2>3, <2>4
<1>5. LostOnlyToOverlap'
  BY <1>1
  DEF IInv, LostOnlyToOverlap, CompactionBegins, CompactionReported, CompactionEnds, RunBegins, RunEnds
<1>. QED BY <1>2, <1>3, <1>4, <1>5 DEF IInv

\* A session that ends or begins leaves nothing behind in the queue.
LEMMA SessionKeeps ==
  ASSUME IInv, SessionShutdown \/ SessionStart PROVE IInv'
<1>1. /\ Clear /\ running' = FALSE /\ compacting' = "no"
      /\ UNCHANGED <<overlapped, runs, compactions, home, drainSoon, finishing>>
  BY DEF SessionShutdown, SessionStart, Leaves
<1>2. \/ session' = 0 /\ sessions' = sessions
      \/ session' = sessions + 1 /\ sessions' = sessions + 1 /\ sessions < MaxSessions
  BY DEF SessionShutdown, SessionStart, Leaves
<1>3. /\ taken \in [Inputs -> 0..MaxSessions] /\ sessions \in 0..MaxSessions
      /\ MaxSessions \in Nat
      /\ TypeOK /\ NewUntaken(state) /\ TakenAtHome(home) /\ LostOnlyToOverlap
      /\ \A i \in Inputs : taken[i] <= sessions
  BY LiveInputsAssumption DEF IInv, TypeOK, InOrder
<1>4. \A i \in Inputs : taken[i] # session' \/ session' = 0
  BY <1>2, <1>3
<1>5. /\ inputQueue' \in Seq(Inputs) /\ activeInput' \in Inputs \cup {NONE}
      /\ state' \in [Inputs -> InputStates]
      /\ compaction' \in BOOLEAN /\ UNCHANGED <<taken, lost>>
      /\ Line(inputQueue, state, home)' /\ OpenIsActive(state, activeInput)'
      /\ NewUntaken(state)' /\ TakenAtHome(home)' /\ LostOnlyToOverlap'
  BY <1>1, <1>3, <1>4, ClearKeeps
<1>6. session' \in 0..MaxSessions /\ sessions' \in 0..MaxSessions /\ InOrder'
  BY <1>2, <1>3, <1>5 DEF InOrder
<1>7. TypeOK'
  BY <1>1, <1>5, <1>6 DEF IInv, TypeOK, InputStates
<1>. QED BY <1>1, <1>5, <1>6, <1>7 DEF IInv, CompactingCounted, MarkStands

LEMMA StepIInv == IInv /\ [Next]_vars => IInv'
<1>. SUFFICES ASSUME IInv, [Next]_vars PROVE IInv'
  OBVIOUS
<1>1. ASSUME NEW i \in Inputs, Enqueue(i) \/ DispatchSettles(i) PROVE IInv'
  BY <1>1, EnqueueKeeps, DispatchSettlesKeeps
<1>2. CASE DrainMicrotask
  <2>1. compaction \in BOOLEAN /\ (~overlapped /\ compacting # "no" => compaction)
    BY DEF IInv, TypeOK, MarkStands
  <2>. QED BY <1>2, <2>1, SamePassKeeps DEF DrainMicrotask
<1>3. CASE Heartbeat
  <2>1. compacting = "no"
    BY <1>3 DEF Heartbeat, Blocks, IsIdle
  <2>. QED BY <1>3, <2>1, SamePassKeeps DEF Heartbeat, IInv, TypeOK
<1>4. CASE CompactionBegins \/ CompactionReported \/ CompactionEnds \/ RunBegins \/ RunEnds
  BY <1>4, PiKeeps
<1>5. ASSUME NEW t \in Timers, FinishCompaction(t) PROVE IInv'
  BY <1>5, FinishCompactionKeeps
<1>6. CASE SessionShutdown \/ SessionStart
  BY <1>6, SessionKeeps
<1>7. CASE UNCHANGED vars
  BY <1>7
  DEF vars, queueVars, piVars, IInv, TypeOK, Line, OpenIsActive, NewUntaken, TakenAtHome,
      InOrder, CompactingCounted, MarkStands, LostOnlyToOverlap
<1>. QED BY <1>1, <1>2, <1>3, <1>4, <1>5, <1>6, <1>7 DEF Next

-----------------------------------------------------------------------------
(* Theorems.                                                               *)

THEOREM InputsInvariance == Spec => []IInv
  BY InitIInv, StepIInv, PTL DEF Spec

\* Types hold in every reachable state.
THEOREM InputsTypeCorrect == Spec => []TypeOK
<1>1. IInv => TypeOK
  BY DEF IInv
<1>. QED BY <1>1, InputsInvariance, PTL

\* Within a session Pi has one input of the bridge at a time (activeInput).
THEOREM OneInputAtATime == Spec => []OneAtATime
<1>1. IInv => OneAtATime
  <2>. SUFFICES ASSUME IInv, session # 0
                PROVE  Cardinality({i \in Inputs : state[i] = "open" /\ taken[i] = session}) <= 1
    BY DEF OneAtATime
  <2>. DEFINE S == {i \in Inputs : state[i] = "open" /\ taken[i] = session}
  <2>1. S \in SUBSET {activeInput}
    BY DEF IInv, OpenIsActive
  <2>2. IsFiniteSet({activeInput}) /\ Cardinality({activeInput}) = 1
    BY FS_Singleton
  <2>. HIDE DEF S
  <2>3. Cardinality(S) <= Cardinality({activeInput})
    BY <2>1, <2>2, FS_Subset
  <2>. QED BY <2>2, <2>3 DEF S
<1>. QED BY <1>1, InputsInvariance, PTL

\* An input is given to the session it was sent to, and none waits for another.
THEOREM InputsStayHome == Spec => []OwnSession
<1>1. IInv => OwnSession
  BY DEF IInv, Line, TakenAtHome, OwnSession
<1>. QED BY <1>1, InputsInvariance, PTL

\* Without overlapping compactions Pi refuses no input.
THEOREM NoneLostWithoutOverlap == Spec => []LostOnlyToOverlap
<1>1. IInv => LostOnlyToOverlap
  BY DEF IInv
<1>. QED BY <1>1, InputsInvariance, PTL

-----------------------------------------------------------------------------
(* The connection.                                                          *)

(* Induction up to a bound.                                                 *)
LEMMA BoundedInduction ==
  ASSUME NEW n \in Nat, NEW Good, 0 \in Good,
         \A k \in 0..(n - 1) : k \in Good => k + 1 \in Good
  PROVE  \A k \in 0..n : k \in Good
<1>. SUFFICES ASSUME NEW j \in 0..n, j \notin Good PROVE FALSE
  OBVIOUS
<1>. DEFINE Bad == (0..n) \ Good
<1>1. Bad \subseteq Nat /\ Bad # {}
  OBVIOUS
<1>2. PICK b \in Bad : \A c \in Bad : <<c, b>> \notin OpToRel(<, Nat)
  <2>. HIDE DEF Bad
  <2>. QED BY <1>1, NatLessThanWellFounded, WFMin
<1>3. b # 0 /\ b \in 0..n
  OBVIOUS
<1>4. b - 1 \in 0..(n - 1) /\ b - 1 \in Nat /\ b \in Nat /\ b - 1 < b
  BY <1>3
<1>5. <<b - 1, b>> \in OpToRel(<, Nat)
  BY <1>4 DEF OpToRel
<1>6. b - 1 \in Good
  <2>1. b - 1 \notin Bad
    BY <1>2, <1>5
  <2>. QED BY <1>4, <2>1
<1>. QED BY <1>3, <1>4, <1>6

-----------------------------------------------------------------------------
(* What the broker holds after a sequence of frames.                        *)

Follows(m, frames, a, n) ==
  a = [k \in 0..n |-> IF k = 0 THEN m ELSE Receives(a[k - 1], frames[k])]

LEMMA FollowsExists ==
  ASSUME NEW m, NEW frames, NEW n \in Nat
  PROVE  \E a : Follows(m, frames, a, n)
<1>. DEFINE Good == {k \in Nat : \E a : Follows(m, frames, a, k)}
<1>1. 0 \in Good
  <2>1. Follows(m, frames, [k \in 0..0 |-> m], 0)
    BY DEF Follows
  <2>. QED BY <2>1
<1>2. ASSUME NEW k \in 0..(n - 1), k \in Good PROVE k + 1 \in Good
  <2>1. PICK a : Follows(m, frames, a, k)
    BY <1>2
  <2>2. PICK last : last = Receives(a[k], frames[k + 1])
    OBVIOUS
  <2>. DEFINE b == [j \in 0..(k + 1) |-> IF j = k + 1 THEN last ELSE a[j]]
  <2>3. \A j \in 0..k : a[j] = IF j = 0 THEN m ELSE Receives(a[j - 1], frames[j])
    BY <2>1 DEF Follows
  <2>4. \A j \in 0..k : b[j] = a[j]
    OBVIOUS
  <2>5. b[k + 1] = last
    OBVIOUS
  <2>6. \A j \in 0..(k + 1) : b[j] = IF j = 0 THEN m ELSE Receives(b[j - 1], frames[j])
    <3>. SUFFICES ASSUME NEW j \in 0..(k + 1)
                  PROVE  b[j] = IF j = 0 THEN m ELSE Receives(b[j - 1], frames[j])
      OBVIOUS
    <3>. HIDE DEF b
    <3>1. CASE j = k + 1
      <4>1. b[j - 1] = a[k] /\ j # 0
        BY <3>1, <2>4
      <4>. QED BY <3>1, <4>1, <2>2, <2>5
    <3>2. CASE j # k + 1
      <4>1. j \in 0..k
        BY <3>2
      <4>2. CASE j = 0
        BY <4>2, <4>1, <2>3, <2>4
      <4>3. CASE j # 0
        <5>1. j - 1 \in 0..k
          BY <4>1, <4>3
        <5>. QED BY <4>1, <4>3, <5>1, <2>3, <2>4
      <4>. QED BY <4>2, <4>3
    <3>. QED BY <3>1, <3>2
  <2>7. b = [j \in 0..(k + 1) |-> b[j]]
    OBVIOUS
  <2>. HIDE DEF b
  <2>8. Follows(m, frames, b, k + 1)
    BY <2>6, <2>7 DEF Follows
  <2>9. k + 1 \in Nat
    OBVIOUS
  <2>. QED BY <2>8, <2>9
<1>3. \A k \in 0..n : k \in Good
  <2>. HIDE DEF Good
  <2>. QED BY <1>1, <1>2, BoundedInduction
<1>4. n \in 0..n
  OBVIOUS
<1>. QED BY <1>3, <1>4

LEMMA AfterAt ==
  ASSUME NEW m, NEW frames, Len(frames) \in Nat
  PROVE  /\ After(m, frames)[0] = m
         /\ \A k \in 1..Len(frames) :
              After(m, frames)[k] = Receives(After(m, frames)[k - 1], frames[k])
<1>. DEFINE n == Len(frames)
            P(a) == a = [k \in 0..n |-> IF k = 0 THEN m ELSE Receives(a[k - 1], frames[k])]
<1>0. n \in Nat
  OBVIOUS
<1>1. \E a : P(a)
  <2>1. \E a : Follows(m, frames, a, n)
    BY <1>0, FollowsExists
  <2>. QED BY <2>1 DEF Follows
<1>2. P(CHOOSE a : P(a))
  <2>. HIDE DEF P
  <2>. QED BY <1>1
<1>3. After(m, frames) = CHOOSE a : P(a)
  BY DEF After
<1>4. PICK a : a = After(m, frames)
  OBVIOUS
<1>5. P(a)
  BY <1>2, <1>3, <1>4
<1>6. \A k \in 0..n : a[k] = IF k = 0 THEN m ELSE Receives(a[k - 1], frames[k])
  BY <1>5
<1>7. 0 \in 0..n /\ \A k \in 1..n : k \in 0..n /\ k # 0
  BY <1>0
<1>. QED BY <1>4, <1>6, <1>7

(* A second sequence of frames goes on where the first ended.               *)
Joined(fs, gs, hs) ==
  /\ Len(fs) \in Nat /\ Len(gs) \in Nat /\ Len(hs) = Len(fs) + Len(gs)
  /\ \A k \in 1..Len(fs) : hs[k] = fs[k]
  /\ \A k \in 1..Len(gs) : hs[Len(fs) + k] = gs[k]

Continues(m, fs, gs, hs) ==
  /\ \A k \in 0..Len(fs) : After(m, hs)[k] = After(m, fs)[k]
  /\ \A k \in 0..Len(gs) :
       After(m, hs)[Len(fs) + k] = After(ReceivesAll(m, fs), gs)[k]

LEMMA AfterJoined ==
  ASSUME NEW m, NEW fs, NEW gs, NEW hs, Joined(fs, gs, hs)
  PROVE  Continues(m, fs, gs, hs)
<1>. DEFINE r == ReceivesAll(m, fs)
<1>1. /\ Len(fs) \in Nat /\ Len(gs) \in Nat /\ Len(hs) = Len(fs) + Len(gs)
      /\ \A k \in 1..Len(fs) : hs[k] = fs[k]
      /\ \A k \in 1..Len(gs) : hs[Len(fs) + k] = gs[k]
  BY DEF Joined
<1>a. /\ After(m, hs)[0] = m
      /\ \A k \in 1..Len(hs) : After(m, hs)[k] = Receives(After(m, hs)[k - 1], hs[k])
  <2>1. Len(hs) \in Nat
    BY <1>1
  <2>. QED BY ONLY <2>1, AfterAt
<1>b. /\ After(m, fs)[0] = m
      /\ \A k \in 1..Len(fs) : After(m, fs)[k] = Receives(After(m, fs)[k - 1], fs[k])
  <2>1. Len(fs) \in Nat
    BY <1>1
  <2>. QED BY ONLY <2>1, AfterAt
<1>c. /\ After(r, gs)[0] = r
      /\ \A k \in 1..Len(gs) : After(r, gs)[k] = Receives(After(r, gs)[k - 1], gs[k])
  <2>1. Len(gs) \in Nat
    BY <1>1
  <2>. HIDE DEF r
  <2>. QED BY ONLY <2>1, AfterAt
<1>2. After(m, hs)[0] = m /\ After(m, fs)[0] = m /\ After(r, gs)[0] = r
  BY <1>a, <1>b, <1>c
<1>3. \A k \in 0..Len(fs) : After(m, hs)[k] = After(m, fs)[k]
  <2>. DEFINE Good == {k \in 0..Len(fs) : After(m, hs)[k] = After(m, fs)[k]}
  <2>1. 0 \in Good
    BY <1>1, <1>2
  <2>2. ASSUME NEW k \in 0..(Len(fs) - 1), k \in Good PROVE k + 1 \in Good
    <3>1. k + 1 \in 1..Len(fs) /\ k + 1 \in 1..Len(hs) /\ k + 1 \in 0..Len(fs) /\ (k + 1) - 1 = k
      BY <1>1
    <3>2. /\ After(m, hs)[k + 1] = Receives(After(m, hs)[k], hs[k + 1])
          /\ After(m, fs)[k + 1] = Receives(After(m, fs)[k], fs[k + 1])
      BY <1>a, <1>b, <3>1
    <3>. QED BY <1>1, <2>2, <3>1, <3>2
  <2>. HIDE DEF Good
  <2>3. \A k \in 0..Len(fs) : k \in Good
    BY <1>1, <2>1, <2>2, BoundedInduction
  <2>. QED BY <2>3 DEF Good
<1>4. After(m, hs)[Len(fs)] = r
  BY <1>1, <1>3 DEF ReceivesAll
<1>. HIDE DEF r
<1>5. \A k \in 0..Len(gs) : After(m, hs)[Len(fs) + k] = After(r, gs)[k]
  <2>. DEFINE Good == {k \in 0..Len(gs) : After(m, hs)[Len(fs) + k] = After(r, gs)[k]}
  <2>1. 0 \in Good
    <3>1. Len(fs) + 0 = Len(fs) /\ 0 \in 0..Len(gs)
      BY <1>1
    <3>. QED BY <3>1, <1>2, <1>4
  <2>2. ASSUME NEW k \in 0..(Len(gs) - 1), k \in Good PROVE k + 1 \in Good
    <3>1. /\ k + 1 \in 1..Len(gs) /\ k + 1 \in 0..Len(gs) /\ (k + 1) - 1 = k
          /\ Len(fs) + (k + 1) \in 1..Len(hs) /\ (Len(fs) + (k + 1)) - 1 = Len(fs) + k
      BY <1>1
    <3>2. After(m, hs)[Len(fs) + (k + 1)] = Receives(After(m, hs)[Len(fs) + k], gs[k + 1])
      BY <1>1, <1>a, <3>1
    <3>3. After(r, gs)[k + 1] = Receives(After(r, gs)[k], gs[k + 1])
      BY <1>c, <3>1
    <3>. QED BY <2>2, <3>1, <3>2, <3>3
  <2>. HIDE DEF Good
  <2>3. \A k \in 0..Len(gs) : k \in Good
    BY <1>1, <2>1, <2>2, BoundedInduction
  <2>. QED BY <2>3 DEF Good
<1>. QED BY <1>3, <1>5 DEF r, Continues

LEMMA ReceivesJoined ==
  ASSUME NEW m, NEW fs, NEW gs, NEW hs, Joined(fs, gs, hs)
  PROVE  /\ ReceivesAll(m, hs) = ReceivesAll(ReceivesAll(m, fs), gs)
         /\ MissesSome(m, hs)
              <=> MissesSome(m, fs) \/ MissesSome(ReceivesAll(m, fs), gs)
<1>. DEFINE r == ReceivesAll(m, fs)
<1>1. /\ Len(fs) \in Nat /\ Len(gs) \in Nat /\ Len(hs) = Len(fs) + Len(gs)
      /\ \A k \in 1..Len(fs) : hs[k] = fs[k]
      /\ \A k \in 1..Len(gs) : hs[Len(fs) + k] = gs[k]
  BY DEF Joined
<1>2. /\ \A k \in 0..Len(fs) : After(m, hs)[k] = After(m, fs)[k]
      /\ \A k \in 0..Len(gs) : After(m, hs)[Len(fs) + k] = After(r, gs)[k]
  <2>1. Continues(m, fs, gs, hs)
    BY AfterJoined
  <2>. QED BY <2>1 DEF Continues
<1>. HIDE DEF r
<1>3. ReceivesAll(m, hs) = ReceivesAll(r, gs)
  BY <1>1, <1>2 DEF ReceivesAll
<1>4. ASSUME NEW k \in 1..Len(fs)
      PROVE  Misses(After(m, hs)[k - 1], hs[k]) <=> Misses(After(m, fs)[k - 1], fs[k])
  <2>1. k - 1 \in 0..Len(fs)
    BY <1>1
  <2>. QED BY <2>1, <1>1, <1>2
<1>5. ASSUME NEW k \in 1..Len(gs)
      PROVE  Misses(After(m, hs)[(Len(fs) + k) - 1], hs[Len(fs) + k])
               <=> Misses(After(r, gs)[k - 1], gs[k])
  <2>1. k - 1 \in 0..Len(gs) /\ (Len(fs) + k) - 1 = Len(fs) + (k - 1)
    BY <1>1
  <2>. QED BY <2>1, <1>1, <1>2
<1>6. MissesSome(m, hs) => MissesSome(m, fs) \/ MissesSome(r, gs)
  <2>. SUFFICES ASSUME NEW k \in 1..Len(hs), Misses(After(m, hs)[k - 1], hs[k])
                PROVE  MissesSome(m, fs) \/ MissesSome(r, gs)
    BY DEF MissesSome
  <2>1. CASE k <= Len(fs)
    <3>1. k \in 1..Len(fs)
      BY <2>1, <1>1
    <3>. QED BY <3>1, <1>4 DEF MissesSome
  <2>2. CASE ~(k <= Len(fs))
    <3>1. PICK j : j = k - Len(fs)
      OBVIOUS
    <3>2. j \in 1..Len(gs) /\ k = Len(fs) + j
      BY <2>2, <3>1, <1>1
    <3>. QED BY <3>2, <1>5 DEF MissesSome
  <2>. QED BY <2>1, <2>2
<1>7. MissesSome(m, fs) => MissesSome(m, hs)
  <2>. SUFFICES ASSUME NEW k \in 1..Len(fs), Misses(After(m, fs)[k - 1], fs[k])
                PROVE  MissesSome(m, hs)
    BY DEF MissesSome
  <2>1. k \in 1..Len(hs)
    BY <1>1
  <2>. QED BY <2>1, <1>4 DEF MissesSome
<1>8. MissesSome(r, gs) => MissesSome(m, hs)
  <2>. SUFFICES ASSUME NEW k \in 1..Len(gs), Misses(After(r, gs)[k - 1], gs[k])
                PROVE  MissesSome(m, hs)
    BY DEF MissesSome
  <2>1. Len(fs) + k \in 1..Len(hs)
    BY <1>1
  <2>. QED BY <2>1, <1>5 DEF MissesSome
<1>. QED BY <1>3, <1>6, <1>7, <1>8 DEF r

(* No frame, and one.                                                       *)
LEMMA ReceivesNone ==
  ASSUME NEW m
  PROVE  ReceivesAll(m, <<>>) = m /\ ~MissesSome(m, <<>>)
<1>1. <<>> \in Seq({}) /\ Len(<<>>) = 0
  OBVIOUS
<1>2. After(m, <<>>)[0] = m
  <2>1. Len(<<>>) \in Nat
    BY <1>1
  <2>. QED BY ONLY <2>1, AfterAt
<1>3. ~MissesSome(m, <<>>)
  BY <1>1 DEF MissesSome
<1>. QED BY <1>1, <1>2, <1>3 DEF ReceivesAll

LEMMA ReceivesOne ==
  ASSUME NEW m, NEW f
  PROVE  /\ ReceivesAll(m, <<f>>) = Receives(m, f)
         /\ MissesSome(m, <<f>>) <=> Misses(m, f)
<1>1. <<f>> \in Seq({f}) /\ Len(<<f>>) = 1 /\ <<f>>[1] = f /\ 1 \in 1..1 /\ 1 - 1 = 0
  OBVIOUS
<1>2. After(m, <<f>>)[0] = m /\ After(m, <<f>>)[1] = Receives(m, f)
  <2>. DEFINE fs == <<f>>
  <2>1. Len(fs) = 1 /\ fs[1] = f
    OBVIOUS
  <2>. HIDE DEF fs
  <2>2. /\ After(m, fs)[0] = m
        /\ \A k \in 1..Len(fs) : After(m, fs)[k] = Receives(After(m, fs)[k - 1], fs[k])
    BY <2>1, AfterAt
  <2>3. After(m, fs)[1] = Receives(After(m, fs)[0], fs[1])
    BY <1>1, <2>1, <2>2
  <2>. QED BY <2>1, <2>2, <2>3 DEF fs
<1>3. \A k \in 1..1 : k = 1
  OBVIOUS
<1>. QED BY <1>1, <1>2, <1>3 DEF ReceivesAll, MissesSome
-----------------------------------------------------------------------------
(* What the frames of the bridge tell a broker that follows it.             *)

Mirrors == [rev : Nat, seq : Nat, session : 0..MaxBridged, panel : 0..MaxPanels,
            lease : BOOLEAN]

\* A broker that holds m takes every frame, and holds r in the end.
Leads(m, frames, r) == r = ReceivesAll(m, frames) /\ ~MissesSome(m, frames)

\* r shows session s up to the event seq, with panel p and the lease held or not.
Shows(r, s, seq, p, held) ==
  /\ r \in Mirrors /\ r.rev # 0 /\ r.session = s /\ r.seq = seq /\ r.panel = p
  /\ r.lease = held

LEMMA LeadsNone == ASSUME NEW m PROVE Leads(m, <<>>, m)
BY ReceivesNone DEF Leads

LEMMA LeadsOne ==
  ASSUME NEW m, NEW f, ~Misses(m, f) PROVE Leads(m, <<f>>, Receives(m, f))
BY ReceivesOne DEF Leads

LEMMA LeadsJoined ==
  ASSUME NEW m, NEW r, NEW t, NEW fs, NEW gs, NEW hs,
         Leads(m, fs, r), Leads(r, gs, t), Joined(fs, gs, hs)
  PROVE  Leads(m, hs, t)
BY ReceivesJoined DEF Leads

LEMMA ConcatJoins ==
  ASSUME NEW S, NEW fs \in Seq(S), NEW gs \in Seq(S)
  PROVE  Joined(fs, gs, fs \o gs) /\ fs \o gs \in Seq(S)
BY DEF Joined

\* An event with the next number.
LEMMA EventShows ==
  ASSUME NEW r, NEW s, NEW seq \in Nat, NEW p, NEW held, Shows(r, s, seq, p, held),
         NEW f \in Frame, f.kind \in {"event", "update"}, f.seq = seq + 1
  PROVE  \E t : Leads(r, <<f>>, t) /\ Shows(t, s, seq + 1, p, held)
<1>1. Fits(r, f) /\ f.kind # "snapshot" /\ f.kind # "panel" /\ f.kind # "claim"
  BY DEF Fits, Shows
<1>2. Receives(r, f) = [r EXCEPT !.seq = f.seq]
  BY <1>1 DEF Receives
<1>3. Shows(Receives(r, f), s, seq + 1, p, held)
  BY <1>2 DEF Shows, Mirrors
<1>4. ~Misses(r, f)
  BY <1>1 DEF Misses
<1>. QED BY <1>3, <1>4, LeadsOne

\* The panel with the next number.
LEMMA PanelShows ==
  ASSUME NEW r, NEW s, NEW seq \in Nat, NEW p, NEW held, Shows(r, s, seq, p, held),
         NEW f \in Frame, f.kind = "panel", f.seq = seq + 1
  PROVE  \E t : Leads(r, <<f>>, t) /\ Shows(t, s, seq + 1, f.panel, held)
<1>1. Fits(r, f)
  BY DEF Fits, Shows
<1>2. Receives(r, f) = [r EXCEPT !.seq = f.seq, !.panel = f.panel]
  BY <1>1 DEF Receives
<1>3. Shows(Receives(r, f), s, seq + 1, f.panel, held)
  <2>1. f.panel \in 0..MaxPanels
    BY DEF Frame
  <2>2. r \in Mirrors
    BY DEF Shows
  <2>3. f.seq \in Nat
    OBVIOUS
  <2>4. PICK t : t = [r EXCEPT !.seq = f.seq, !.panel = f.panel]
    OBVIOUS
  <2>5. t \in Mirrors
    BY <2>1, <2>2, <2>3, <2>4 DEF Mirrors
  <2>6. /\ t.rev = r.rev /\ t.session = r.session /\ t.seq = f.seq /\ t.panel = f.panel
        /\ t.lease = r.lease
    BY <2>2, <2>4 DEF Mirrors
  <2>7. Shows(t, s, seq + 1, f.panel, held)
    BY <2>5, <2>6 DEF Shows
  <2>. QED BY <1>2, <2>4, <2>7
<1>4. ~Misses(r, f)
  BY <1>1 DEF Misses
<1>. QED BY <1>3, <1>4, LeadsOne

\* The lease with the next number.
LEMMA ClaimShows ==
  ASSUME NEW r, NEW s, NEW seq \in Nat, NEW p, NEW held, Shows(r, s, seq, p, held),
         NEW f \in Frame, f.kind = "claim", f.seq = seq + 1
  PROVE  \E t : Leads(r, <<f>>, t) /\ Shows(t, s, seq + 1, p, f.lease)
<1>1. Fits(r, f)
  BY DEF Fits, Shows
<1>2. Receives(r, f) = [r EXCEPT !.seq = f.seq, !.lease = f.lease]
  BY <1>1 DEF Receives
<1>3. Shows(Receives(r, f), s, seq + 1, p, f.lease)
  <2>1. f.lease \in BOOLEAN
    BY DEF Frame
  <2>2. r \in Mirrors
    BY DEF Shows
  <2>3. f.seq \in Nat
    OBVIOUS
  <2>4. PICK t : t = [r EXCEPT !.seq = f.seq, !.lease = f.lease]
    OBVIOUS
  <2>5. t \in Mirrors
    BY <2>1, <2>2, <2>3, <2>4 DEF Mirrors
  <2>6. /\ t.rev = r.rev /\ t.session = r.session /\ t.seq = f.seq /\ t.panel = r.panel
        /\ t.lease = f.lease
    BY <2>2, <2>4 DEF Mirrors
  <2>7. Shows(t, s, seq + 1, p, f.lease)
    BY <2>5, <2>6 DEF Shows
  <2>. QED BY <1>2, <2>4, <2>7
<1>4. ~Misses(r, f)
  BY <1>1 DEF Misses
<1>. QED BY <1>3, <1>4, LeadsOne

\* A broker that has seen nothing yet passes over the news of the lease.
LEMMA ClaimPassedOver ==
  ASSUME NEW f \in Frame, f.kind = "claim"
  PROVE  Leads(Blank, <<f>>, Blank)
<1>1. Blank.rev = 0
  BY DEF Blank
<1>2. ~Misses(Blank, f) /\ ~Fits(Blank, f)
  BY <1>1 DEF Misses, Fits
<1>3. Receives(Blank, f) = Blank
  BY <1>2 DEF Receives
<1>. QED BY <1>2, <1>3, LeadsOne

\* A snapshot that is newer empties the panels; one that is not changes nothing.
LEMMA SnapshotShows ==
  ASSUME MaxBridged \in Nat, MaxPanels \in Nat, NEW r \in Mirrors, NEW f \in Frame,
         f.kind = "snapshot",
         NEW p, f.rev > r.rev \/ Shows(r, f.session, f.seq, p, f.lease)
  PROVE  \E t, q : Leads(r, <<f>>, t) /\ Shows(t, f.session, f.seq, q, f.lease) /\ q \in {0, p}
<1>1. Leads(r, <<f>>, Receives(r, f))
  <2>1. ~Misses(r, f)
    BY DEF Misses
  <2>. QED BY <2>1, LeadsOne
<1>2. CASE f.rev > r.rev
  <2>. DEFINE copied == [rev |-> f.rev, seq |-> f.seq, session |-> f.session, panel |-> 0,
                        lease |-> f.lease]
  <2>1. Receives(r, f) = copied
    BY <1>2 DEF Receives, Fits
  <2>2. /\ f.rev \in Nat /\ f.seq \in Nat /\ f.session \in 0..MaxBridged /\ 0 \in 0..MaxPanels
        /\ f.lease \in BOOLEAN
    BY DEF Frame
  <2>3. Shows(Receives(r, f), f.session, f.seq, 0, f.lease)
    <3>1. PICK t : t = copied
      OBVIOUS
    <3>2. t \in Mirrors
      BY <2>2, <3>1 DEF Mirrors
    <3>3. f.rev # 0
      <4>1. r.rev \in Nat
        BY DEF Mirrors
      <4>. QED BY <1>2, <2>2, <4>1
    <3>4. Shows(t, f.session, f.seq, 0, f.lease)
      BY <3>1, <3>2, <3>3 DEF Shows
    <3>. QED BY <2>1, <3>1, <3>4
  <2>. QED BY <1>1, <2>3
<1>3. CASE ~(f.rev > r.rev)
  <2>1. Receives(r, f) = r
    BY <1>3 DEF Receives, Fits
  <2>2. Shows(r, f.session, f.seq, p, f.lease)
    BY <1>3
  <2>3. Leads(r, <<f>>, r) /\ p \in {0, p}
    BY <1>1, <2>1
  <2>. QED BY <2>2, <2>3
<1>. QED BY <1>2, <1>3
-----------------------------------------------------------------------------
(* What the bridge sends.                                                   *)

\* What the bridge can number and address.
Bridge ==
  /\ MaxBridged \in Nat /\ MaxPanels \in Nat
  /\ bridged \in 1..MaxBridged /\ panel \in 0..MaxPanels
  /\ sequence \in Nat /\ revision \in Nat
  /\ lease \in BOOLEAN

LEMMA EventTyped ==
  ASSUME Bridge, NEW kind \in {"event", "update", "panel"}, NEW seq \in Nat
  PROVE  /\ EventOf(kind, seq) \in Frame
         /\ EventOf(kind, seq).kind = kind /\ EventOf(kind, seq).seq = seq
         /\ kind = "panel" => EventOf(kind, seq).panel = panel
BY DEF Bridge, EventOf, Frame

LEMMA ClaimTyped ==
  ASSUME Bridge, NEW held \in BOOLEAN, NEW seq \in Nat
  PROVE  /\ ClaimEvent(seq, held) \in Frame
         /\ ClaimEvent(seq, held).kind = "claim" /\ ClaimEvent(seq, held).seq = seq
         /\ ClaimEvent(seq, held).lease = held
<1>1. PICK e : e = EventOf("claim", seq)
  OBVIOUS
<1>2. /\ e \in Frame /\ e.kind = "claim" /\ e.seq = seq
  BY <1>1 DEF Bridge, EventOf, Frame
<1>3. PICK f : f = [e EXCEPT !.lease = held]
  OBVIOUS
<1>4. f \in Frame /\ f.kind = "claim" /\ f.seq = seq /\ f.lease = held
  BY <1>2, <1>3 DEF Frame
<1>. QED BY <1>1, <1>3, <1>4 DEF ClaimEvent

LEMMA SnapshotTyped ==
  ASSUME NEW s \in 1..MaxBridged, NEW rev \in Nat, NEW seq \in Nat, MaxPanels \in Nat,
         NEW held \in BOOLEAN
  PROVE  /\ SnapshotOf(s, rev, seq, held) \in Frame
         /\ SnapshotOf(s, rev, seq, held).kind = "snapshot"
         /\ SnapshotOf(s, rev, seq, held).seq = seq
         /\ SnapshotOf(s, rev, seq, held).session = s
         /\ SnapshotOf(s, rev, seq, held).rev = rev
         /\ SnapshotOf(s, rev, seq, held).lease = held
BY DEF SnapshotOf, Frame

\* The panel alone, if it is sent at all.
LEMMA PanelFrame ==
  ASSUME Bridge, NEW seq \in Nat
  PROVE  /\ <<EventOf("panel", seq + 1)>> \in Seq(Frame)
         /\ Len(<<EventOf("panel", seq + 1)>>) = 1
         /\ \A r, s, p, held : Shows(r, s, seq, p, held) =>
              \E t : /\ Leads(r, <<EventOf("panel", seq + 1)>>, t)
                     /\ Shows(t, s, seq + 1, panel, held)
<1>1. PICK f : f = EventOf("panel", seq + 1)
  OBVIOUS
<1>2. f \in Frame /\ f.kind = "panel" /\ f.seq = seq + 1 /\ f.panel = panel
  <2>1. seq + 1 \in Nat
    OBVIOUS
  <2>. QED BY <1>1, <2>1, EventTyped
<1>3. ASSUME NEW r, NEW s, NEW p, NEW held, Shows(r, s, seq, p, held)
      PROVE  \E t : Leads(r, <<f>>, t) /\ Shows(t, s, seq + 1, panel, held)
  BY <1>2, <1>3, PanelShows
<1>4. <<f>> \in Seq(Frame) /\ Len(<<f>>) = 1
  BY <1>2
<1>. QED BY <1>1, <1>3, <1>4

LEMMA NoFrames ==
  /\ <<>> \in Seq(Frame) /\ Len(<<>>) = 0
  /\ \A r : Leads(r, <<>>, r)
BY LeadsNone

LEMMA RepublishedShows ==
  ASSUME Bridge, NEW seq \in Nat
  PROVE  /\ Republished(seq) \in Seq(Frame) /\ Len(Republished(seq)) \in Nat
         /\ \A r, s, p, held : Shows(r, s, seq, p, held) /\ (panel = 0 => p = 0) =>
              \E t : /\ Leads(r, Republished(seq), t)
                     /\ Shows(t, s, seq + Len(Republished(seq)), panel, held)
<1>1. CASE panel = 0
  <2>1. Republished(seq) = <<>>
    BY <1>1 DEF Republished
  <2>2. seq + 0 = seq
    OBVIOUS
  <2>. QED BY <1>1, <2>1, <2>2, NoFrames
<1>2. CASE panel # 0
  <2>1. Republished(seq) = <<EventOf("panel", seq + 1)>>
    BY <1>2 DEF Republished
  <2>. QED BY <2>1, PanelFrame
<1>. QED BY <1>1, <1>2

LEMMA FlushedShows ==
  ASSUME Bridge, NEW seq \in Nat
  PROVE  /\ Flushed(seq) \in Seq(Frame) /\ Len(Flushed(seq)) \in Nat
         /\ \A r, s, p, held : Shows(r, s, seq, p, held) /\ (~parked => p = panel) =>
              \E t : /\ Leads(r, Flushed(seq), t)
                     /\ Shows(t, s, seq + Len(Flushed(seq)), panel, held)
<1>1. CASE ~parked
  <2>1. Flushed(seq) = <<>>
    BY <1>1 DEF Flushed
  <2>2. seq + 0 = seq
    OBVIOUS
  <2>. QED BY <1>1, <2>1, <2>2, NoFrames
<1>2. CASE parked
  <2>1. Flushed(seq) = <<EventOf("panel", seq + 1)>>
    BY <1>2 DEF Flushed
  <2>. QED BY <2>1, PanelFrame
<1>. QED BY <1>1, <1>2

\* The news of an expired lease, if there is any.
LEMMA LapsedShows ==
  ASSUME Bridge, NEW expired \in BOOLEAN, expired => lease
  PROVE  /\ Lapsed(expired) \in Seq(Frame) /\ Len(Lapsed(expired)) \in Nat
         /\ Leads(Blank, Lapsed(expired), Blank)
         /\ \A r, s, p : Shows(r, s, sequence, p, lease) =>
              \E t : /\ Leads(r, Lapsed(expired), t)
                     /\ Shows(t, s, sequence + Len(Lapsed(expired)), p, lease /\ ~expired)
<1>0. sequence \in Nat /\ sequence + 1 \in Nat /\ sequence + 0 = sequence
  BY DEF Bridge
<1>1. CASE ~expired
  <2>1. Lapsed(expired) = <<>>
    BY <1>1 DEF Lapsed
  <2>2. lease = (lease /\ ~expired)
    BY <1>1, Zenon DEF Bridge
  <2>. QED BY <1>0, <2>1, <2>2, NoFrames
<1>2. CASE expired
  <2>1. PICK f : f = ClaimEvent(sequence + 1, FALSE)
    OBVIOUS
  <2>2. f \in Frame /\ f.kind = "claim" /\ f.seq = sequence + 1 /\ f.lease = FALSE
    BY <1>0, <2>1, ClaimTyped
  <2>3. Lapsed(expired) = <<f>>
    BY <1>2, <2>1 DEF Lapsed
  <2>4. <<f>> \in Seq(Frame) /\ Len(<<f>>) = 1
    BY <2>2
  <2>5. (lease /\ ~expired) = FALSE
    BY <1>2, Zenon
  <2>6. ASSUME NEW r, NEW s, NEW p, Shows(r, s, sequence, p, lease)
        PROVE  \E t : Leads(r, <<f>>, t) /\ Shows(t, s, sequence + 1, p, FALSE)
    BY <1>0, <2>2, <2>6, ClaimShows
  <2>7. Leads(Blank, <<f>>, Blank)
    BY <2>2, ClaimPassedOver
  <2>. QED BY <2>3, <2>4, <2>5, <2>6, <2>7
<1>. QED BY <1>1, <1>2

\* A snapshot that is newer, or tells nothing new, with the panels.
LEMMA SnapshotAndPanelsShow ==
  ASSUME Bridge, NEW rev \in Nat, NEW seq \in Nat, NEW held \in BOOLEAN
  PROVE  /\ SnapshotAndPanels(rev, seq, held) \in Seq(Frame)
         /\ Len(SnapshotAndPanels(rev, seq, held)) \in Nat \ {0}
         /\ \A r \in Mirrors : \A p :
              rev > r.rev \/ (Shows(r, bridged, seq, p, held) /\ (panel = 0 => p = 0)) =>
                \E t : /\ Leads(r, SnapshotAndPanels(rev, seq, held), t)
                       /\ Shows(t, bridged, seq + Len(SnapshotAndPanels(rev, seq, held)) - 1,
                                panel, held)
<1>1. PICK f : f = SnapshotOf(bridged, rev, seq, held)
  OBVIOUS
<1>2. /\ f \in Frame /\ f.kind = "snapshot"
      /\ f.session = bridged /\ f.rev = rev /\ f.seq = seq /\ f.lease = held
  BY <1>1, SnapshotTyped DEF Bridge
<1>3. PICK gs : gs = Republished(seq)
  OBVIOUS
<1>5. /\ gs \in Seq(Frame) /\ Len(gs) \in Nat
      /\ \A r, s, p, l : Shows(r, s, seq, p, l) /\ (panel = 0 => p = 0) =>
           \E t : Leads(r, gs, t) /\ Shows(t, s, seq + Len(gs), panel, l)
  BY <1>3, RepublishedShows
<1>6. PICK hs : hs = <<f>> \o gs
  OBVIOUS
<1>7. <<f>> \in Seq(Frame) /\ Len(<<f>>) = 1
  BY <1>2
<1>8. Joined(<<f>>, gs, hs) /\ hs \in Seq(Frame)
  BY <1>5, <1>6, <1>7, ConcatJoins
<1>9. Len(hs) = 1 + Len(gs)
  BY <1>5, <1>6, <1>7
<1>10. hs = SnapshotAndPanels(rev, seq, held)
  BY <1>1, <1>3, <1>6 DEF SnapshotAndPanels
<1>11. ASSUME NEW r \in Mirrors, NEW p,
              rev > r.rev \/ (Shows(r, bridged, seq, p, held) /\ (panel = 0 => p = 0))
       PROVE  \E t : Leads(r, hs, t) /\ Shows(t, bridged, seq + Len(hs) - 1, panel, held)
  <2>0. PICK p1 : p1 = IF rev > r.rev THEN 0 ELSE p
    OBVIOUS
  <2>1. PICK t, q : /\ Leads(r, <<f>>, t) /\ Shows(t, f.session, f.seq, q, f.lease)
                    /\ q \in {0, p1}
    <3>1. f.rev > r.rev \/ Shows(r, f.session, f.seq, p1, f.lease)
      BY <1>2, <1>11, <2>0
    <3>. QED BY <1>2, <3>1, SnapshotShows DEF Bridge
  <2>2. Shows(t, bridged, seq, q, held) /\ (panel = 0 => q = 0)
    BY <1>2, <1>11, <2>0, <2>1
  <2>3. PICK u : Leads(t, gs, u) /\ Shows(u, bridged, seq + Len(gs), panel, held)
    BY <1>5, <2>2
  <2>4. Leads(r, hs, u)
    BY <1>8, <2>1, <2>3, LeadsJoined
  <2>5. seq + Len(hs) - 1 = seq + Len(gs)
    BY <1>5, <1>9
  <2>. QED BY <2>3, <2>4, <2>5
<1>12. Len(hs) \in Nat \ {0}
  BY <1>5, <1>9
<1>. QED BY <1>8, <1>10, <1>11, <1>12

\* What a snapshot sends, to a broker that has seen nothing or follows.
LEMMA SnapshotFramesShow ==
  ASSUME Bridge, NEW rev \in Nat, NEW expired \in BOOLEAN, expired => lease
  PROVE  /\ SnapshotFrames(rev, expired) \in Seq(Frame)
         /\ Len(SnapshotFrames(rev, expired)) \in Nat \ {0}
         /\ Len(Lapsed(expired)) \in Nat
         /\ \A r \in Mirrors : \A p :
              \/ r = Blank /\ rev > 0
              \/ Shows(r, bridged, sequence, p, lease) /\ (panel = 0 => p = 0)
              => \E t : /\ Leads(r, SnapshotFrames(rev, expired), t)
                        /\ Shows(t, bridged, sequence + Len(SnapshotFrames(rev, expired)) - 1,
                                 panel, lease /\ ~expired)
<1>1. PICK fs : fs = Lapsed(expired)
  OBVIOUS
<1>2. PICK held : held = (lease /\ ~expired)
  OBVIOUS
<1>3. held \in BOOLEAN
  BY <1>2, Zenon
<1>4. /\ fs \in Seq(Frame) /\ Len(fs) \in Nat /\ Leads(Blank, fs, Blank)
      /\ \A r, s, p : Shows(r, s, sequence, p, lease) =>
           \E t : Leads(r, fs, t) /\ Shows(t, s, sequence + Len(fs), p, held)
  BY <1>1, <1>2, LapsedShows
<1>5. PICK n, m : n = rev + 2 * Len(fs) /\ m = sequence + Len(fs)
  OBVIOUS
<1>6. n \in Nat /\ m \in Nat /\ (rev > 0 => n > 0)
  BY <1>4, <1>5 DEF Bridge
<1>7. PICK gs : gs = SnapshotAndPanels(n, m, held)
  OBVIOUS
<1>8. /\ gs \in Seq(Frame) /\ Len(gs) \in Nat \ {0}
      /\ \A r \in Mirrors : \A p :
           n > r.rev \/ (Shows(r, bridged, m, p, held) /\ (panel = 0 => p = 0)) =>
             \E t : Leads(r, gs, t) /\ Shows(t, bridged, m + Len(gs) - 1, panel, held)
  BY <1>3, <1>6, <1>7, SnapshotAndPanelsShow
<1>9. PICK hs : hs = fs \o gs
  OBVIOUS
<1>10. Joined(fs, gs, hs) /\ hs \in Seq(Frame) /\ Len(hs) = Len(fs) + Len(gs)
  BY <1>4, <1>8, <1>9, ConcatJoins
<1>11. hs = SnapshotFrames(rev, expired)
  BY <1>1, <1>2, <1>5, <1>7, <1>9 DEF SnapshotFrames
<1>12. m + Len(gs) - 1 = sequence + Len(hs) - 1
  BY <1>4, <1>5, <1>8, <1>10 DEF Bridge
<1>13. ASSUME NEW r \in Mirrors, NEW p,
              \/ r = Blank /\ rev > 0
              \/ Shows(r, bridged, sequence, p, lease) /\ (panel = 0 => p = 0)
       PROVE  \E t : Leads(r, hs, t) /\ Shows(t, bridged, sequence + Len(hs) - 1, panel, held)
  <2>1. PICK t : /\ t \in Mirrors /\ Leads(r, fs, t)
                 /\ n > t.rev \/ (Shows(t, bridged, m, p, held) /\ (panel = 0 => p = 0))
    <3>1. CASE r = Blank /\ rev > 0
      <4>1. r.rev = 0 /\ n > r.rev
        BY <1>6, <3>1 DEF Blank
      <4>. QED BY <1>4, <3>1, <4>1
    <3>2. CASE Shows(r, bridged, sequence, p, lease) /\ (panel = 0 => p = 0)
      <4>1. PICK t : Leads(r, fs, t) /\ Shows(t, bridged, m, p, held)
        BY <1>4, <1>5, <3>2
      <4>. QED BY <3>2, <4>1 DEF Shows
    <3>. QED BY <1>13, <3>1, <3>2
  <2>2. PICK u : Leads(t, gs, u) /\ Shows(u, bridged, m + Len(gs) - 1, panel, held)
    BY <1>8, <2>1
  <2>3. Leads(r, hs, u)
    BY <1>10, <2>1, <2>2, LeadsJoined
  <2>. QED BY <1>12, <2>2, <2>3
<1>14. Len(hs) \in Nat \ {0}
  BY <1>4, <1>8, <1>10
<1>. QED BY <1>1, <1>2, <1>4, <1>10, <1>11, <1>13, <1>14

LEMMA WelcomeShows ==
  ASSUME Bridge, NEW expired \in BOOLEAN, expired => lease
  PROVE  /\ WelcomeFrames(expired) \in Seq(Frame) /\ Len(WelcomeFrames(expired)) \in Nat \ {0}
         /\ Len(Lapsed(expired)) \in Nat
         /\ \E t : /\ Leads(Blank, WelcomeFrames(expired), t)
                   /\ Shows(t, bridged, sequence + Len(WelcomeFrames(expired)) - 1, panel,
                            lease /\ ~expired)
<1>0. PICK held : held = (lease /\ ~expired)
  OBVIOUS
<1>1. PICK fs : fs = SnapshotFrames(revision + 1, expired)
  OBVIOUS
<1>2. /\ fs \in Seq(Frame) /\ Len(fs) \in Nat \ {0} /\ Len(Lapsed(expired)) \in Nat
      /\ \E t : Leads(Blank, fs, t) /\ Shows(t, bridged, sequence + Len(fs) - 1, panel, held)
  <2>1. revision + 1 \in Nat /\ revision + 1 > 0
    BY DEF Bridge
  <2>2. Blank \in Mirrors
    BY DEF Blank, Mirrors, Bridge
  <2>. QED BY <1>0, <1>1, <2>1, <2>2, SnapshotFramesShow
<1>3. PICK seq : seq = sequence + Len(fs) - 1
  OBVIOUS
<1>4. seq \in Nat
  BY <1>2, <1>3 DEF Bridge
<1>5. PICK gs : gs = Flushed(seq)
  OBVIOUS
<1>6. /\ gs \in Seq(Frame) /\ Len(gs) \in Nat
      /\ \A r, s, p, l : Shows(r, s, seq, p, l) /\ (~parked => p = panel) =>
           \E t : Leads(r, gs, t) /\ Shows(t, s, seq + Len(gs), panel, l)
  BY <1>4, <1>5, FlushedShows
<1>7. PICK hs : hs = fs \o gs
  OBVIOUS
<1>8. Joined(fs, gs, hs) /\ hs \in Seq(Frame)
  BY <1>2, <1>6, <1>7, ConcatJoins
<1>9. Len(hs) = Len(fs) + Len(gs)
  BY <1>2, <1>6, <1>7
<1>10. hs = WelcomeFrames(expired)
  BY <1>1, <1>3, <1>5, <1>7 DEF WelcomeFrames
<1>11. \E t : Leads(Blank, hs, t) /\ Shows(t, bridged, sequence + Len(hs) - 1, panel, held)
  <2>1. PICK t : Leads(Blank, fs, t) /\ Shows(t, bridged, seq, panel, held)
    BY <1>2, <1>3
  <2>2. PICK u : Leads(t, gs, u) /\ Shows(u, bridged, seq + Len(gs), panel, held)
    BY <1>6, <2>1
  <2>3. Leads(Blank, hs, u)
    BY <1>8, <2>1, <2>2, LeadsJoined
  <2>4. sequence + Len(hs) - 1 = seq + Len(gs)
    BY <1>2, <1>3, <1>6, <1>9 DEF Bridge
  <2>. QED BY <2>2, <2>3, <2>4
<1>12. Len(hs) \in Nat \ {0}
  BY <1>2, <1>6, <1>9
<1>. QED BY <1>0, <1>2, <1>8, <1>10, <1>11, <1>12

\* Sending keeps the queue a queue.
LEMMA SendsTyped ==
  ASSUME critical \in Seq(Frame), ignored \in BOOLEAN,
         NEW frames \in Seq(Frame), Sends(frames)
  PROVE  /\ critical' \in Seq(Frame) /\ ignored' \in BOOLEAN
         /\ update' = update /\ squeezed' = squeezed
         /\ ~blocked => critical' = critical
         /\ ~blocked /\ socket # "live" => mirror' = mirror /\ ignored' = ignored
<1>1. update' = update /\ squeezed' = squeezed /\ Send(frames)
  BY DEF Sends
<1>2. CASE blocked
  <2>1. critical' = critical \o frames /\ ignored' = ignored
    BY <1>1, <1>2 DEF Send
  <2>. QED BY <1>1, <1>2, <2>1
<1>3. CASE ~blocked
  <2>1. critical' = critical
    BY <1>1, <1>3 DEF Send
  <2>2. CASE socket = "live"
    BY <1>1, <1>3, <2>1, <2>2 DEF Send, Write
  <2>3. CASE socket # "live"
    BY <1>1, <1>3, <2>1, <2>3 DEF Send
  <2>. QED BY <2>2, <2>3
<1>. QED BY <1>2, <1>3

\* A broker that follows goes on following.
LEMMA SendsLead ==
  ASSUME critical \in Seq(Frame), ignored \in BOOLEAN,
         ~blocked => critical = <<>>, socket = "live",
         NEW frames \in Seq(Frame), Sends(frames),
         NEW r, NEW t, Leads(mirror, critical, r), Leads(r, frames, t)
  PROVE  Leads(mirror', critical', t) /\ ignored' = ignored
<1>1. Send(frames)
  BY DEF Sends
<1>2. CASE blocked
  <2>1. critical' = critical \o frames /\ mirror' = mirror /\ ignored' = ignored
    BY <1>1, <1>2 DEF Send
  <2>2. Joined(critical, frames, critical')
    BY <2>1, ConcatJoins
  <2>3. Leads(mirror, critical', t)
    BY <2>2, LeadsJoined
  <2>. QED BY <2>1, <2>3
<1>3. CASE ~blocked
  <2>1. critical = <<>> /\ critical' = <<>>
    BY <1>1, <1>3 DEF Send
  <2>2. r = mirror
    BY <2>1, LeadsNone DEF Leads
  <2>3. mirror' = ReceivesAll(mirror, frames) /\ ignored' = (ignored \/ MissesSome(mirror, frames))
    BY <1>1, <1>3 DEF Send, Write
  <2>4. mirror' = t /\ ~MissesSome(mirror, frames)
    BY <2>2, <2>3 DEF Leads
  <2>5. ignored' = ignored
    BY <2>3, <2>4
  <2>. QED BY <2>1, <2>4, <2>5, LeadsNone
<1>. QED BY <1>2, <1>3
-----------------------------------------------------------------------------
(* The inductive invariant.                                                 *)

ConnectionTypes ==
  /\ bridged \in 0..MaxBridged /\ panel \in 0..MaxPanels
  /\ revision \in Nat /\ sequence \in Nat
  /\ socket \in Sockets
  /\ critical \in Seq(Frame) /\ update \subseteq Frame
  /\ up \in BOOLEAN /\ connecting \in BOOLEAN /\ ready \in BOOLEAN /\ retry \in BOOLEAN
  /\ blocked \in BOOLEAN /\ parked \in BOOLEAN /\ lease \in BOOLEAN /\ grace \in BOOLEAN
  /\ ghost \in [1..MaxBridged -> Ghosts] /\ ignored \in BOOLEAN /\ squeezed \in BOOLEAN
  /\ forked \in BOOLEAN /\ ghosted \in BOOLEAN

\* A socket belongs to a session, a welcome to a socket, and what is kept of a
\* connection is gone when it is.
Shape ==
  /\ up => bridged > 0
  /\ connecting => up /\ socket = "none"
  /\ socket # "none" => up
  /\ ready => socket # "none"
  /\ lease => up
  /\ parked => panel # 0
  /\ ~blocked => critical = <<>>
  /\ ~ready => /\ mirror = Blank /\ critical = <<>> /\ update = NoFrame
               /\ ~blocked /\ ~ignored /\ ~squeezed /\ ~forked

\* Once it received what waits, a broker that held m shows session s up to the
\* event seq, the lease, and the panel p unless a newer one is parked.
Told(m, frames, s, seq, newer, p, held) ==
  /\ ~MissesSome(m, frames)
  /\ LET r == ReceivesAll(m, frames)
     IN  Shows(r, s, seq, IF newer THEN r.panel ELSE p, held)

\* While no update is squeezed and no session forked, what waits goes on where
\* the broker stands, and ends where the bridge does.
InStep ==
  ready /\ socket = "live" /\ ~squeezed /\ ~forked =>
    update = NoFrame /\ Told(mirror, critical, bridged, sequence, parked, panel, lease)

ConnectionInv ==
  ConnectionTypes /\ Shape /\ InStep /\ NoGaps /\ GraceMatchesConnection

LEMMA ToldLeads ==
  ASSUME NEW m, NEW frames, NEW s, NEW seq, NEW newer, NEW p, NEW held
  PROVE  Told(m, frames, s, seq, newer, p, held)
           <=> \E r, q : Leads(m, frames, r) /\ Shows(r, s, seq, q, held) /\ (~newer => q = p)
<1>1. PICK r : r = ReceivesAll(m, frames)
  OBVIOUS
<1>2. CASE newer
  BY <1>1, <1>2 DEF Told, Leads, Shows
<1>3. CASE ~newer
  BY <1>1, <1>3 DEF Told, Leads, Shows
<1>. QED BY <1>2, <1>3

LEMMA AtBridge ==
  ASSUME ConnectionTypes, Shape, up
  PROVE  Bridge
<1>1. MaxBridged \in Nat /\ MaxPanels \in Nat
  BY LiveConnectionAssumption
<1>. QED BY <1>1 DEF ConnectionTypes, Shape, Bridge

LEMMA Split ==
  ASSUME NEW S, NEW cs \in Seq(S), NEW n \in 0..Len(cs)
  PROVE  /\ SubSeq(cs, 1, n) \in Seq(S) /\ SubSeq(cs, n + 1, Len(cs)) \in Seq(S)
         /\ Joined(SubSeq(cs, 1, n), SubSeq(cs, n + 1, Len(cs)), cs)
         /\ n = Len(cs) => SubSeq(cs, n + 1, Len(cs)) = <<>>
<1>1. Len(cs) \in Nat /\ n \in Nat /\ n <= Len(cs)
  OBVIOUS
<1>2. PICK fs, gs : fs = SubSeq(cs, 1, n) /\ gs = SubSeq(cs, n + 1, Len(cs))
  OBVIOUS
<1>3. /\ fs \in Seq(S) /\ Len(fs) = n
      /\ \A k \in 1..n : fs[k] = cs[k]
  BY <1>1, <1>2
<1>4. /\ gs \in Seq(S) /\ Len(gs) = Len(cs) - n
      /\ \A k \in 1..(Len(cs) - n) : gs[k] = cs[n + k]
  BY <1>1, <1>2
<1>5. Joined(fs, gs, cs)
  <2>1. /\ Len(fs) \in Nat /\ Len(gs) \in Nat /\ Len(cs) = Len(fs) + Len(gs)
    BY <1>1, <1>3, <1>4
  <2>2. \A k \in 1..Len(fs) : cs[k] = fs[k]
    BY <1>3
  <2>3. \A k \in 1..Len(gs) : cs[Len(fs) + k] = gs[k]
    BY <1>3, <1>4
  <2>. QED BY <2>1, <2>2, <2>3 DEF Joined
<1>6. n = Len(cs) => gs = <<>>
  BY <1>1, <1>4
<1>. QED BY <1>2, <1>3, <1>4, <1>5, <1>6

-----------------------------------------------------------------------------
(* What each step keeps.                                                    *)

LEMMA ConnectionStarts ==
  ASSUME CInit PROVE ConnectionInv
<1>1. ConnectionTypes
  <2>1. MaxBridged \in Nat /\ MaxPanels \in Nat
    BY LiveConnectionAssumption
  <2>2. bridged \in 0..MaxBridged /\ panel \in 0..MaxPanels /\ critical \in Seq(Frame)
    BY <2>1 DEF CInit
  <2>3. ghost \in [1..MaxBridged -> Ghosts]
    BY DEF CInit, Ghosts
  <2>. QED BY <2>2, <2>3 DEF CInit, ConnectionTypes, Sockets, NoFrame
<1>2. Shape
  BY DEF CInit, Shape
<1>3. InStep /\ NoGaps /\ GraceMatchesConnection
  BY DEF CInit, InStep, NoGaps, GraceMatchesConnection
<1>. QED BY <1>1, <1>2, <1>3 DEF ConnectionInv

\* The timer of the lease.
LEMMA GraceStep ==
  ASSUME ConnectionTypes, Shape, GraceMatchesConnection, [CNext]_cvars
  PROVE  GraceMatchesConnection'
<1>. USE DEF GraceMatchesConnection
<1>1. CASE UNCHANGED cvars
  BY <1>1 DEF cvars
<1>2. CASE SocketFills
  BY <1>2 DEF SocketFills, leaseVars
<1>3. CASE SocketDrains
  BY <1>3 DEF SocketDrains, leaseVars
<1>4. CASE RetryTimer
  BY <1>4 DEF RetryTimer, leaseVars
<1>5. CASE Dials
  BY <1>5 DEF Dials, leaseVars
<1>6. CASE TokenUnreadable
  BY <1>6 DEF TokenUnreadable, leaseVars
<1>7. CASE Welcome
  BY <1>7 DEF Welcome, BackInTime
<1>8. CASE Destroys
  BY <1>8 DEF Destroys, leaseVars
<1>9. CASE Closed
  BY <1>9, Zenon DEF Closed
<1>10. CASE GhostWelcomed
  BY <1>10 DEF GhostWelcomed, clientVars
<1>11. CASE Publish
  BY <1>11 DEF Publish, leaseVars
<1>12. CASE PanelChanges
  BY <1>12 DEF PanelChanges, leaseVars, clientVars
<1>13. CASE FlushFeatures
  BY <1>13 DEF FlushFeatures, leaseVars
<1>14. CASE Refresh
  BY <1>14 DEF Refresh, leaseVars
<1>15. CASE Claim
  BY <1>15 DEF Claim, CanPublish
<1>16. CASE Release
  BY <1>16 DEF Release, Changes
<1>17. CASE GraceEnds
  BY <1>17 DEF GraceEnds, clientVars
<1>18. CASE BridgeShutdown
  BY <1>18 DEF BridgeShutdown, StopsClient
<1>19. CASE BridgeStart
  BY <1>19 DEF BridgeStart, StopsClient
<1>20. CASE Fork
  BY <1>20 DEF Fork
<1>21. CASE GhostClaims
  BY <1>21 DEF GhostClaims
<1>. QED BY <1>1, <1>2, <1>3, <1>4, <1>5, <1>6, <1>7, <1>8, <1>9, <1>10, <1>11, <1>12,
           <1>13, <1>14, <1>15, <1>16, <1>17, <1>18, <1>19, <1>20, <1>21 DEF CNext
\* What an announcement sends.
LEMMA EventFrames ==
  ASSUME Bridge, NEW kind \in {"event", "update"}
  PROVE  \E f \in Frame :
           /\ f = EventOf(kind, sequence + 1) /\ f.kind = kind /\ f.seq = sequence + 1
           /\ <<f>> \in Seq(Frame)
           /\ \A r, p : Shows(r, bridged, sequence, p, lease) =>
                \E t : Leads(r, <<f>>, t) /\ Shows(t, bridged, sequence + 1, p, lease)
<1>1. PICK f : f = EventOf(kind, sequence + 1)
  OBVIOUS
<1>2. sequence \in Nat /\ sequence + 1 \in Nat
  BY DEF Bridge
<1>3. f \in Frame /\ f.kind = kind /\ f.seq = sequence + 1
  BY <1>1, <1>2, EventTyped
<1>4. ASSUME NEW r, NEW p, Shows(r, bridged, sequence, p, lease)
      PROVE  \E t : Leads(r, <<f>>, t) /\ Shows(t, bridged, sequence + 1, p, lease)
  BY <1>2, <1>3, <1>4, EventShows
<1>5. <<f>> \in Seq(Frame)
  BY <1>3
<1>. QED BY <1>1, <1>3, <1>4, <1>5

\* Frames are sent on a connection that is ready.
LEMMA SentInStep ==
  ASSUME ConnectionTypes, Shape, InStep, NoGaps, ready,
         NEW frames \in Seq(Frame), Sends(frames),
         \A r, p : Shows(r, bridged, sequence, p, lease) /\ (~parked => p = panel) =>
           \E t, q : /\ Leads(r, frames, t) /\ Shows(t, bridged, sequence', q, lease')
                     /\ ~parked' => q = panel,
         UNCHANGED <<bridged, up, connecting, socket, ready, blocked, panel, forked>>,
         parked' => parked
  PROVE  /\ critical' \in Seq(Frame) /\ update' \subseteq Frame
         /\ ignored' \in BOOLEAN /\ squeezed' \in BOOLEAN
         /\ Shape' /\ InStep' /\ NoGaps'
<1>1. /\ critical' \in Seq(Frame) /\ ignored' \in BOOLEAN
      /\ update' = update /\ squeezed' = squeezed
      /\ ~blocked => critical' = critical
      /\ ~blocked /\ socket # "live" => mirror' = mirror /\ ignored' = ignored
  BY SendsTyped DEF ConnectionTypes
<1>2. Shape'
  BY <1>1 DEF Shape
<1>3. CASE socket = "live" /\ ~squeezed /\ ~forked
  <2>1. update = NoFrame /\ Told(mirror, critical, bridged, sequence, parked, panel, lease)
    BY <1>3 DEF InStep
  <2>2. PICK r, p : /\ Leads(mirror, critical, r) /\ Shows(r, bridged, sequence, p, lease)
                    /\ ~parked => p = panel
    BY <2>1, ToldLeads
  <2>3. PICK t, q : /\ Leads(r, frames, t) /\ Shows(t, bridged, sequence', q, lease')
                    /\ ~parked' => q = panel
    BY <2>2
  <2>4. Leads(mirror', critical', t) /\ ignored' = ignored
    BY <1>3, <2>2, <2>3, SendsLead DEF ConnectionTypes, Shape
  <2>5. Told(mirror', critical', bridged', sequence', parked', panel', lease')
    BY <2>3, <2>4, ToldLeads
  <2>6. InStep'
    BY <1>1, <2>1, <2>5 DEF InStep
  <2>7. NoGaps'
    BY <1>1, <2>4 DEF NoGaps
  <2>. QED BY <1>1, <1>2, <2>6, <2>7 DEF ConnectionTypes
<1>4. CASE ~(socket = "live" /\ ~squeezed /\ ~forked)
  <2>1. InStep'
    BY <1>1, <1>4 DEF InStep
  <2>2. NoGaps'
    <3>1. CASE squeezed \/ forked
      BY <1>1, <3>1 DEF NoGaps
    <3>2. CASE socket # "live" /\ ~blocked
      BY <1>1, <3>2 DEF NoGaps
    <3>3. CASE blocked
      <4>1. ignored' = ignored
        BY <3>3 DEF Sends, Send
      <4>. QED BY <1>1, <4>1 DEF NoGaps
    <3>. QED BY <1>4, <3>1, <3>2, <3>3
  <2>. QED BY <1>1, <1>2, <2>1, <2>2 DEF ConnectionTypes
<1>. QED BY <1>3, <1>4
\* The part of the invariant that the sending of frames is about.
Kept == ConnectionTypes /\ Shape /\ InStep /\ NoGaps

LEMMA PublishStep ==
  ASSUME Kept, Publish PROVE Kept'
<1>. USE DEF Kept
<1>1. up /\ ready /\ sequence' = sequence + 1 /\ revision' = revision + 1
  BY DEF Publish, CanPublish
<1>2. UNCHANGED <<bridged, up, connecting, socket, ready, retry, blocked, panel, parked,
                  lease, grace, ghost, forked, ghosted>>
  BY DEF Publish, leaseVars
<1>3. Bridge
  BY <1>1, AtBridge
<1>4. ASSUME NEW kind \in {"event", "update"}, Sends(<<EventOf(kind, sequence + 1)>>)
      PROVE  Kept'
  <2>1. PICK f \in Frame :
          /\ f = EventOf(kind, sequence + 1)
          /\ <<f>> \in Seq(Frame)
          /\ \A r, p : Shows(r, bridged, sequence, p, lease) =>
               \E t : Leads(r, <<f>>, t) /\ Shows(t, bridged, sequence + 1, p, lease)
    BY <1>3, EventFrames
  <2>2. PICK frames : frames = <<f>>
    OBVIOUS
  <2>3. frames \in Seq(Frame) /\ Sends(frames)
    BY <1>4, <2>1, <2>2
  <2>4. \A r, p : Shows(r, bridged, sequence, p, lease) /\ (~parked => p = panel) =>
          \E t, q : /\ Leads(r, frames, t) /\ Shows(t, bridged, sequence', q, lease')
                    /\ ~parked' => q = panel
    BY <1>1, <1>2, <2>1, <2>2
  <2>5. /\ critical' \in Seq(Frame) /\ update' \subseteq Frame
        /\ ignored' \in BOOLEAN /\ squeezed' \in BOOLEAN
        /\ Shape' /\ InStep' /\ NoGaps'
    BY <1>1, <1>2, <2>3, <2>4, SentInStep
  <2>. QED BY <1>1, <1>2, <2>5 DEF ConnectionTypes
<1>5. ASSUME SendsUpdate(EventOf("update", sequence + 1)), blocked PROVE Kept'
  <2>1. /\ update' = {EventOf("update", sequence + 1)} /\ squeezed' = TRUE
        /\ UNCHANGED <<critical, mirror, ignored>>
    BY <1>5 DEF SendsUpdate
  <2>2. EventOf("update", sequence + 1) \in Frame
    BY <1>3, EventFrames
  <2>3. ConnectionTypes'
    BY <1>1, <1>2, <2>1, <2>2 DEF ConnectionTypes
  <2>4. Shape'
    BY <1>1, <1>2, <2>1 DEF Shape
  <2>5. InStep' /\ NoGaps'
    BY <2>1 DEF InStep, NoGaps
  <2>. QED BY <2>3, <2>4, <2>5
<1>6. ASSUME SendsUpdate(EventOf("update", sequence + 1)), ~blocked PROVE Kept'
  <2>1. Sends(<<EventOf("update", sequence + 1)>>)
    BY <1>6 DEF SendsUpdate, Sends
  <2>. QED BY <1>4, <2>1
<1>. QED BY <1>4, <1>5, <1>6 DEF Publish

LEMMA FlushStep ==
  ASSUME Kept, FlushFeatures PROVE Kept'
<1>. USE DEF Kept
<1>1. /\ up /\ ready /\ parked /\ parked' = FALSE
      /\ sequence' = sequence + 1 /\ revision' = revision + 1
  BY DEF FlushFeatures, CanPublish
<1>2. UNCHANGED <<bridged, up, connecting, socket, ready, retry, blocked, panel,
                  lease, grace, ghost, forked, ghosted>>
  BY DEF FlushFeatures, leaseVars
<1>3. Bridge /\ sequence \in Nat
  BY <1>1, AtBridge DEF Bridge
<1>4. PICK frames : frames = Flushed(sequence)
  OBVIOUS
<1>5. Len(frames) = 1
  BY <1>1, <1>4 DEF Flushed
<1>6. frames \in Seq(Frame) /\ Sends(frames)
  BY <1>3, <1>4, FlushedShows DEF FlushFeatures
<1>7. \A r, p : Shows(r, bridged, sequence, p, lease) /\ (~parked => p = panel) =>
        \E t, q : /\ Leads(r, frames, t) /\ Shows(t, bridged, sequence', q, lease')
                  /\ ~parked' => q = panel
  <2>1. lease' = lease
    BY <1>2
  <2>. QED BY <1>1, <1>3, <1>4, <1>5, <2>1, FlushedShows
<1>8. /\ critical' \in Seq(Frame) /\ update' \subseteq Frame
      /\ ignored' \in BOOLEAN /\ squeezed' \in BOOLEAN
      /\ Shape' /\ InStep' /\ NoGaps'
  BY <1>1, <1>2, <1>6, <1>7, SentInStep
<1>9. sequence' \in Nat /\ revision' \in Nat /\ parked' \in BOOLEAN
  <2>1. sequence \in Nat /\ revision \in Nat
    BY DEF ConnectionTypes
  <2>2. parked' \in BOOLEAN
    BY <1>1, Zenon
  <2>3. sequence' = sequence + 1 /\ revision' = revision + 1
    BY <1>1
  <2>. QED BY <2>1, <2>2, <2>3
<1>10. ConnectionTypes'
  BY <1>2, <1>8, <1>9 DEF ConnectionTypes
<1>. QED BY <1>8, <1>10

LEMMA RefreshStep ==
  ASSUME Kept, Refresh PROVE Kept'
<1>. USE DEF Kept
<1>0. PICK marked \in {0, 1}, expired \in {FALSE, lease} :
        LET frames == SnapshotFrames(revision + marked, expired)
        IN /\ lease' = (lease /\ ~expired)
           /\ sequence' = sequence + Len(frames) - 1
           /\ revision' = revision + marked + Len(frames) - 1 + Len(Lapsed(expired))
           /\ Sends(frames)
  BY DEF Refresh, AfterSnapshot
<1>1. up /\ ready
  BY DEF Refresh, CanPublish
<1>2. UNCHANGED <<bridged, up, connecting, socket, ready, retry, blocked, panel, parked,
                  grace, ghost, forked, ghosted>>
  BY DEF Refresh
<1>3. Bridge /\ sequence \in Nat /\ revision \in Nat
  BY <1>1, AtBridge DEF Bridge
<1>4. PICK frames : frames = SnapshotFrames(revision + marked, expired)
  OBVIOUS
<1>5. /\ sequence' = sequence + Len(frames) - 1 /\ Sends(frames)
      /\ revision' = revision + marked + Len(frames) - 1 + Len(Lapsed(expired))
      /\ lease' = (lease /\ ~expired)
  BY <1>0, <1>4
<1>10. expired \in BOOLEAN /\ (expired => lease) /\ lease' \in BOOLEAN
  <2>1. lease \in BOOLEAN
    BY DEF ConnectionTypes
  <2>2. lease' \in BOOLEAN
    BY <1>5, Zenon
  <2>3. expired = FALSE \/ expired = lease
    OBVIOUS
  <2>4. expired \in BOOLEAN
    BY <2>1, <2>3, Zenon
  <2>5. expired => lease
    BY <2>3, Zenon
  <2>. QED BY <2>2, <2>4, <2>5
<1>6. /\ frames \in Seq(Frame) /\ Len(frames) \in Nat \ {0} /\ Len(Lapsed(expired)) \in Nat
      /\ \A r \in Mirrors : \A p :
           Shows(r, bridged, sequence, p, lease) /\ (panel = 0 => p = 0) =>
             \E t : /\ Leads(r, frames, t)
                    /\ Shows(t, bridged, sequence + Len(frames) - 1, panel, lease')
  <2>1. revision + marked \in Nat
    BY <1>3
  <2>. QED BY <1>3, <1>4, <1>5, <1>10, <2>1, SnapshotFramesShow
<1>7. \A r, p : Shows(r, bridged, sequence, p, lease) /\ (~parked => p = panel) =>
        \E t, q : /\ Leads(r, frames, t) /\ Shows(t, bridged, sequence', q, lease')
                  /\ ~parked' => q = panel
  <2>. SUFFICES ASSUME NEW r, NEW p, Shows(r, bridged, sequence, p, lease), ~parked => p = panel
                PROVE  \E t, q : /\ Leads(r, frames, t) /\ Shows(t, bridged, sequence', q, lease')
                                 /\ ~parked' => q = panel
    OBVIOUS
  <2>1. panel = 0 => p = 0
    <3>1. parked => panel # 0
      BY DEF Shape
    <3>. QED BY <3>1
  <2>2. r \in Mirrors
    BY DEF Shows
  <2>. QED BY <1>5, <1>6, <2>1, <2>2
<1>8. /\ critical' \in Seq(Frame) /\ update' \subseteq Frame
      /\ ignored' \in BOOLEAN /\ squeezed' \in BOOLEAN
      /\ Shape' /\ InStep' /\ NoGaps'
  BY <1>1, <1>2, <1>5, <1>6, <1>7, SentInStep
<1>9. sequence' \in Nat /\ revision' \in Nat
  BY <1>3, <1>5, <1>6
<1>. QED BY <1>2, <1>8, <1>9, <1>10 DEF ConnectionTypes

\* A change of the lease is announced as an event, or left to the next snapshot.
LEMMA ChangesStep ==
  ASSUME Kept, up, NEW held \in BOOLEAN, Changes(held),
         UNCHANGED <<bridged, up, connecting, socket, ready, retry, blocked, panel, parked,
                     grace, ghost, forked>>,
         ghosted' \in BOOLEAN
  PROVE  Kept'
<1>. USE DEF Kept
<1>1. lease' = held /\ Bridge /\ sequence \in Nat /\ revision \in Nat
  BY AtBridge DEF Changes, Bridge
<1>2. CASE ready
  <2>1. /\ sequence' = sequence + 1 /\ revision' = revision + 2
        /\ Sends(<<ClaimEvent(sequence + 1, held)>>)
    BY <1>2 DEF Changes, Announce
  <2>2. PICK f : f = ClaimEvent(sequence + 1, held)
    OBVIOUS
  <2>3. f \in Frame /\ f.kind = "claim" /\ f.seq = sequence + 1 /\ f.lease = held
    <3>1. sequence + 1 \in Nat
      BY <1>1
    <3>. QED BY <1>1, <2>2, <3>1, ClaimTyped
  <2>4. PICK frames : frames = <<f>>
    OBVIOUS
  <2>5. frames \in Seq(Frame) /\ Sends(frames)
    BY <2>1, <2>2, <2>3, <2>4
  <2>6. ASSUME NEW r, NEW p, Shows(r, bridged, sequence, p, lease), ~parked => p = panel
        PROVE  \E t, q : /\ Leads(r, frames, t) /\ Shows(t, bridged, sequence', q, lease')
                         /\ ~parked' => q = panel
    <3>1. PICK t : Leads(r, <<f>>, t) /\ Shows(t, bridged, sequence + 1, p, held)
      BY <1>1, <2>3, <2>6, ClaimShows
    <3>2. Leads(r, frames, t) /\ Shows(t, bridged, sequence', p, lease')
      BY <1>1, <2>1, <2>4, <3>1
    <3>. QED BY <2>6, <3>2
  <2>7. /\ critical' \in Seq(Frame) /\ update' \subseteq Frame
        /\ ignored' \in BOOLEAN /\ squeezed' \in BOOLEAN
        /\ Shape' /\ InStep' /\ NoGaps'
    BY <1>2, <2>5, <2>6, SentInStep
  <2>8. lease' \in BOOLEAN
    BY <1>1
  <2>9. sequence' \in Nat /\ revision' \in Nat
    BY <1>1, <2>1
  <2>. QED BY <2>7, <2>8, <2>9 DEF ConnectionTypes
<1>3. CASE ~ready
  <2>1. /\ revision' = revision + 1 /\ sequence' = sequence
        /\ UNCHANGED <<critical, update, mirror, ignored, squeezed>>
    BY <1>3 DEF Changes, sentVars
  <2>2. ConnectionTypes'
    BY <1>1, <2>1 DEF ConnectionTypes
  <2>3. Shape'
    BY <2>1 DEF Shape
  <2>4. InStep' /\ NoGaps'
    BY <1>3, <2>1 DEF InStep, NoGaps
  <2>. QED BY <2>2, <2>3, <2>4
<1>. QED BY <1>2, <1>3

LEMMA ClaimStep ==
  ASSUME Kept, Claim PROVE Kept'
<1>1. up /\ Changes(TRUE) /\ TRUE \in BOOLEAN
  BY DEF Claim, CanPublish
<1>2. UNCHANGED <<bridged, up, connecting, socket, ready, retry, blocked, panel, parked,
                  grace, ghost, forked, ghosted>>
  BY DEF Claim
<1>3. ghosted' \in BOOLEAN
  BY <1>2 DEF Kept, ConnectionTypes
<1>. QED BY <1>1, <1>2, <1>3, ChangesStep

LEMMA GhostClaimsStep ==
  ASSUME Kept, GhostClaims PROVE Kept'
<1>1. up /\ Changes(TRUE) /\ TRUE \in BOOLEAN
  BY DEF GhostClaims
<1>2. UNCHANGED <<bridged, up, connecting, socket, ready, retry, blocked, panel, parked,
                  grace, ghost, forked>>
  BY DEF GhostClaims
<1>3. ghosted' \in BOOLEAN
  BY Zenon DEF GhostClaims
<1>. QED BY <1>1, <1>2, <1>3, ChangesStep

LEMMA ReleaseStep ==
  ASSUME Kept, lease => up, Release PROVE Kept'
<1>1. up /\ Changes(FALSE) /\ FALSE \in BOOLEAN
  BY DEF Release
<1>2. UNCHANGED <<bridged, up, connecting, socket, ready, retry, blocked, panel, parked,
                  grace, ghost, forked, ghosted>>
  BY DEF Release
<1>3. ghosted' \in BOOLEAN
  BY <1>2 DEF Kept, ConnectionTypes
<1>. QED BY <1>1, <1>2, <1>3, ChangesStep

\* The first frames of a connection.
LEMMA WelcomeStep ==
  ASSUME Kept, Welcome PROVE Kept'
<1>. USE DEF Kept
<1>1. socket = "live" /\ ~ready /\ ready' = TRUE /\ parked' = FALSE
  BY DEF Welcome
<1>2. UNCHANGED <<bridged, up, connecting, socket, retry, blocked, panel, ghost, forked>>
  BY DEF Welcome
<1>3. /\ mirror = Blank /\ critical = <<>> /\ update = NoFrame
      /\ ~blocked /\ ~ignored /\ ~squeezed /\ ~forked /\ ~connecting /\ up
  BY <1>1 DEF Shape
<1>4. Bridge
  BY <1>3, AtBridge
<1>0. PICK expired \in {FALSE, lease} :
        LET frames == WelcomeFrames(expired)
        IN /\ lease' = (lease /\ ~expired)
           /\ sequence' = sequence + Len(frames) - 1
           /\ revision' = revision + Len(frames) + Len(Lapsed(expired))
           /\ Sends(frames)
  BY DEF Welcome
<1>5. PICK frames : frames = WelcomeFrames(expired)
  OBVIOUS
<1>17. expired \in BOOLEAN /\ (expired => lease) /\ lease' \in BOOLEAN
  <2>1. lease \in BOOLEAN
    BY DEF ConnectionTypes
  <2>2. lease' \in BOOLEAN
    BY <1>0, Zenon
  <2>3. expired = FALSE \/ expired = lease
    OBVIOUS
  <2>4. expired \in BOOLEAN
    BY <2>1, <2>3, Zenon
  <2>5. expired => lease
    BY <2>3, Zenon
  <2>. QED BY <2>2, <2>4, <2>5
<1>7. /\ Sends(frames) /\ grace' = FALSE /\ ghosted' = FALSE /\ lease' = (lease /\ ~expired)
      /\ sequence' = sequence + Len(frames) - 1
      /\ revision' = revision + Len(frames) + Len(Lapsed(expired))
  BY <1>0, <1>5 DEF Welcome, BackInTime
<1>6. /\ frames \in Seq(Frame) /\ Len(frames) \in Nat \ {0} /\ Len(Lapsed(expired)) \in Nat
      /\ \E t : /\ Leads(Blank, frames, t)
                /\ Shows(t, bridged, sequence + Len(frames) - 1, panel, lease')
  BY <1>4, <1>5, <1>7, <1>17, WelcomeShows
<1>8. PICK t : Leads(Blank, frames, t) /\ Shows(t, bridged, sequence', panel, lease')
  BY <1>6, <1>7
<1>9. critical \in Seq(Frame) /\ ignored \in BOOLEAN
  BY DEF ConnectionTypes
<1>10. Leads(mirror, critical, Blank)
  BY <1>3, LeadsNone
<1>11. Leads(mirror', critical', t) /\ ignored' = ignored
  BY <1>1, <1>3, <1>6, <1>7, <1>8, <1>9, <1>10, SendsLead
<1>12. critical' \in Seq(Frame) /\ update' = update /\ squeezed' = squeezed /\ critical' = critical
  BY <1>3, <1>6, <1>7, <1>9, SendsTyped
<1>13. ConnectionTypes'
  <2>1. sequence' \in Nat /\ revision' \in Nat
    BY <1>6, <1>7 DEF ConnectionTypes
  <2>2. ready' \in BOOLEAN /\ parked' \in BOOLEAN /\ grace' \in BOOLEAN /\ ghosted' \in BOOLEAN
    BY <1>1, <1>7, Zenon
  <2>. QED BY <1>2, <1>11, <1>12, <1>17, <2>1, <2>2 DEF ConnectionTypes
<1>14. Shape'
  BY <1>1, <1>2, <1>3, <1>12 DEF Shape
<1>15. InStep'
  <2>1. Told(mirror', critical', bridged', sequence', parked', panel', lease')
    BY <1>2, <1>8, <1>11, ToldLeads
  <2>. QED BY <1>3, <1>12, <2>1 DEF InStep
<1>16. NoGaps'
  BY <1>3, <1>11 DEF NoGaps
<1>. QED BY <1>13, <1>14, <1>15, <1>16

\* The socket takes again what waited.
LEMMA DrainStep ==
  ASSUME Kept, SocketDrains PROVE Kept'
<1>. USE DEF Kept
<1>1. blocked /\ socket = "live" /\ ready
  BY DEF SocketDrains, Shape
<1>2. UNCHANGED <<bridged, up, connecting, socket, ready, retry, revision, sequence, panel,
                  parked, lease, grace, ghost, squeezed, forked, ghosted>>
  BY DEF SocketDrains, leaseVars
<1>. DEFINE last == IF update = NoFrame THEN <<>> ELSE <<CHOOSE f \in update : TRUE>>
<1>3. /\ update = NoFrame => last = <<>>
      /\ update # NoFrame => last = <<CHOOSE f \in update : TRUE>>
  OBVIOUS
<1>. DEFINE all == critical \o last
<1>4. all = critical \o last
  OBVIOUS
<1>5. PICK n \in 0..Len(all) :
        /\ Write(SubSeq(all, 1, n))
        /\ critical' = SubSeq(critical, n + 1, Len(critical))
        /\ update' = IF n = Len(all) THEN NoFrame ELSE update
        /\ blocked' = (n < Len(all))
  BY DEF SocketDrains
<1>. HIDE DEF last, all
<1>6. critical \in Seq(Frame) /\ Len(critical) \in Nat
  BY DEF ConnectionTypes
<1>7. last \in Seq(Frame) /\ Len(last) \in Nat
  <2>1. CASE update = NoFrame
    BY <1>3, <2>1
  <2>2. CASE update # NoFrame
    <3>1. PICK f : f = CHOOSE g \in update : TRUE
      OBVIOUS
    <3>2. f \in Frame
      BY <2>2, <3>1 DEF NoFrame, ConnectionTypes
    <3>3. last = <<f>>
      BY <1>3, <2>2, <3>1
    <3>. QED BY <3>2, <3>3
  <2>. QED BY <2>1, <2>2
<1>8. all \in Seq(Frame) /\ Len(all) = Len(critical) + Len(last) /\ n \in Nat
  BY <1>4, <1>6, <1>7
<1>9. critical' \in Seq(Frame) /\ (~blocked' => critical' = <<>>)
  <2>1. SubSeq(critical, n + 1, Len(critical)) \in Seq(Frame)
    BY <1>6, <1>8
  <2>2. ASSUME ~blocked' PROVE critical' = <<>>
    <3>2. ~(n < Len(all))
      BY <1>5, <2>2, Zenon
    <3>3. n = Len(all)
      BY <1>5, <1>6, <1>7, <1>8, <3>2
    <3>1. n + 1 > Len(critical)
      BY <1>6, <1>7, <1>8, <3>3
    <3>. QED BY <1>5, <1>6, <1>8, <3>1, SubSeqEmpty
  <2>. QED BY <1>5, <2>1, <2>2
<1>10. blocked' \in BOOLEAN /\ ignored' \in BOOLEAN /\ update' \subseteq Frame
  BY <1>5 DEF Write, NoFrame, ConnectionTypes
<1>11. ConnectionTypes'
  BY <1>2, <1>9, <1>10 DEF ConnectionTypes
<1>12. Shape'
  BY <1>1, <1>2, <1>9 DEF Shape
<1>13. CASE squeezed \/ forked
  BY <1>2, <1>11, <1>12, <1>13 DEF InStep, NoGaps
<1>14. CASE ~squeezed /\ ~forked
  <2>1. update = NoFrame /\ Told(mirror, critical, bridged, sequence, parked, panel, lease)
    BY <1>1, <1>14 DEF InStep
  <2>2. PICK r, p : /\ Leads(mirror, critical, r) /\ Shows(r, bridged, sequence, p, lease)
                    /\ ~parked => p = panel
    BY <2>1, ToldLeads
  <2>3. last = <<>> /\ all = critical /\ Len(all) = Len(critical)
    BY <1>3, <1>4, <1>6, <2>1
  <2>4. PICK fs, gs : fs = SubSeq(critical, 1, n) /\ gs = SubSeq(critical, n + 1, Len(critical))
    OBVIOUS
  <2>5. Joined(fs, gs, critical)
    BY <1>5, <1>6, <2>3, <2>4, Split
  <2>6. /\ mirror' = ReceivesAll(mirror, fs) /\ critical' = gs
        /\ ignored' = (ignored \/ MissesSome(mirror, fs)) /\ update' = NoFrame
    BY <1>5, <2>1, <2>3, <2>4 DEF Write
  <2>7. /\ ReceivesAll(mirror, critical) = ReceivesAll(mirror', gs)
        /\ MissesSome(mirror, critical)
             <=> MissesSome(mirror, fs) \/ MissesSome(mirror', gs)
    BY <2>5, <2>6, ReceivesJoined
  <2>8. Leads(mirror', critical', r) /\ ~MissesSome(mirror, fs)
    BY <2>2, <2>6, <2>7 DEF Leads
  <2>9. Told(mirror', critical', bridged', sequence', parked', panel', lease')
    BY <1>2, <2>2, <2>8, ToldLeads
  <2>10. InStep'
    BY <2>6, <2>9 DEF InStep
  <2>11. NoGaps'
    BY <1>2, <2>6, <2>8 DEF NoGaps
  <2>. QED BY <1>11, <1>12, <2>10, <2>11
<1>. QED BY <1>13, <1>14
\* Steps that change neither what was sent nor what is shown.
LEMMA QuietInStep ==
  ASSUME Kept, UNCHANGED <<bridged, ready, socket, sequence, panel, parked, critical, update,
                           mirror, ignored, squeezed, forked>>,
         ready => lease' = lease
  PROVE  InStep' /\ NoGaps'
BY DEF Kept, InStep, NoGaps

LEMMA PanelStep ==
  ASSUME Kept, PanelChanges PROVE Kept'
<1>. USE DEF Kept
<1>1. up /\ panel < MaxPanels /\ panel' = panel + 1 /\ parked' = TRUE
  BY DEF PanelChanges
<1>2. UNCHANGED <<bridged, up, connecting, socket, ready, retry, blocked, critical, update,
                  revision, sequence, lease, grace, ghost, mirror, ignored, squeezed,
                  forked, ghosted>>
  BY DEF PanelChanges, clientVars, leaseVars
<1>3. panel \in 0..MaxPanels /\ MaxPanels \in Nat
  BY LiveConnectionAssumption DEF ConnectionTypes
<1>4. panel' \in 0..MaxPanels /\ panel' # 0 /\ parked' \in BOOLEAN
  <2>1. parked' \in BOOLEAN
    BY <1>1, Zenon
  <2>2. panel' = panel + 1 /\ panel < MaxPanels
    BY <1>1
  <2>3. panel' \in 0..MaxPanels /\ panel' # 0
    BY <1>3, <2>2
  <2>. QED BY <2>1, <2>3
<1>5. ConnectionTypes'
  BY <1>2, <1>4 DEF ConnectionTypes
<1>6. Shape'
  BY <1>2, <1>4 DEF Shape
<1>7. NoGaps'
  BY <1>2 DEF NoGaps
<1>8. ASSUME Told(mirror, critical, bridged, sequence, parked, panel, lease)
      PROVE  Told(mirror', critical', bridged', sequence', parked', panel', lease')
  <2>1. PICK r, q : Leads(mirror, critical, r) /\ Shows(r, bridged, sequence, q, lease)
    BY <1>8, ToldLeads
  <2>2. Leads(mirror', critical', r) /\ Shows(r, bridged', sequence', q, lease')
    BY <1>2, <2>1
  <2>3. ~parked' => q = panel'
    BY <1>1
  <2>. QED BY <2>2, <2>3, ToldLeads
<1>9. InStep'
  BY <1>2, <1>8 DEF InStep
<1>. QED BY <1>5, <1>6, <1>7, <1>9

\* Socket and timers.
LEMMA SocketStep ==
  ASSUME Kept, grace => ~ready,
         SocketFills \/ RetryTimer \/ Dials \/ TokenUnreadable \/ GhostWelcomed
           \/ GraceEnds
  PROVE  Kept'
<1>. USE DEF Kept
<1>1. CASE SocketFills
  <2>. USE <1>1 DEF SocketFills, leaseVars
  <2>1. ConnectionTypes'
    BY DEF ConnectionTypes
  <2>2. Shape'
    BY DEF Shape
  <2>3. InStep' /\ NoGaps'
    BY QuietInStep
  <2>. QED BY <2>1, <2>2, <2>3
<1>2. CASE RetryTimer
  <2>. USE <1>2 DEF RetryTimer, leaseVars, sentVars
  <2>1. ConnectionTypes'
    BY DEF ConnectionTypes
  <2>2. Shape'
    BY DEF Shape
  <2>3. InStep' /\ NoGaps'
    BY QuietInStep
  <2>. QED BY <2>1, <2>2, <2>3
<1>3. CASE Dials
  <2>. USE <1>3 DEF Dials, leaseVars, sentVars
  <2>1. ConnectionTypes'
    <3>1. connecting' \in BOOLEAN
      BY Zenon
    <3>. QED BY <3>1 DEF ConnectionTypes, Sockets
  <2>2. Shape'
    BY DEF Shape
  <2>3. ~ready /\ ready' = ready
    BY DEF Shape
  <2>4. InStep' /\ NoGaps'
    BY <2>3 DEF InStep, NoGaps
  <2>. QED BY <2>1, <2>2, <2>4
<1>4. CASE TokenUnreadable
  <2>. USE <1>4 DEF TokenUnreadable, leaseVars, sentVars, SchedulesRetry
  <2>1. ConnectionTypes'
    BY DEF ConnectionTypes
  <2>2. Shape'
    BY DEF Shape
  <2>3. InStep' /\ NoGaps'
    BY QuietInStep
  <2>. QED BY <2>1, <2>2, <2>3
<1>5. CASE GhostWelcomed
  <2>. USE <1>5 DEF GhostWelcomed, clientVars
  <2>1. ConnectionTypes'
    <3>1. ghosted' \in BOOLEAN /\ grace' \in BOOLEAN
      BY Zenon
    <3>2. revision' \in Nat
      BY DEF ConnectionTypes
    <3>3. ghost' \in [1..MaxBridged -> Ghosts]
      BY DEF ConnectionTypes, Ghosts
    <3>. QED BY <3>1, <3>2, <3>3 DEF ConnectionTypes
  <2>2. Shape'
    BY DEF Shape
  <2>3. InStep' /\ NoGaps'
    BY QuietInStep
  <2>. QED BY <2>1, <2>2, <2>3
<1>6. CASE GraceEnds
  <2>. USE <1>6 DEF GraceEnds, clientVars
  <2>1. ConnectionTypes'
    <3>1. lease' \in BOOLEAN /\ grace' \in BOOLEAN
      BY Zenon
    <3>2. revision' \in Nat
      BY DEF ConnectionTypes
    <3>. QED BY <3>1, <3>2 DEF ConnectionTypes
  <2>2. Shape'
    BY DEF Shape
  <2>3. InStep' /\ NoGaps'
    BY QuietInStep
  <2>. QED BY <2>1, <2>2, <2>3
<1>. QED BY <1>1, <1>2, <1>3, <1>4, <1>5, <1>6

\* What may still be sent to a client that is stopped.
LEMMA GhostTyped ==
  ASSUME ConnectionTypes, StopsClient
  PROVE  ghost' \in [1..MaxBridged -> Ghosts]
BY DEF ConnectionTypes, StopsClient, Ghosts

\* A connection ends.
LEMMA EndStep ==
  ASSUME Kept,
         Destroys \/ Closed \/ BridgeShutdown \/ BridgeStart
  PROVE  Kept'
<1>. USE DEF Kept
<1>0. <<>> \in Seq(Frame)
  OBVIOUS
<1>1. CASE Destroys
  <2>. USE <1>1 DEF Destroys, leaseVars
  <2>1. ConnectionTypes'
    BY <1>0 DEF ConnectionTypes, Sockets, NoFrame
  <2>2. Shape'
    BY DEF Shape
  <2>3. InStep' /\ NoGaps'
    BY DEF InStep, NoGaps
  <2>. QED BY <2>1, <2>2, <2>3
<1>2. CASE Closed
  <2>. USE <1>2 DEF Closed, Forgotten, SchedulesRetry
  <2>1. ConnectionTypes'
    <3>1. revision' \in Nat
      BY DEF ConnectionTypes
    <3>. QED BY <1>0, <3>1 DEF ConnectionTypes, Sockets, NoFrame
  <2>2. Shape'
    BY DEF Shape
  <2>3. InStep' /\ NoGaps'
    BY DEF InStep, NoGaps
  <2>. QED BY <2>1, <2>2, <2>3
<1>3. CASE BridgeShutdown
  <2>. USE <1>3 DEF BridgeShutdown, StopsClient, Forgotten
  <2>1. ConnectionTypes'
    <3>1. ghost' \in [1..MaxBridged -> Ghosts]
      BY <1>3, GhostTyped DEF BridgeShutdown
    <3>. QED BY <1>0, <3>1 DEF ConnectionTypes, Sockets, NoFrame
  <2>2. Shape'
    BY DEF Shape
  <2>3. InStep' /\ NoGaps'
    BY DEF InStep, NoGaps
  <2>. QED BY <2>1, <2>2, <2>3
<1>4. CASE BridgeStart
  <2>. USE <1>4 DEF BridgeStart, StopsClient, Forgotten
  <2>1. bridged' \in 0..MaxBridged /\ bridged' > 0
    BY LiveConnectionAssumption DEF ConnectionTypes
  <2>2. ConnectionTypes'
    <3>1. ghost' \in [1..MaxBridged -> Ghosts]
      BY <1>4, GhostTyped DEF BridgeStart
    <3>. QED BY <1>0, <2>1, <3>1 DEF ConnectionTypes, Sockets, NoFrame
  <2>3. Shape'
    BY <2>1 DEF Shape
  <2>4. InStep' /\ NoGaps'
    BY DEF InStep, NoGaps
  <2>. QED BY <2>2, <2>3, <2>4
<1>. QED BY <1>1, <1>2, <1>3, <1>4

\* A session is forked on the connection.
LEMMA ForkStep ==
  ASSUME Kept, Fork PROVE Kept'
<1>. USE DEF Kept
<1>1. /\ up /\ ready /\ bridged < MaxBridged /\ bridged' = bridged + 1
      /\ forked' = TRUE /\ lease' = FALSE /\ parked' = (panel # 0)
  BY DEF Fork
<1>2. UNCHANGED <<up, connecting, socket, ready, retry, blocked, panel, grace, ghost, ghosted>>
  BY DEF Fork
<1>3. Bridge /\ bridged \in 0..MaxBridged /\ sequence \in Nat /\ panel \in 0..MaxPanels
  BY <1>1, AtBridge DEF ConnectionTypes
<1>4. MaxBridged \in Nat /\ MaxPanels \in Nat
  BY LiveConnectionAssumption DEF Bridge
<1>5. bridged' \in 1..MaxBridged /\ bridged' \in 0..MaxBridged
  <2>1. bridged < MaxBridged /\ bridged' = bridged + 1
    BY <1>1
  <2>. QED BY <1>3, <1>4, <2>1
<1>6. PICK frames, released :
        /\ frames = <<SnapshotOf(bridged + 1, 1, 0, FALSE)>> \o Republished(0)
        /\ released = Lapsed(lease)
        /\ Sends(released \o frames)
        /\ sequence' = Len(frames) - 1 /\ revision' = Len(frames)
  BY DEF Fork
<1>7. frames \in Seq(Frame) /\ Len(frames) \in Nat \ {0}
  <2>1. PICK f : f = SnapshotOf(bridged + 1, 1, 0, FALSE)
    OBVIOUS
  <2>2. f \in Frame
    <3>1. bridged + 1 \in 1..MaxBridged
      BY <1>1, <1>5
    <3>. QED BY <1>4, <2>1, <3>1, SnapshotTyped
  <2>3. PICK gs : gs = Republished(0)
    OBVIOUS
  <2>4. gs \in Seq(Frame)
    BY <1>3, <2>3, RepublishedShows
  <2>5. frames = <<f>> \o gs
    BY <1>6, <2>1, <2>3
  <2>. QED BY <2>2, <2>4, <2>5
<1>8. released \in Seq(Frame)
  <2>1. PICK held \in BOOLEAN : held = lease
    BY DEF ConnectionTypes
  <2>2. Lapsed(held) \in Seq(Frame)
    BY <1>3, <2>1, LapsedShows
  <2>. QED BY <1>6, <2>1, <2>2
<1>9. PICK all : all = released \o frames
  OBVIOUS
<1>10. all \in Seq(Frame) /\ Sends(all)
  <2>1. Sends(all)
    BY <1>6, <1>9, Zenon
  <2>2. all \in Seq(Frame)
    BY <1>7, <1>8, <1>9
  <2>. QED BY <2>1, <2>2
<1>11. /\ critical' \in Seq(Frame) /\ ignored' \in BOOLEAN
       /\ update' = update /\ squeezed' = squeezed
       /\ ~blocked => critical' = critical
  BY <1>10, SendsTyped DEF ConnectionTypes
<1>12. ConnectionTypes'
  <2>1. sequence' \in Nat /\ revision' \in Nat
    BY <1>6, <1>7
  <2>2. forked' \in BOOLEAN /\ lease' \in BOOLEAN /\ parked' \in BOOLEAN
    BY <1>1, Zenon
  <2>. QED BY <1>2, <1>5, <1>11, <2>1, <2>2 DEF ConnectionTypes
<1>13. Shape'
  <2>1. bridged' > 0
    BY <1>5
  <2>2. parked' => panel' # 0
    BY <1>1, <1>2
  <2>3. ~blocked' => critical' = <<>>
    BY <1>2, <1>11 DEF Shape
  <2>. QED BY <1>1, <1>2, <2>1, <2>2, <2>3 DEF Shape
<1>14. InStep' /\ NoGaps'
  BY <1>1 DEF InStep, NoGaps
<1>. QED BY <1>12, <1>13, <1>14
LEMMA ConnectionStep ==
  ASSUME ConnectionInv, [CNext]_cvars PROVE ConnectionInv'
<1>1. GraceMatchesConnection'
  BY GraceStep DEF ConnectionInv
<1>. SUFFICES Kept'
  BY <1>1 DEF Kept, ConnectionInv
<1>. Kept
  BY DEF Kept, ConnectionInv
<1>2. CASE UNCHANGED cvars
  <2>1. ConnectionTypes' /\ Shape'
    BY <1>2 DEF cvars, Kept, ConnectionTypes, Shape
  <2>2. InStep' /\ NoGaps'
    BY <1>2, QuietInStep DEF cvars
  <2>. QED BY <2>1, <2>2 DEF Kept
<1>3. CASE CNext
  <2>1. ASSUME SocketFills \/ RetryTimer \/ Dials \/ TokenUnreadable
               \/ GhostWelcomed \/ GraceEnds
        PROVE  Kept'
    <3>1. grace => ~ready
      BY DEF ConnectionInv, GraceMatchesConnection
    <3>. QED BY <2>1, <3>1, SocketStep
  <2>2. ASSUME Destroys \/ Closed \/ BridgeShutdown \/ BridgeStart PROVE Kept'
    BY <2>2, EndStep
  <2>3. SocketDrains => Kept'
    BY DrainStep
  <2>4. Welcome => Kept'
    BY WelcomeStep
  <2>5. Publish => Kept'
    BY PublishStep
  <2>6. PanelChanges => Kept'
    BY PanelStep
  <2>7. FlushFeatures => Kept'
    BY FlushStep
  <2>8. Refresh => Kept'
    BY RefreshStep
  <2>9. Claim => Kept'
    BY ClaimStep
  <2>10. Release => Kept'
    BY ReleaseStep DEF ConnectionInv, Shape
  <2>12. GhostClaims => Kept'
    BY GhostClaimsStep
  <2>11. Fork => Kept'
    BY ForkStep
  <2>. QED BY <1>3, <2>1, <2>2, <2>3, <2>4, <2>5, <2>6, <2>7, <2>8, <2>9, <2>10, <2>11,
             <2>12 DEF CNext
<1>. QED BY <1>2, <1>3

LEMMA ConnectionAlways == CSpec => []ConnectionInv
<1>1. CInit => ConnectionInv
  BY ConnectionStarts
<1>2. ConnectionInv /\ [CNext]_cvars => ConnectionInv'
  BY ConnectionStep
<1>. QED BY <1>1, <1>2, PTL DEF CSpec

\* Types hold for any sessions, queues, panels and failures.
THEOREM ConnectionTypeCorrect == CSpec => []CTypeOK
<1>1. ConnectionInv => CTypeOK
  <2>. SUFFICES ASSUME ConnectionInv PROVE CTypeOK
    OBVIOUS
  <2>1. ConnectionTypes
    BY DEF ConnectionInv
  <2>2. /\ {up, connecting, ready, retry, blocked, parked, lease, grace, ignored,
            squeezed, forked, ghosted} \subseteq BOOLEAN
    BY <2>1, Zenon DEF ConnectionTypes
  <2>. QED BY <2>1, <2>2 DEF ConnectionTypes, CTypeOK
<1>. QED BY <1>1, ConnectionAlways, PTL

\* The dashboard misses no event of a connection on which no update was squeezed
\* and no session forked: what is sent begins with a snapshot and follows it
\* number by number (index.ts:1104-1112), whatever the socket holds back, and the
\* news of an expired lease that goes ahead of the snapshot is in it again (598).
THEOREM NoGapsOnTheWire == CSpec => []NoGaps
<1>1. ConnectionInv => NoGaps
  BY DEF ConnectionInv
<1>. QED BY <1>1, ConnectionAlways, PTL

\* At rest the dashboard shows the session, the panel and the lease as they are
\* (republishLiveFeatures, index.ts:552; summary, 598).
THEOREM DashboardTrue == CSpec => []MirrorTrue
<1>1. ConnectionInv => MirrorTrue
  <2>. SUFFICES ASSUME ConnectionInv, Quiet, ~squeezed, ~forked
                PROVE  mirror.session = bridged /\ mirror.panel = panel /\ mirror.lease = lease
    BY DEF MirrorTrue
  <2>1. ready /\ socket = "live" /\ ~blocked /\ ~parked
    BY DEF Quiet
  <2>2. critical = <<>> /\ Told(mirror, critical, bridged, sequence, parked, panel, lease)
    BY <2>1 DEF ConnectionInv, Shape, InStep
  <2>3. PICK r, q : /\ Leads(mirror, critical, r) /\ Shows(r, bridged, sequence, q, lease)
                    /\ q = panel
    BY <2>1, <2>2, ToldLeads
  <2>4. r = mirror
    BY <2>2, <2>3, LeadsNone DEF Leads
  <2>. QED BY <2>3, <2>4 DEF Shows
<1>. QED BY <1>1, ConnectionAlways, PTL

\* The timer that takes a lease away never runs once the broker is back, and
\* while it is gone runs whenever a lease is held (lease.ts:121-135), unless a line
\* in the pipe of a stopped client stopped the timer or made the lease.
THEOREM LeaseTimerFollows == CSpec => []GraceMatchesConnection
<1>1. ConnectionInv => GraceMatchesConnection
  BY DEF ConnectionInv
<1>. QED BY <1>1, ConnectionAlways, PTL

-----------------------------------------------------------------------------
(* The goal.                                                                *)

Actions == {"create", "replace", "pause", "resume", "clear", "complete"}
Entries == [action : Actions, goal : 1..MaxGoals]
Goals == {NoGoal} \cup [id : 1..MaxGoals, status : {"active", "paused", "complete"}]

\* There is no goal, or one with an id.
LEMMA GoalHasId ==
  ASSUME NEW g \in Goals
  PROVE  /\ g = NoGoal <=> g.status = "none"
         /\ g # NoGoal => g.id \in 1..MaxGoals
         /\ g.status \in {"active", "paused", "complete"} => g # NoGoal
BY DEF Goals, NoGoal

LEMMA Reduces ==
  ASSUME NEW g \in Goals, NEW e \in Entries PROVE Reduce(g, e) \in Goals
<1>1. e.goal \in 1..MaxGoals /\ e.action \in Actions
  BY DEF Entries
<1>2. NoGoal \in Goals
  BY DEF Goals
<1>3. [id |-> e.goal, status |-> "active"] \in Goals
  BY <1>1 DEF Goals
<1>4. \A from \in {"active", "paused"}, to \in {"active", "paused", "complete"} :
        Turns(g, from, to, e.goal) \in Goals
  <2>. SUFFICES ASSUME NEW from \in {"active", "paused"},
                       NEW to \in {"active", "paused", "complete"},
                       g.id = e.goal, g.status = from
                PROVE  [g EXCEPT !.status = to] \in Goals
    BY DEF Turns
  <2>1. g \in [id : 1..MaxGoals, status : {"active", "paused", "complete"}]
    BY DEF Goals, NoGoal
  <2>. QED BY <2>1 DEF Goals
<1>5. CASE e.action = "create"
  BY <1>3, <1>5 DEF Reduce
<1>6. CASE e.action = "replace"
  BY <1>3, <1>6 DEF Reduce
<1>7. CASE e.action = "pause"
  BY <1>4, <1>7 DEF Reduce
<1>8. CASE e.action = "resume"
  BY <1>4, <1>8 DEF Reduce
<1>9. CASE e.action = "complete"
  BY <1>4, <1>9 DEF Reduce
<1>10. CASE e.action = "clear"
  BY <1>2, <1>10 DEF Reduce
<1>. QED BY <1>1, <1>5, <1>6, <1>7, <1>8, <1>9, <1>10 DEF Actions

\* Entry k of a log replayed.
Replayed(entries, a, n) ==
  a = [k \in 0..n |-> IF k = 0 THEN NoGoal ELSE Reduce(a[k - 1], entries[k])]

LEMMA ReplayedExists ==
  ASSUME NEW entries, NEW n \in Nat PROVE \E a : Replayed(entries, a, n)
<1>. DEFINE Good == {k \in Nat : \E a : Replayed(entries, a, k)}
<1>1. 0 \in Good
  <2>1. Replayed(entries, [k \in 0..0 |-> NoGoal], 0)
    BY DEF Replayed
  <2>. QED BY <2>1
<1>2. ASSUME NEW k \in 0..(n - 1), k \in Good PROVE k + 1 \in Good
  <2>1. PICK a : Replayed(entries, a, k)
    BY <1>2
  <2>2. PICK last : last = Reduce(a[k], entries[k + 1])
    OBVIOUS
  <2>. DEFINE b == [j \in 0..(k + 1) |-> IF j = k + 1 THEN last ELSE a[j]]
  <2>3. \A j \in 0..k : a[j] = IF j = 0 THEN NoGoal ELSE Reduce(a[j - 1], entries[j])
    BY <2>1 DEF Replayed
  <2>4. \A j \in 0..k : b[j] = a[j]
    OBVIOUS
  <2>5. b[k + 1] = last
    OBVIOUS
  <2>6. \A j \in 0..(k + 1) : b[j] = IF j = 0 THEN NoGoal ELSE Reduce(b[j - 1], entries[j])
    <3>. SUFFICES ASSUME NEW j \in 0..(k + 1)
                  PROVE  b[j] = IF j = 0 THEN NoGoal ELSE Reduce(b[j - 1], entries[j])
      OBVIOUS
    <3>. HIDE DEF b
    <3>1. CASE j = k + 1
      <4>1. b[j - 1] = a[k] /\ j # 0
        BY <3>1, <2>4
      <4>. QED BY <3>1, <4>1, <2>2, <2>5
    <3>2. CASE j # k + 1
      <4>1. j \in 0..k
        BY <3>2
      <4>2. CASE j = 0
        BY <4>2, <4>1, <2>3, <2>4
      <4>3. CASE j # 0
        <5>1. j - 1 \in 0..k
          BY <4>1, <4>3
        <5>. QED BY <4>1, <4>3, <5>1, <2>3, <2>4
      <4>. QED BY <4>2, <4>3
    <3>. QED BY <3>1, <3>2
  <2>7. b = [j \in 0..(k + 1) |-> b[j]]
    OBVIOUS
  <2>. HIDE DEF b
  <2>8. Replayed(entries, b, k + 1)
    BY <2>6, <2>7 DEF Replayed
  <2>9. k + 1 \in Nat
    OBVIOUS
  <2>. QED BY <2>8, <2>9
<1>3. \A k \in 0..n : k \in Good
  <2>. HIDE DEF Good
  <2>. QED BY <1>1, <1>2, BoundedInduction
<1>4. n \in 0..n
  OBVIOUS
<1>. QED BY <1>3, <1>4

\* Whatever the log holds, it replays to no goal or to one with an id.
LEMMA ReplayIsGoal ==
  ASSUME NEW entries \in Seq(Entries) PROVE Replay(entries) \in Goals
<1>. DEFINE n == Len(entries)
            P(a) == a = [k \in 0..n |-> IF k = 0 THEN NoGoal
                                        ELSE Reduce(a[k - 1], entries[k])]
<1>0. n \in Nat
  OBVIOUS
<1>1. \E a : P(a)
  <2>1. \E a : Replayed(entries, a, n)
    BY <1>0, ReplayedExists
  <2>. QED BY <2>1 DEF Replayed
<1>2. P(CHOOSE a : P(a))
  <2>. HIDE DEF P
  <2>. QED BY <1>1
<1>3. PICK a : a = CHOOSE b : P(b)
  OBVIOUS
<1>4. Replay(entries) = a[n]
  BY <1>3 DEF Replay
<1>5. P(a)
  BY <1>2, <1>3
<1>6. \A k \in 0..n : a[k] = IF k = 0 THEN NoGoal ELSE Reduce(a[k - 1], entries[k])
  BY <1>5
<1>. HIDE DEF P
<1>7. \A k \in 0..n : k \in {j \in 0..n : a[j] \in Goals}
  <2>. DEFINE Good == {j \in 0..n : a[j] \in Goals}
  <2>1. 0 \in Good
    <3>1. NoGoal \in Goals /\ 0 \in 0..n
      BY <1>0 DEF Goals
    <3>. QED BY <3>1, <1>6
  <2>2. ASSUME NEW k \in 0..(n - 1), k \in Good PROVE k + 1 \in Good
    <3>1. k + 1 \in 0..n /\ k + 1 # 0 /\ (k + 1) - 1 = k /\ k + 1 \in 1..n
      BY <1>0
    <3>2. entries[k + 1] \in Entries
      BY <3>1
    <3>3. Reduce(a[k], entries[k + 1]) \in Goals
      BY <2>2, <3>2, Reduces
    <3>. QED BY <1>6, <3>1, <3>3
  <2>3. \A k \in 0..n : k \in Good
    <3>. HIDE DEF Good
    <3>. QED BY <1>0, <2>1, <2>2, BoundedInduction
  <2>. QED BY <2>3
<1>8. n \in 0..n
  BY <1>0
<1>. QED BY <1>4, <1>7, <1>8
-----------------------------------------------------------------------------
(* The inductive invariant of the goal.                                     *)

DialogStates == [kind : {"none", "clear", "complete", "import", "review"}, shown : 0..MaxGoals]

GoalTypes ==
  /\ log \in Seq(Entries) /\ ids \in 0..MaxGoals
  /\ dialog \in [Dialogs -> DialogStates]
  /\ queuedGoalId \in 0..MaxGoals /\ continuations \in 0..MaxInFlight + 1
  /\ opened \in 0..MaxOpened
  /\ timer \in BOOLEAN /\ open \in BOOLEAN /\ inRun \in BOOLEAN /\ inCompaction \in BOOLEAN
  /\ disturbed \in BOOLEAN /\ cleared \in BOOLEAN

\* Without a session nothing asks.  While it was not cleared early, what was asked
\* last still counts as queued, so that nothing else is.
OneAsked ==
  /\ ~open => continuations = 0 /\ ~timer
  /\ ~cleared => continuations = 0 \/ (continuations = 1 /\ queuedGoalId # 0)

LEMMA GoalTyped ==
  ASSUME GoalTypes
  PROVE  /\ Goal \in Goals
         /\ Goal # NoGoal => Goal.id \in 1..MaxGoals
         /\ Active => Goal # NoGoal
         /\ Goal.status = "paused" => Goal # NoGoal
<1>1. PICK g : g = Goal
  OBVIOUS
<1>2. g \in Goals
  BY <1>1, ReplayIsGoal DEF GoalTypes, Goal
<1>3. /\ g # NoGoal => g.id \in 1..MaxGoals
      /\ g.status \in {"active", "paused", "complete"} => g # NoGoal
  BY <1>2, GoalHasId
<1>. QED BY <1>1, <1>2, <1>3 DEF Active

\* Saving one entry.
LEMMA SavesTyped ==
  ASSUME GoalTypes, NEW action \in Actions, NEW id \in 1..MaxGoals,
         Saves(Entry(action, id))
  PROVE  log' \in Seq(Entries)
<1>1. PICK e : e = Entry(action, id)
  OBVIOUS
<1>2. e \in Entries
  BY <1>1 DEF Entry, Entries
<1>3. log' = Append(log, e)
  BY <1>1 DEF Saves
<1>. QED BY <1>2, <1>3 DEF GoalTypes

LEMMA SavesNewTyped ==
  ASSUME GoalTypes, MaxGoals \in Nat, SavesNew
  PROVE  log' \in Seq(Entries) /\ ids' \in 0..MaxGoals
<1>1. ids < MaxGoals /\ ids' = ids + 1
  BY DEF SavesNew
<1>2. PICK id : id = ids'
  OBVIOUS
<1>3. id \in 1..MaxGoals
  <2>1. ids \in 0..MaxGoals
    BY DEF GoalTypes
  <2>. QED BY <1>1, <1>2, <2>1
<1>4. PICK e : e = Entry(IF Goal = NoGoal THEN "create" ELSE "replace", id)
  OBVIOUS
<1>5. e \in Entries
  BY <1>3, <1>4 DEF Entry, Entries, Actions
<1>6. log' = Append(log, e)
  BY <1>2, <1>4 DEF SavesNew, Saves
<1>. QED BY <1>2, <1>3, <1>5, <1>6 DEF GoalTypes

\* Opening and closing a dialog.
LEMMA AsksTyped ==
  ASSUME GoalTypes, MaxGoals \in Nat, NEW d \in Dialogs,
         NEW kind \in {"clear", "complete", "import", "review"}, Asks(d, kind)
  PROVE  dialog' \in [Dialogs -> DialogStates]
<1>1. PICK g : g = Goal
  OBVIOUS
<1>2. g.id \in 0..MaxGoals
  <2>1. g \in Goals
    BY <1>1, GoalTyped
  <2>2. CASE g = NoGoal
    BY <2>2 DEF NoGoal
  <2>3. CASE g # NoGoal
    <3>1. g.id \in 1..MaxGoals
      BY <2>1, <2>3, GoalHasId
    <3>. QED BY <3>1
  <2>. QED BY <2>2, <2>3
<1>3. PICK new : new = [kind |-> kind, shown |-> g.id]
  OBVIOUS
<1>4. new \in DialogStates
  BY <1>2, <1>3 DEF DialogStates
<1>5. dialog' = [dialog EXCEPT ![d] = new]
  BY <1>1, <1>3 DEF Asks
<1>. QED BY <1>4, <1>5 DEF GoalTypes

LEMMA ClosesTyped ==
  ASSUME GoalTypes, MaxGoals \in Nat, NEW d \in Dialogs, Closes(d)
  PROVE  /\ dialog' \in [Dialogs -> DialogStates]
         /\ dialog[d] # NoDialog
         /\ \A e \in Dialogs : e # d => dialog'[e] = dialog[e]
         /\ UNCHANGED <<queuedGoalId, timer, continuations, disturbed, cleared, open, opened,
                        inRun, inCompaction>>
<1>1. dialog' = [dialog EXCEPT ![d] = NoDialog]
  BY DEF Closes
<1>2. NoDialog \in DialogStates
  BY DEF NoDialog, DialogStates
<1>. QED BY <1>1, <1>2 DEF GoalTypes, Closes, runtimeVars, hostVars
GoalInv == GoalTypes /\ OneAsked

\* Steps that change the goal, and neither runtime nor Pi.
LEMMA LogStep ==
  ASSUME GoalInv, log' \in Seq(Entries), ids' \in 0..MaxGoals,
         dialog' \in [Dialogs -> DialogStates],
         UNCHANGED <<queuedGoalId, timer, continuations, disturbed, cleared, open, opened,
                     inRun, inCompaction>>
  PROVE  GoalInv'
BY DEF GoalInv, GoalTypes, OneAsked

LEMMA CommandStep ==
  ASSUME GoalInv,
         PauseCommand \/ ResumeCommand \/ CompleteTool \/ PauseTool
  PROVE  GoalInv'
<1>1. PICK id : id = Goal.id
  OBVIOUS
<1>2. id \in 1..MaxGoals
  BY <1>1, GoalTyped
     DEF GoalInv, PauseCommand, ResumeCommand, CompleteTool, PauseTool
<1>3. PICK action \in Actions : Saves(Entry(action, id))
  BY <1>1 DEF PauseCommand, ResumeCommand, CompleteTool, PauseTool, Actions
<1>4. log' \in Seq(Entries)
  BY <1>2, <1>3, SavesTyped DEF GoalInv
<1>5. UNCHANGED <<ids, dialog, queuedGoalId, timer, continuations, disturbed, cleared, open,
                  opened, inRun, inCompaction>>
  BY DEF PauseCommand, ResumeCommand, CompleteTool, PauseTool, runtimeVars, hostVars
<1>6. ids' \in 0..MaxGoals /\ dialog' \in [Dialogs -> DialogStates]
  BY <1>5 DEF GoalInv, GoalTypes
<1>. QED BY <1>4, <1>5, <1>6, LogStep

LEMMA NewGoalStep ==
  ASSUME GoalInv, CreateTool \/ DraftTool PROVE GoalInv'
<1>1. MaxGoals \in Nat
  BY GoalSessionAssumption
<1>2. SavesNew
  BY DEF CreateTool, DraftTool
<1>3. UNCHANGED <<dialog, queuedGoalId, timer, continuations, disturbed, cleared, open,
                  opened, inRun, inCompaction>>
  BY DEF CreateTool, DraftTool, runtimeVars, hostVars
<1>4. log' \in Seq(Entries) /\ ids' \in 0..MaxGoals
  BY <1>1, <1>2, SavesNewTyped DEF GoalInv
<1>5. dialog' \in [Dialogs -> DialogStates]
  BY <1>3 DEF GoalInv, GoalTypes
<1>. QED BY <1>3, <1>4, <1>5, LogStep

LEMMA DialogStep ==
  ASSUME GoalInv,
         \/ CommandAsks \/ DraftReviewed
         \/ \E d \in Dialogs : Confirmed(d) \/ Dismissed(d)
  PROVE  GoalInv'
<1>1. MaxGoals \in Nat /\ GoalTypes
  BY GoalSessionAssumption DEF GoalInv
<1>2. ASSUME NEW d \in Dialogs, NEW kind \in {"clear", "complete", "import", "review"},
             Asks(d, kind)
      PROVE  GoalInv'
  <2>1. dialog' \in [Dialogs -> DialogStates]
    BY <1>1, <1>2, AsksTyped
  <2>2. UNCHANGED <<log, ids, queuedGoalId, timer, continuations, disturbed, cleared, open,
                    opened, inRun, inCompaction>>
    BY <1>2 DEF Asks, goalVars, runtimeVars, hostVars
  <2>3. log' \in Seq(Entries) /\ ids' \in 0..MaxGoals
    BY <1>1, <2>2 DEF GoalTypes
  <2>. QED BY <2>1, <2>2, <2>3, LogStep
<1>3. CASE CommandAsks
  <2>1. "command" \in Dialogs
    BY DEF Dialogs
  <2>2. PICK kind \in {"clear", "complete", "import", "review"} : Asks("command", kind)
    BY <1>3 DEF CommandAsks
  <2>. QED BY <1>2, <2>1, <2>2
<1>4. CASE DraftReviewed
  <2>1. "review" \in Dialogs
    BY DEF Dialogs
  <2>2. Asks("review", "review")
    BY <1>4 DEF DraftReviewed
  <2>. QED BY <1>2, <2>1, <2>2
<1>5. ASSUME NEW d \in Dialogs, Confirmed(d) PROVE GoalInv'
  <2>1. Closes(d)
    BY <1>5 DEF Confirmed
  <2>2. /\ dialog' \in [Dialogs -> DialogStates]
        /\ UNCHANGED <<queuedGoalId, timer, continuations, disturbed, cleared, open, opened,
                       inRun, inCompaction>>
    BY <1>1, <2>1, ClosesTyped
  <2>3. PICK id : id = Goal.id
    OBVIOUS
  <2>4. log' \in Seq(Entries) /\ ids' \in 0..MaxGoals
    <3>1. CASE SavesNew
      BY <1>1, <3>1, SavesNewTyped
    <3>2. CASE ~SavesNew
      <4>1. PICK action \in Actions : Saves(Entry(action, id)) /\ ids' = ids
        BY <1>5, <2>3, <3>2 DEF Confirmed, Actions
      <4>2. Goal # NoGoal
        <5>1. Goal # NoGoal \/ Active
          BY <1>5, <3>2 DEF Confirmed
        <5>. QED BY <1>1, <5>1, GoalTyped
      <4>3. id \in 1..MaxGoals
        BY <1>1, <2>3, <4>2, GoalTyped
      <4>4. log' \in Seq(Entries)
        BY <1>1, <4>1, <4>3, SavesTyped
      <4>. QED BY <1>1, <4>1, <4>4 DEF GoalTypes
    <3>. QED BY <3>1, <3>2
  <2>. QED BY <2>2, <2>4, LogStep
<1>6. ASSUME NEW d \in Dialogs, Dismissed(d) PROVE GoalInv'
  <2>1. Closes(d) /\ log' = log /\ ids' = ids
    BY <1>6 DEF Dismissed, goalVars
  <2>2. /\ dialog' \in [Dialogs -> DialogStates]
        /\ UNCHANGED <<queuedGoalId, timer, continuations, disturbed, cleared, open, opened,
                       inRun, inCompaction>>
    BY <1>1, <2>1, ClosesTyped
  <2>3. log' \in Seq(Entries) /\ ids' \in 0..MaxGoals
    BY <1>1, <2>1 DEF GoalTypes
  <2>. QED BY <2>2, <2>3, LogStep
<1>. QED BY <1>3, <1>4, <1>5, <1>6

\* The timer, and what becomes of a prompt.
LEMMA PromptStep ==
  ASSUME GoalInv,
         \/ ContinuationTimer \/ ContinuationArrives \/ ContinuationTyped
         \/ ContinuationRefused
  PROVE  GoalInv'
<1>. USE DEF GoalInv
<1>1. MaxInFlight \in Nat /\ MaxGoals \in Nat
  BY GoalSessionAssumption
<1>2. continuations \in 0..MaxInFlight + 1
  BY DEF GoalTypes
<1>3. CASE ContinuationTimer
  <2>1. /\ timer /\ queuedGoalId = 0 /\ continuations <= MaxInFlight
        /\ queuedGoalId' = Goal.id /\ continuations' = continuations + 1
        /\ UNCHANGED <<log, ids, dialog, timer, disturbed, cleared, open, opened, inRun,
                       inCompaction>>
    BY <1>3 DEF ContinuationTimer, MayQueue, goalVars, hostVars
  <2>2. queuedGoalId' \in 1..MaxGoals
    <3>1. Goal.id \in 1..MaxGoals
      BY <1>3, GoalTyped DEF ContinuationTimer, MayQueue
    <3>. QED BY <2>1, <3>1
  <2>3. continuations' \in 0..MaxInFlight + 1
    BY <1>1, <1>2, <2>1
  <2>4. GoalTypes'
    BY <2>1, <2>2, <2>3 DEF GoalTypes
  <2>5. ~cleared => continuations = 0
    BY <2>1 DEF OneAsked
  <2>6. open
    BY <2>1 DEF OneAsked, GoalTypes
  <2>7. OneAsked'
    <3>1. ~cleared' => continuations' = 1 /\ queuedGoalId' # 0
      BY <2>1, <2>2, <2>5
    <3>2. open'
      BY <2>1, <2>6
    <3>. QED BY <3>1, <3>2 DEF OneAsked
  <2>. QED BY <2>4, <2>7
<1>4. CASE ContinuationArrives \/ ContinuationRefused
  <2>1. /\ continuations > 0 /\ continuations' = continuations - 1
        /\ UNCHANGED <<log, ids, dialog, timer, cleared, open, opened, inCompaction>>
    BY <1>4 DEF ContinuationArrives, ContinuationRefused, goalVars, hostVars
  <2>2. queuedGoalId' \in {queuedGoalId, 0} /\ disturbed' \in BOOLEAN /\ inRun' \in BOOLEAN
    <3>1. CASE ContinuationArrives
      <4>1. queuedGoalId' \in {queuedGoalId, 0}
        BY <3>1 DEF ContinuationArrives
      <4>2. disturbed' \in BOOLEAN
        BY <3>1, Zenon DEF ContinuationArrives
      <4>3. inRun' \in BOOLEAN
        BY <3>1, Zenon DEF ContinuationArrives
      <4>. QED BY <4>1, <4>2, <4>3
    <3>2. CASE ContinuationRefused
      <4>1. queuedGoalId' = queuedGoalId /\ inRun' = inRun
        BY <3>2 DEF ContinuationRefused, hostVars
      <4>2. disturbed' \in BOOLEAN
        BY <3>2, Zenon DEF ContinuationRefused
      <4>. QED BY <4>1, <4>2 DEF GoalTypes
    <3>. QED BY <1>4, <3>1, <3>2
  <2>3. continuations' \in 0..MaxInFlight + 1
    BY <1>1, <1>2, <2>1
  <2>4. queuedGoalId' \in 0..MaxGoals
    BY <1>1, <2>2 DEF GoalTypes
  <2>5. GoalTypes'
    BY <2>1, <2>2, <2>3, <2>4 DEF GoalTypes
  <2>6. open /\ (~cleared => continuations = 1)
    BY <1>2, <2>1 DEF OneAsked
  <2>7. OneAsked'
    BY <1>2, <2>1, <2>6 DEF OneAsked
  <2>. QED BY <2>5, <2>7
<1>5. CASE ContinuationTyped
  <2>1. /\ open
        /\ UNCHANGED <<log, ids, dialog, timer, continuations, open, opened, inCompaction>>
    BY <1>5 DEF ContinuationTyped, goalVars
  <2>2. /\ queuedGoalId' \in {queuedGoalId, 0}
        /\ disturbed' \in BOOLEAN /\ cleared' \in BOOLEAN /\ inRun' \in BOOLEAN
    <3>1. queuedGoalId' \in {queuedGoalId, 0}
      BY <1>5 DEF ContinuationTyped
    <3>2. disturbed' = FALSE \/ disturbed' = disturbed
      BY <1>5, Zenon DEF ContinuationTyped
    <3>3. cleared' = (cleared \/ continuations > 0) \/ cleared' = cleared
      BY <1>5, Zenon DEF ContinuationTyped
    <3>4. disturbed \in BOOLEAN /\ cleared \in BOOLEAN
      BY DEF GoalTypes
    <3>5. disturbed' \in BOOLEAN
      BY <3>2, <3>4, Zenon
    <3>6. cleared' \in BOOLEAN
      BY <3>3, <3>4, Zenon
    <3>7. inRun' \in BOOLEAN
      BY <1>5, Zenon DEF ContinuationTyped
    <3>. QED BY <3>1, <3>5, <3>6, <3>7
  <2>3. queuedGoalId' \in 0..MaxGoals
    BY <1>1, <2>2 DEF GoalTypes
  <2>4. GoalTypes'
    BY <2>1, <2>2, <2>3 DEF GoalTypes
  <2>5. ~cleared' => (continuations = 0 \/ (queuedGoalId' = queuedGoalId /\ ~cleared))
    <3>1. CASE Started
      <4>1. cleared' = (cleared \/ continuations > 0)
        BY <1>5, <3>1, Zenon DEF ContinuationTyped
      <4>2. ASSUME ~cleared' PROVE ~cleared /\ ~(continuations > 0)
        BY <4>1, <4>2, Zenon
      <4>. QED BY <1>2, <4>2
    <3>2. CASE ~Started
      BY <1>5, <3>2 DEF ContinuationTyped
    <3>. QED BY <3>1, <3>2
  <2>6. OneAsked'
    BY <2>1, <2>5 DEF OneAsked
  <2>. QED BY <2>4, <2>6
<1>. QED BY <1>3, <1>4, <1>5

\* Sessions, their tree, runs and compactions.
LEMMA SessionStep ==
  ASSUME GoalInv,
         \/ GoalStart \/ GoalShutdown \/ SessionTree
         \/ RunStarts \/ RunStops \/ CompactionStarts \/ CompactionStops
  PROVE  GoalInv'
<1>. USE DEF GoalInv
<1>1. MaxInFlight \in Nat /\ MaxGoals \in Nat /\ MaxOpened \in Nat
  BY GoalSessionAssumption
<1>2. CASE GoalStart
  <2>1. /\ ~open /\ open' = TRUE /\ opened < MaxOpened /\ opened' = opened + 1
        /\ log' \in {log, <<>>} /\ queuedGoalId' = 0 /\ disturbed' = FALSE /\ timer' = TRUE
        /\ UNCHANGED <<ids, dialog, continuations, cleared, inRun, inCompaction>>
    BY <1>2 DEF GoalStart, Forgets
  <2>2. continuations = 0
    BY <2>1 DEF OneAsked
  <2>3. log' \in Seq(Entries)
    <3>1. log \in Seq(Entries) /\ log' \in {log, <<>>}
      BY <2>1 DEF GoalTypes
    <3>2. <<>> \in Seq(Entries)
      OBVIOUS
    <3>3. log' = log \/ log' = <<>>
      BY <3>1, Zenon
    <3>. QED BY <3>1, <3>2, <3>3, Zenon
  <2>4. open' \in BOOLEAN /\ disturbed' \in BOOLEAN /\ timer' \in BOOLEAN
    BY <2>1, Zenon
  <2>5. opened' \in 0..MaxOpened
    <3>1. opened \in 0..MaxOpened
      BY DEF GoalTypes
    <3>2. opened < MaxOpened /\ opened' = opened + 1
      BY <2>1
    <3>. QED BY <1>1, <3>1, <3>2
  <2>6. queuedGoalId' \in 0..MaxGoals
    BY <1>1, <2>1
  <2>7. GoalTypes'
    BY <2>1, <2>3, <2>4, <2>5, <2>6 DEF GoalTypes
  <2>8. OneAsked'
    BY <2>1, <2>2 DEF OneAsked
  <2>. QED BY <2>7, <2>8
<1>3. CASE GoalShutdown
  <2>1. /\ open' = FALSE /\ inRun' = FALSE /\ inCompaction' = FALSE /\ timer' = FALSE
        /\ queuedGoalId' = 0 /\ disturbed' = FALSE /\ continuations' = 0 /\ cleared' = FALSE
        /\ dialog' = [d \in Dialogs |-> NoDialog]
        /\ UNCHANGED <<log, ids, opened>>
    BY <1>3 DEF GoalShutdown, Forgets, goalVars
  <2>2. /\ open' \in BOOLEAN /\ inRun' \in BOOLEAN /\ inCompaction' \in BOOLEAN
        /\ timer' \in BOOLEAN /\ disturbed' \in BOOLEAN /\ cleared' \in BOOLEAN
    BY <2>1, Zenon
  <2>3. dialog' \in [Dialogs -> DialogStates]
    <3>1. NoDialog \in DialogStates
      BY <1>1 DEF NoDialog, DialogStates
    <3>. QED BY <2>1, <3>1
  <2>4. queuedGoalId' \in 0..MaxGoals /\ continuations' \in 0..MaxInFlight + 1
    BY <1>1, <2>1
  <2>5. GoalTypes'
    BY <2>1, <2>2, <2>3, <2>4 DEF GoalTypes
  <2>6. OneAsked'
    BY <2>1 DEF OneAsked
  <2>. QED BY <2>5, <2>6
<1>4. CASE SessionTree
  <2>1. PICK k \in 0..Len(log) : log' = SubSeq(log, 1, k)
    BY <1>4 DEF SessionTree
  <2>2. /\ open /\ queuedGoalId' = 0 /\ disturbed' = FALSE /\ cleared' = (cleared \/ continuations > 0)
        /\ UNCHANGED <<ids, dialog, timer, continuations, open, opened, inRun, inCompaction>>
    BY <1>4 DEF SessionTree, PiIdle, Forgets, hostVars
  <2>3. log' \in Seq(Entries)
    BY <2>1 DEF GoalTypes
  <2>4. disturbed' \in BOOLEAN /\ cleared' \in BOOLEAN
    BY <2>2, Zenon
  <2>5. queuedGoalId' \in 0..MaxGoals
    BY <1>1, <2>2
  <2>6. GoalTypes'
    BY <2>2, <2>3, <2>4, <2>5 DEF GoalTypes
  <2>7. ~cleared' => continuations = 0
    <3>1. continuations \in 0..MaxInFlight + 1
      BY DEF GoalTypes
    <3>2. ~cleared' => ~(continuations > 0)
      BY <2>2, Zenon
    <3>. QED BY <1>1, <3>1, <3>2
  <2>8. OneAsked'
    BY <2>2, <2>7 DEF OneAsked
  <2>. QED BY <2>6, <2>8
<1>5. CASE RunStarts \/ RunStops \/ CompactionStarts \/ CompactionStops
  <2>1. UNCHANGED <<log, ids, dialog, queuedGoalId, timer, continuations, disturbed, cleared,
                    open, opened>>
    BY <1>5 DEF RunStarts, RunStops, CompactionStarts, CompactionStops, goalVars,
                runtimeVars
  <2>2. inRun' \in BOOLEAN /\ inCompaction' \in BOOLEAN
    <3>1. inRun' \in {inRun, TRUE, FALSE} /\ inCompaction' \in {inCompaction, TRUE, FALSE}
      BY <1>5, Zenon DEF RunStarts, RunStops, CompactionStarts, CompactionStops
    <3>. QED BY <3>1 DEF GoalTypes
  <2>3. GoalTypes'
    BY <2>1, <2>2 DEF GoalTypes
  <2>4. OneAsked'
    BY <2>1 DEF OneAsked
  <2>. QED BY <2>3, <2>4
<1>. QED BY <1>2, <1>3, <1>4, <1>5
LEMMA GoalStep ==
  ASSUME GoalInv, [GNext]_gvars PROVE GoalInv'
<1>1. CASE UNCHANGED gvars
  BY <1>1 DEF gvars, goalVars, hostVars, runtimeVars, GoalInv, GoalTypes, OneAsked
<1>2. CASE GNext
  <2>1. ASSUME PauseCommand \/ ResumeCommand \/ CompleteTool \/ PauseTool PROVE GoalInv'
    BY <2>1, CommandStep
  <2>2. ASSUME CreateTool \/ DraftTool PROVE GoalInv'
    BY <2>2, NewGoalStep
  <2>3. ASSUME \/ CommandAsks \/ DraftReviewed
               \/ \E d \in Dialogs : Confirmed(d) \/ Dismissed(d)
        PROVE  GoalInv'
    BY <2>3, DialogStep
  <2>4. ASSUME \/ ContinuationTimer \/ ContinuationArrives \/ ContinuationTyped
               \/ ContinuationRefused
        PROVE  GoalInv'
    BY <2>4, PromptStep
  <2>5. ASSUME \/ GoalStart \/ GoalShutdown \/ SessionTree
               \/ RunStarts \/ RunStops \/ CompactionStarts \/ CompactionStops
        PROVE  GoalInv'
    BY <2>5, SessionStep
  <2>. QED BY <1>2, <2>1, <2>2, <2>3, <2>4, <2>5 DEF GNext
<1>. QED BY <1>1, <1>2

LEMMA GoalAlways == GSpec => []GoalInv
<1>1. GInit => GoalInv
  <2>. SUFFICES ASSUME GInit PROVE GoalInv
    OBVIOUS
  <2>1. MaxGoals \in Nat /\ MaxOpened \in Nat /\ MaxInFlight \in Nat
    BY GoalSessionAssumption
  <2>2. NoDialog \in DialogStates
    BY <2>1 DEF NoDialog, DialogStates
  <2>3. dialog \in [Dialogs -> DialogStates]
    BY <2>2 DEF GInit
  <2>4. /\ log \in Seq(Entries) /\ ids \in 0..MaxGoals /\ queuedGoalId \in 0..MaxGoals
        /\ continuations \in 0..MaxInFlight + 1 /\ opened \in 0..MaxOpened
    BY <2>1 DEF GInit
  <2>5. GoalTypes
    BY <2>3, <2>4 DEF GInit, GoalTypes
  <2>6. OneAsked
    BY DEF GInit, OneAsked
  <2>. QED BY <2>5, <2>6 DEF GoalInv
<1>2. GoalInv /\ [GNext]_gvars => GoalInv'
  BY GoalStep
<1>. QED BY <1>1, <1>2, PTL DEF GSpec

\* Types hold for any goals, entries, sessions and prompts: what the log replays
\* to has an id whenever there is a goal.
THEOREM GoalTypeCorrect == GSpec => []GTypeOK
<1>1. GoalInv => GTypeOK
  <2>. SUFFICES ASSUME GoalInv PROVE GTypeOK
    OBVIOUS
  <2>1. GoalTypes
    BY DEF GoalInv
  <2>2. {timer, open, inRun, inCompaction, disturbed, cleared} \subseteq BOOLEAN
    BY <2>1, Zenon DEF GoalTypes
  <2>. QED BY <2>1, <2>2 DEF GoalTypes, GTypeOK, Entries, Actions, DialogStates
<1>. QED BY <1>1, GoalAlways, PTL

\* One continuation is under way at a time, between sendUserMessage and "input",
\* unless what was queued was cleared before its prompt arrived, by a move of the
\* tree or by a user who typed the same text: the agent is not flooded
\* (duplicate-queue, runtime.ts:251).
THEOREM AgentNotFlooded == GSpec => []NoFlood
<1>1. GoalInv => NoFlood
  BY DEF GoalInv, OneAsked, NoFlood
<1>. QED BY <1>1, GoalAlways, PTL

\* What a dialog asks is done to the goal it showed, and to no other: goals that
\* the agent, another dialog or the tree put in its place are left alone
\* (commands.ts:303, 401, 586).
THEOREM DialogsActOnWhatTheyShow == GSpec => ShownGoalOnly
<1>1. ASSUME GoalInv, GNext, NEW d \in Dialogs, dialog[d] # NoDialog,
             dialog'[d] = NoDialog, log' # log
      PROVE  Goal.id = dialog[d].shown
  <2>1. dialog' # dialog /\ GoalTypes
    BY <1>1 DEF GoalInv
  <2>2. ASSUME NEW e \in Dialogs, NEW kind, Asks(e, kind) PROVE FALSE
    BY <1>1, <2>2 DEF Asks, goalVars
  <2>3. ~CommandAsks /\ ~DraftReviewed
    BY <2>2 DEF CommandAsks, DraftReviewed, Dialogs
  <2>4. ~GoalShutdown
    BY <1>1 DEF GoalShutdown, goalVars
  <2>5. ~(PauseCommand \/ ResumeCommand \/ CreateTool \/ DraftTool \/ CompleteTool
            \/ PauseTool)
    BY <2>1 DEF PauseCommand, ResumeCommand, CreateTool, DraftTool, CompleteTool,
                PauseTool
  <2>6. ~(ContinuationTimer \/ ContinuationArrives \/ ContinuationTyped
            \/ ContinuationRefused)
    BY <2>1 DEF ContinuationTimer, ContinuationArrives, ContinuationTyped,
                ContinuationRefused
  <2>7. ~(GoalStart \/ SessionTree \/ RunStarts \/ RunStops \/ CompactionStarts
            \/ CompactionStops)
    BY <2>1 DEF GoalStart, SessionTree, RunStarts, RunStops, CompactionStarts,
                CompactionStops
  <2>8. PICK e \in Dialogs : Confirmed(e) \/ Dismissed(e)
    BY <1>1, <2>3, <2>4, <2>5, <2>6, <2>7 DEF GNext
  <2>9. ~Dismissed(e)
    BY <1>1 DEF Dismissed, goalVars
  <2>10. Closes(e) /\ StillShown(e)
    BY <2>8, <2>9 DEF Confirmed
  <2>11. e = d
    BY <1>1, <2>10 DEF Closes, GoalInv, GoalTypes
  <2>. QED BY <2>10, <2>11 DEF StillShown
<1>2. GoalInv /\ [GNext]_gvars =>
        [\A d \in Dialogs :
           dialog[d] # NoDialog /\ dialog'[d] = NoDialog /\ log' # log
             => Goal.id = dialog[d].shown]_gvars
  BY <1>1
<1>. QED BY <1>2, GoalAlways, PTL DEF GSpec, ShownGoalOnly
=============================================================================
