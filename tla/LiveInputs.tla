------------------------------ MODULE LiveInputs ------------------------------
(***************************************************************************)
(* The queue of inputs of the live session bridge (live-session/index.ts). *)
(* Inputs typed in the terminal and inputs sent by the dashboard go        *)
(* through one queue, one at a time, and are held while Pi compacts,       *)
(* because Pi refuses a prompt then and nobody hears of the refusal.       *)
(*                                                                         *)
(* Pi itself is the environment: its sessions, its runs and compactions.   *)
(***************************************************************************)
EXTENDS Naturals, Sequences, FiniteSets

CONSTANTS
  Inputs,          \* what users type, here or on the dashboard
  MaxSessions,     \* bound: sessions one after the other
  MaxRuns,         \* bound: runs of the agent
  MaxCompactions,  \* bound: compactions
  NONE             \* no input

ASSUME LiveInputsAssumption ==
  /\ {MaxSessions, MaxRuns, MaxCompactions} \subseteq Nat
  /\ MaxSessions > 0 /\ NONE \notin Inputs

VARIABLES
  session,      \* the session that is up: currentContext; 0 between two
  sessions,     \* sessions begun
  inputQueue, activeInput,
  state,        \* of each input: new, queued, open (given to Pi), done, dropped
  home,         \* the session an input was sent to
  taken,        \* the session that an input was given to
  lost,         \* inputs Pi refused because it was compacting
  drainSoon,    \* a microtask will run drainInputQueue
  compaction,   \* the bridge's mark that Pi compacts
  finishing,    \* timers of finishCompaction: session and number of the compaction
  running,      \* Pi runs the agent
  compacting,   \* Pi compacts: no, yes, or "ending" once the end is announced
  overlapped,   \* a compaction began before the timer of the one before
  runs, compactions

queueVars == <<inputQueue, activeInput, state, taken, lost, compaction>>
piVars == <<session, sessions, running, compacting, overlapped, runs, compactions>>
vars == <<queueVars, piVars, home, drainSoon, finishing>>

Timers == (1..MaxSessions) \X (1..MaxCompactions)

\* ctx.isIdle(): neither a run nor a compaction.
IsIdle == ~running /\ compacting = "no"

TypeOK ==
  /\ session \in 0..MaxSessions /\ sessions \in 0..MaxSessions
  /\ inputQueue \in Seq(Inputs) /\ activeInput \in Inputs \cup {NONE}
  /\ state \in [Inputs -> {"new", "queued", "open", "done", "dropped"}]
  /\ home \in [Inputs -> 0..MaxSessions] /\ taken \in [Inputs -> 0..MaxSessions]
  /\ lost \subseteq Inputs /\ finishing \subseteq Timers
  /\ compacting \in {"no", "yes", "ending"}
  /\ {drainSoon, compaction, running, overlapped} \subseteq BOOLEAN
  /\ runs \in 0..MaxRuns /\ compactions \in 0..MaxCompactions

Init ==
  /\ session = 0 /\ sessions = 0
  /\ inputQueue = <<>> /\ activeInput = NONE
  /\ state = [i \in Inputs |-> "new"]
  /\ home = [i \in Inputs |-> 0] /\ taken = [i \in Inputs |-> 0]
  /\ lost = {} /\ finishing = {}
  /\ drainSoon = FALSE /\ compaction = FALSE
  /\ running = FALSE /\ compacting = "no" /\ overlapped = FALSE
  /\ runs = 0 /\ compactions = 0

-----------------------------------------------------------------------------
(* drainInputQueue and compactionBlocksInput.                              *)

\* Faulty variant: the mark is believed, also once Pi is idle.
BlocksForGood(mark) == mark

\* The mark holds inputs back, unless Pi is idle: then its end was missed.
Blocks(mark) == mark /\ ~IsIdle

\* One pass over the queue q, with the mark and the states of the inputs s.
Drain(q, active, mark, s) ==
  IF active # NONE \/ session = 0 \/ Blocks(mark)
  THEN /\ inputQueue' = q /\ activeInput' = active /\ state' = s
       /\ compaction' = mark
       /\ UNCHANGED <<taken, lost>>
  ELSE /\ compaction' = FALSE
       /\ IF q = <<>>
          THEN /\ inputQueue' = q /\ activeInput' = active /\ state' = s
               /\ UNCHANGED <<taken, lost>>
          ELSE /\ inputQueue' = Tail(q) /\ activeInput' = Head(q)
               /\ state' = [s EXCEPT ![Head(q)] = "open"]
               /\ taken' = [taken EXCEPT ![Head(q)] = session]
               /\ lost' = IF compacting = "no" THEN lost ELSE lost \cup {Head(q)}

\* enqueueInput, for the terminal ("input" event) and the dashboard (command).
Enqueue(i) ==
  /\ session # 0 /\ state[i] = "new"
  /\ home' = [home EXCEPT ![i] = session]
  /\ Drain(Append(inputQueue, i), activeInput, compaction,
           [state EXCEPT ![i] = "queued"])
  /\ UNCHANGED <<piVars, drainSoon, finishing>>

\* Faulty variant: whatever settles frees the queue.
FreesQueueAlways(i) == TRUE

\* Only the input that is still the active one frees the queue.
FreesQueue(i) == activeInput = i

\* The promise of sendUserMessage settles: at the end of the turn, at the end
\* of a slash command, or at once when Pi refused the prompt.
DispatchSettles(i) ==
  /\ state[i] = "open"
  /\ state' = [state EXCEPT ![i] = "done"]
  /\ IF FreesQueue(i)
     THEN activeInput' = NONE /\ drainSoon' = TRUE
     ELSE UNCHANGED <<activeInput, drainSoon>>
  /\ UNCHANGED <<piVars, inputQueue, home, taken, lost, compaction, finishing>>

DrainMicrotask ==
  /\ drainSoon
  /\ drainSoon' = FALSE
  /\ Drain(inputQueue, activeInput, compaction, state)
  /\ UNCHANGED <<piVars, home, finishing>>

\* What the heartbeat does for the queue.
Heartbeat ==
  /\ session # 0
  /\ compaction /\ ~Blocks(compaction)
  /\ Drain(inputQueue, activeInput, FALSE, state)
  /\ UNCHANGED <<piVars, home, drainSoon, finishing>>

-----------------------------------------------------------------------------
(* Compactions.                                                            *)

\* Pi begins to compact, at rest or within a run, and says so at the moment
\* from which it refuses prompts: session_before_compact.
CompactionBegins ==
  /\ session # 0 /\ compacting = "no" /\ compactions < MaxCompactions
  /\ compacting' = "yes" /\ compactions' = compactions + 1
  /\ compaction' = TRUE
  /\ overlapped' = (overlapped \/ \E t \in finishing : t[1] = session)
  /\ UNCHANGED <<session, sessions, running, runs, inputQueue, activeInput,
                 state, home, taken, lost, drainSoon, finishing>>

\* session_compact or session_compact_failed: finishCompaction sets a timer.
CompactionReported ==
  /\ compacting = "yes"
  /\ compacting' = "ending"
  /\ finishing' = finishing \cup {<<session, compactions>>}
  /\ UNCHANGED <<session, sessions, running, runs, compactions, overlapped,
                 queueVars, home, drainSoon>>

\* Pi takes prompts again. The report of the end may have been missed.
CompactionEnds ==
  /\ compacting # "no"
  /\ compacting' = "no"
  /\ UNCHANGED <<session, sessions, running, runs, compactions, overlapped,
                 queueVars, home, drainSoon, finishing>>

\* Faulty variant: nobody asks whose timer it is.
TimerIsAnybodys(t) == TRUE

\* The timer belongs to the session whose context the bridge holds.
TimerIsCurrent(t) == t[1] = session

\* The timer of finishCompaction. It runs after Pi's own continuation, which
\* ends the compaction that was reported.
FinishCompaction(t) ==
  /\ t \in finishing
  /\ ~(t = <<session, compactions>> /\ compacting = "ending")
  /\ finishing' = finishing \ {t}
  /\ IF TimerIsCurrent(t)
     THEN Drain(inputQueue, activeInput, FALSE, state)
     ELSE UNCHANGED queueVars
  /\ UNCHANGED <<piVars, home, drainSoon>>

-----------------------------------------------------------------------------
(* Runs and sessions.                                                      *)

RunBegins ==
  /\ session # 0 /\ IsIdle /\ runs < MaxRuns
  /\ running' = TRUE /\ runs' = runs + 1
  /\ UNCHANGED <<session, sessions, compacting, overlapped, compactions,
                 queueVars, home, drainSoon, finishing>>

RunEnds ==
  /\ running
  /\ running' = FALSE
  /\ UNCHANGED <<session, sessions, compacting, overlapped, runs, compactions,
                 queueVars, home, drainSoon, finishing>>

\* Faulty variant: the active input is forgotten, what is queued is not.
ClearActiveOnly ==
  /\ activeInput' = NONE /\ compaction' = FALSE
  /\ UNCHANGED <<inputQueue, state, taken, lost>>

\* clearInputQueue. What was queued was accepted, and is gone.
Clear ==
  /\ inputQueue' = <<>> /\ activeInput' = NONE /\ compaction' = FALSE
  /\ state' = [i \in Inputs |-> IF state[i] = "queued" THEN "dropped" ELSE state[i]]
  /\ UNCHANGED <<taken, lost>>

\* Pi leaves a session, and with it whatever ran or was compacted there.
Leaves(next) ==
  /\ session' = next
  /\ running' = FALSE /\ compacting' = "no"
  /\ UNCHANGED <<overlapped, runs, compactions, home, drainSoon, finishing>>

SessionShutdown ==
  /\ session # 0
  /\ Leaves(0) /\ Clear
  /\ UNCHANGED sessions

\* session_start after a shutdown, or of a fork, which Pi may begin within
\* the same process and connection without a shutdown.
SessionStart ==
  /\ sessions < MaxSessions
  /\ sessions' = sessions + 1
  /\ Leaves(sessions') /\ Clear

-----------------------------------------------------------------------------
Next ==
  \/ \E i \in Inputs : Enqueue(i) \/ DispatchSettles(i)
  \/ DrainMicrotask \/ Heartbeat
  \/ CompactionBegins \/ CompactionReported \/ CompactionEnds
  \/ \E t \in Timers : FinishCompaction(t)
  \/ RunBegins \/ RunEnds
  \/ SessionShutdown \/ SessionStart

\* Promises settle, microtasks and timers run; Pi's runs and compactions end.
Fairness ==
  /\ \A i \in Inputs : WF_vars(DispatchSettles(i))
  /\ WF_vars(DrainMicrotask) /\ WF_vars(Heartbeat)
  /\ \A t \in Timers : WF_vars(FinishCompaction(t))
  /\ WF_vars(CompactionEnds) /\ WF_vars(RunEnds)

Spec == Init /\ [][Next]_vars /\ Fairness

-----------------------------------------------------------------------------
(* Properties.                                                             *)

\* Within a session one input at a time is with Pi, whatever is left of the
\* sessions before it: activeInput (index.ts:446, 468).
OneAtATime ==
  session # 0 =>
    Cardinality({i \in Inputs : state[i] = "open" /\ taken[i] = session}) <= 1

\* An input goes to the session it was sent to, and inputs that wait are those
\* of the present session: a switch leaves none behind (clearInputQueue).
OwnSession ==
  /\ \A i \in Inputs : taken[i] # 0 => taken[i] = home[i]
  /\ \A k \in 1..Len(inputQueue) : home[inputQueue[k]] = session

\* Pi refuses an input only when a compaction began before the timer of the
\* one before it had run: the timer then takes the new mark away (index.ts:500).
LostOnlyToOverlap == lost # {} => overlapped

\* An input that waits is given to Pi, or dropped with its session; the queue
\* is never stuck behind an input or behind a compaction whose end was missed.
QueueGoesOn == \A i \in Inputs : state[i] = "queued" ~> state[i] # "queued"
=============================================================================
