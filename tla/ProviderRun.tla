------------------------------ MODULE ProviderRun ------------------------------
(***************************************************************************)
(* The runs of one child session (providers/pi-rpc-process-provider.ts)    *)
(* under SubagentService.start: a child process that takes commands on its *)
(* standard input and writes answers and events to its standard output.    *)
(* A call waits for a permit of the governor, starts the process if there  *)
(* is none, sends its prompt and waits for the event agent_settled, while  *)
(* heartbeats, the hard wall time, the budget of the run, an abort, the    *)
(* end of the process and the close of the session race with it.           *)
(*                                                                         *)
(* A session has one process in its life: once stopped it is dead for      *)
(* good.  Everything that happens on the exit of the process (the rejected *)
(* requests, the listeners, the awaits on stop, the answer of the run) is  *)
(* one step.  The warnings, the text of the events and the usage are left  *)
(* out, and so are the other sessions of the provider (ProviderCapacity).  *)
(***************************************************************************)
EXTENDS Naturals, Sequences

CONSTANTS MaxCalls    \* calls of start for this session, the first of which creates it

ASSUME ProviderRunAssumption == MaxCalls \in Nat \ {0}

Calls == 1..MaxCalls

VARIABLES
  phase,     \* of a call: new, queued at the governor, starting, running, over
  answer,    \* what start returned: none, result, error
  aborted,   \* calls whose signal was aborted
  abortSent, \* runs that sent an abort to the child
  timedOut,  \* runs with a pendingTimeout: the wall time, the budget or a tool
  dead,      \* the session is in deadSessions and its client being stopped, or the
             \* provider is disposed
  pending,   \* requests to the child that wait for an answer
  inbox,     \* requests the child has not read
  outbox,    \* answers and events of the child that were not read
  proc,      \* the process: none, up, gone
  hung,      \* it reads no more
  working    \* the call whose prompt it works at, 0 if none

callVars == <<phase, answer, aborted, abortSent, timedOut>>
childVars == <<inbox, outbox, proc, hung, working>>
vars == <<callVars, dead, pending, childVars>>

Requests == [kind : {"state", "prompt", "abort", "stop", "beat"}, call : Calls]
Outputs == [what : {"ok", "error", "settled", "breach"}, of : Requests]

TypeOK ==
  /\ phase \in [Calls -> {"new", "queued", "starting", "running", "over"}]
  /\ answer \in [Calls -> {"none", "result", "error"}]
  /\ {aborted, abortSent, timedOut} \subseteq SUBSET Calls
  /\ {dead, hung} \subseteq BOOLEAN
  /\ pending \subseteq Requests
  /\ inbox \in Seq(Requests) /\ outbox \in Seq(Outputs)
  /\ proc \in {"none", "up", "gone"} /\ working \in 0..MaxCalls

Init ==
  /\ phase = [c \in Calls |-> "new"] /\ answer = [c \in Calls |-> "none"]
  /\ aborted = {} /\ abortSent = {} /\ timedOut = {}
  /\ dead = FALSE
  /\ pending = {} /\ inbox = <<>> /\ outbox = <<>>
  /\ proc = "none" /\ hung = FALSE /\ working = 0

-----------------------------------------------------------------------------
Request(kind, c) == [kind |-> kind, call |-> c]
Output(what, r) == [what |-> what, of |-> r]

\* The calls that hold a permit: it is released when start returns.
Holding == {c \in Calls : phase[c] \in {"starting", "running"}}

Settles(c, a) ==
  /\ phase' = [phase EXCEPT ![c] = "over"]
  /\ answer' = [answer EXCEPT ![c] = a]

\* send, while the requests of rest wait: a client that is being stopped takes none.
Sends(kind, c, rest) ==
  IF dead THEN pending' = rest /\ UNCHANGED inbox
  ELSE /\ pending' = rest \cup {Request(kind, c)}
       /\ inbox' = Append(inbox, Request(kind, c))

\* invalidateSession: the client is stopped, and a run that waits for that fails
\* when the process has exited (ChildExits).
Invalidates == dead' = TRUE /\ UNCHANGED callVars

-----------------------------------------------------------------------------
(* start, up to the prompt.                                                *)

\* A call that continues the session needs one that was created.
Asks(c) ==
  /\ phase[c] = "new"
  /\ c = 1 \/ phase[1] \notin {"new", "queued"}
  /\ phase' = [phase EXCEPT ![c] = "queued"]
  /\ UNCHANGED <<answer, aborted, abortSent, timedOut, dead, pending, childVars>>

\* The head of runPrompt: a signal that was aborted is noticed before the prompt.
Begins(c, rest) ==
  IF c \in aborted
  THEN Settles(c, "error") /\ pending' = rest /\ UNCHANGED inbox
  ELSE /\ phase' = [phase EXCEPT ![c] = "running"]
       /\ Sends("prompt", c, rest)
       /\ UNCHANGED answer

\* The permit is granted, and there is a session that is free.
Continues(c) ==
  /\ phase[c] = "queued"
  /\ proc = "up" /\ ~dead /\ Holding = {}
  /\ Begins(c, pending)
  /\ UNCHANGED <<aborted, abortSent, timedOut, dead, outbox, proc, hung, working>>

\* The permit is granted, and the process is spawned and asked for its state.
Spawns(c) ==
  /\ phase[c] = "queued"
  /\ proc = "none" /\ ~dead
  /\ proc' = "up"
  /\ phase' = [phase EXCEPT ![c] = "starting"]
  /\ Sends("state", c, pending)
  /\ UNCHANGED <<answer, aborted, abortSent, timedOut, dead, outbox, hung, working>>

\* The permit is granted in vain: the session is dead or busy or made for another
\* model or directory, the provider is disposed or full, or the spawn fails.
Refused(c) ==
  /\ phase[c] = "queued"
  /\ Settles(c, "error")
  /\ dead' \in {dead, dead \/ proc = "none"}
  /\ UNCHANGED <<aborted, abortSent, timedOut, pending, childVars>>

-----------------------------------------------------------------------------
(* Ends of a run.                                                          *)

\* Faulty variant: the run fails at once, and the process is left to die.
TerminatesAtOnce(c) == dead' = TRUE /\ Settles(c, "error") /\ UNCHANGED <<aborted, abortSent, timedOut>>

\* terminateTimedOutSession: the run fails when the process is gone.
Terminates(c) == Invalidates

\* Faulty variant: a run that was aborted has had its abort.
TimesOutUnlessAborted(c) ==
  /\ c \notin timedOut \cup abortSent
  /\ timedOut' = timedOut \cup {c} /\ abortSent' = abortSent \cup {c}
  /\ Sends("stop", c, pending)

\* beginTimeout: the child is asked to abort, and gets a grace.
TimesOut(c) ==
  /\ c \notin timedOut
  /\ timedOut' = timedOut \cup {c} /\ abortSent' = abortSent \cup {c}
  /\ Sends("stop", c, pending)

HardWall(c) ==
  /\ phase[c] = "running"
  /\ TimesOut(c)
  /\ UNCHANGED <<phase, answer, aborted, dead, outbox, proc, hung, working>>

GraceEnds(c) ==
  /\ phase[c] = "running" /\ c \in timedOut /\ ~dead
  /\ Terminates(c)
  /\ UNCHANGED <<pending, childVars>>

\* The caller aborts its signal, or the run is interrupted.
Aborts(c) ==
  /\ phase[c] \in {"queued", "starting", "running"} /\ c \notin aborted
  /\ aborted' = aborted \cup {c}
  /\ \/ /\ phase[c] = "queued" /\ Settles(c, "error")
        /\ UNCHANGED <<abortSent, pending, inbox>>
     \/ /\ phase[c] = "starting"
        /\ UNCHANGED <<phase, answer, abortSent, pending, inbox>>
     \/ /\ phase[c] = "running" /\ abortSent' = abortSent \cup {c}
        /\ IF c \in abortSent THEN UNCHANGED <<pending, inbox>> ELSE Sends("abort", c, pending)
        /\ UNCHANGED <<phase, answer>>
  /\ UNCHANGED <<timedOut, dead, outbox, proc, hung, working>>

Heartbeat(c) ==
  /\ phase[c] = "running" /\ Request("beat", c) \notin pending /\ ~dead
  /\ Sends("beat", c, pending)
  /\ UNCHANGED <<callVars, dead, outbox, proc, hung, working>>

\* A request fails.  The catch of a heartbeat and the end of a time-out look
\* whether the run is over; those of a prompt and of an abort do not.
Fails(r) ==
  IF r.kind \in {"beat", "stop"} /\ phase[r.call] = "over"
  THEN UNCHANGED <<callVars, dead>>
  ELSE IF r.kind = "stop" THEN Terminates(r.call) ELSE Invalidates

RequestTimesOut ==
  \E r \in pending :
    /\ pending' = pending \ {r}
    /\ Fails(r)
    /\ UNCHANGED childVars

-----------------------------------------------------------------------------
(* What the child says: attachReader, and the listener of runPrompt.       *)

\* An answer nobody waits for any more.
ReadsLateAnswer ==
  /\ outbox # <<>> /\ Head(outbox).what \in {"ok", "error"}
  /\ Head(outbox).of \notin pending
  /\ outbox' = Tail(outbox)
  /\ UNCHANGED <<callVars, dead, pending, inbox, proc, hung, working>>

ReadsRefusal ==
  /\ outbox # <<>> /\ Head(outbox).what = "error"
  /\ Head(outbox).of \in pending
  /\ outbox' = Tail(outbox)
  /\ pending' = pending \ {Head(outbox).of}
  /\ Fails(Head(outbox).of)
  /\ UNCHANGED <<inbox, proc, hung, working>>

\* Faulty variant: an abort that is answered ends the run.
GoesOnPastAbort(r, rest) ==
  IF r.kind = "state" /\ ~dead THEN Begins(r.call, rest)
  ELSE /\ pending' = rest /\ UNCHANGED inbox
       /\ IF r.kind = "abort" /\ phase[r.call] = "running"
          THEN Settles(r.call, "error") ELSE UNCHANGED <<phase, answer>>

\* Only the answer to the start leads on, unless the session was closed meanwhile.
GoesOn(r, rest) ==
  IF r.kind = "state" /\ ~dead THEN Begins(r.call, rest)
  ELSE pending' = rest /\ UNCHANGED <<phase, answer, inbox>>

ReadsAnswer ==
  /\ outbox # <<>> /\ Head(outbox).what = "ok"
  /\ Head(outbox).of \in pending
  /\ outbox' = Tail(outbox)
  /\ GoesOn(Head(outbox).of, pending \ {Head(outbox).of})
  /\ UNCHANGED <<aborted, abortSent, timedOut, dead, proc, hung, working>>

\* agent_settled: the run is over, unless it had timed out; start then gives the
\* result of a run that was aborted away.
Settled(c) ==
  IF c \in timedOut THEN Terminates(c)
  ELSE /\ Settles(c, IF c \in aborted THEN "error" ELSE "result")
       /\ UNCHANGED <<aborted, abortSent, timedOut, dead>>

\* The listeners are those of the run there is.
ReadsSettled ==
  /\ outbox # <<>> /\ Head(outbox).what = "settled"
  /\ outbox' = Tail(outbox)
  /\ \/ \E c \in Calls : phase[c] = "running" /\ Settled(c)
     \/ (\A c \in Calls : phase[c] # "running") /\ UNCHANGED <<callVars, dead>>
  /\ UNCHANGED <<pending, inbox, proc, hung, working>>

\* A tool the role may not use, or the last model call of the budget.
ReadsBreach ==
  /\ outbox # <<>> /\ Head(outbox).what = "breach"
  /\ outbox' = Tail(outbox)
  /\ \/ \E c \in Calls : phase[c] = "running" /\ TimesOut(c)
     \/ (\A c \in Calls : phase[c] # "running" \/ c \in timedOut)
        /\ UNCHANGED <<timedOut, abortSent, pending, inbox>>
  /\ UNCHANGED <<phase, answer, aborted, dead, proc, hung, working>>

-----------------------------------------------------------------------------
(* The child.                                                              *)

Reads == proc = "up" /\ ~hung /\ inbox # <<>> /\ inbox' = Tail(inbox)
Says(outputs) == outbox' = outbox \o outputs

ChildAnswers ==
  /\ Reads
  /\ LET r == Head(inbox)
     IN  \/ r.kind # "prompt" /\ Says(<<Output("ok", r)>>) /\ UNCHANGED working
         \/ r.kind = "prompt" /\ Says(<<Output("error", r)>>) /\ UNCHANGED working
         \/ /\ r.kind = "prompt" /\ working = 0
            /\ Says(<<Output("ok", r)>>) /\ working' = r.call
  /\ UNCHANGED <<callVars, dead, pending, proc, hung>>

\* The child stops its work for an abort.
ChildAborts ==
  /\ Reads
  /\ Head(inbox).kind \in {"abort", "stop"} /\ working # 0
  /\ LET settled == Output("settled", Request("prompt", working))
         ok == Output("ok", Head(inbox))
     IN  Says(<<settled, ok>>) \/ Says(<<ok, settled>>)
  /\ working' = 0
  /\ UNCHANGED <<callVars, dead, pending, proc, hung>>

ChildSettles ==
  /\ proc = "up" /\ working # 0
  /\ Says(<<Output("settled", Request("prompt", working))>>)
  /\ working' = 0
  /\ UNCHANGED <<callVars, dead, pending, inbox, proc, hung>>

\* It breaks a rule; once is enough.
ChildBreaches ==
  /\ proc = "up" /\ working # 0 /\ working \notin timedOut
  /\ \A k \in 1..Len(outbox) : outbox[k].what # "breach"
  /\ Says(<<Output("breach", Request("prompt", working))>>)
  /\ UNCHANGED <<callVars, dead, pending, inbox, proc, hung, working>>

ChildHangs ==
  /\ proc = "up" /\ ~hung /\ ~dead
  /\ hung' = TRUE
  /\ UNCHANGED <<callVars, dead, pending, inbox, outbox, proc, working>>

\* exit: the requests are rejected, the listeners invalidate the session, stop is
\* done, and what waited for it goes on: the run fails.
ChildExits ==
  /\ proc = "up"
  /\ proc' = "gone" /\ dead' = TRUE
  /\ pending' = {} /\ inbox' = <<>> /\ outbox' = <<>> /\ working' = 0
  /\ phase' = [c \in Calls |-> IF c \in Holding THEN "over" ELSE phase[c]]
  /\ answer' = [c \in Calls |-> IF c \in Holding THEN "error" ELSE answer[c]]
  /\ UNCHANGED <<aborted, abortSent, timedOut, hung>>

\* failProcess without an exit: standard input fails, or a line is no JSON.
PipeBreaks ==
  /\ proc = "up" /\ ~dead
  /\ Invalidates /\ pending' = {}
  /\ UNCHANGED childVars

\* closeSession and dispose, by the controller.
CloseSession ==
  /\ ~dead
  /\ Invalidates
  /\ UNCHANGED <<pending, childVars>>

-----------------------------------------------------------------------------
Next ==
  \/ \E c \in Calls :
       \/ Asks(c) \/ Continues(c) \/ Spawns(c) \/ Refused(c)
       \/ HardWall(c) \/ GraceEnds(c) \/ Aborts(c) \/ Heartbeat(c)
  \/ RequestTimesOut
  \/ ReadsLateAnswer \/ ReadsRefusal \/ ReadsAnswer \/ ReadsSettled \/ ReadsBreach
  \/ ChildAnswers \/ ChildAborts \/ ChildSettles \/ ChildBreaches \/ ChildHangs
  \/ ChildExits \/ PipeBreaks \/ CloseSession

\* Timers fire, and a process that is stopped exits (SIGTERM, then SIGKILL).
\* Nothing is asked of the child, which may hang or never settle.
Fairness ==
  /\ \A c \in Calls : WF_vars(HardWall(c)) /\ WF_vars(GraceEnds(c))
  /\ WF_vars(RequestTimesOut)
  /\ WF_vars(dead /\ ChildExits)

Spec == Init /\ [][Next]_vars /\ Fairness

-----------------------------------------------------------------------------
(* Properties.                                                             *)

\* The child works, and has work before it, only for a call that holds a permit:
\* however a run ends, its process is idle or gone when the permit goes back
\* (pi-rpc-process-provider.ts:997-1020, subagent-service.ts:717).
WorkHasPermit ==
  /\ working # 0 => working \in Holding
  /\ proc = "up" => \A k \in 1..Len(inbox) : inbox[k].kind = "prompt" => inbox[k].call \in Holding

\* The result of a call is that of its own prompt: an event of the run before it
\* does not end it, and a run that timed out, spent its budget or used a forbidden
\* tool has none even if the child settles in the grace
\* (pi-rpc-process-provider.ts:1195-1214).
ResultIsOwn ==
  [][\A c \in Calls :
       answer[c] = "none" /\ answer'[c] = "result"
         => /\ Head(outbox) = Output("settled", Request("prompt", c))
            /\ c \notin timedOut]_vars

\* Every run ends, whatever the child does: it hangs, is aborted and never
\* settles, answers heartbeats for ever, or exits (hard wall time and grace).
RunReturns == \A c \in Calls : phase[c] \in {"starting", "running"} ~> phase[c] = "over"
=============================================================================
