-------------------------- MODULE BackgroundCommands --------------------------
(***************************************************************************)
(* background-commands/manager.ts: commands that are started in the        *)
(* background, or run in the foreground and are handed over, their process *)
(* groups, the one reason of an end that is told, and the shutdown of the  *)
(* manager; and the session events of running-commands/index.ts that bind  *)
(* the manager, unbind it, and leave it alive over a reload.               *)
(*                                                                         *)
(* A call of start or executeForeground awaits three times (directory,     *)
(* output file, spawn), finalize three times (process group, output file,  *)
(* removal), and everything else may happen in between.                    *)
(*                                                                         *)
(* Abstracted: output, titles, environment and ids; an output limit, a log *)
(* error and an error of the child are one fault; signals of a stop and    *)
(* the deadline after which it kills are one step of the process.          *)
(***************************************************************************)
EXTENDS Naturals, FiniteSets

CONSTANTS Commands,       \* calls of start or executeForeground
          Timed,          \* those with a timeout
          MaxConcurrent   \* background commands of a session

ASSUME CommandAssumption ==
  /\ IsFiniteSet(Commands)
  /\ MaxConcurrent \in Nat \ {0}
  /\ Timed \subseteq Commands

VARIABLES
  mode,       \* foreground or background
  pc,         \* where the call, and then the command, stands
  proc,       \* its process group: none, alive, or lingering after the shell
  stop,       \* state of requestedTermination, or "none"
  quiet,      \* commands with suppressCompletion
  result,     \* terminal state, or "none"; "exited" by itself
  answer,     \* what the caller was told
  told,       \* messages sent about its end: completionDelivered from the first on
  aborted,    \* calls under way whose signal is aborted
  tasks,      \* keys of the map tasks
  starting,            \* startingCount
  startingBackground,  \* startingBackgroundCount
  bound,      \* sessionId is the id of the session
  directory,  \* the output store has a directory
  shutdown,   \* where performShutdown stands, or "no"
  awaited,    \* the commands it waits for
  timer,      \* reloadCleanupTimer is set
  host,       \* where the extension stands between session events
  enabled,    \* backgroundCommandsEnabled
  listening   \* the extension has subscribed

command == <<mode, pc, proc, stop, quiet, result, answer, aborted, tasks>>
counts == <<starting, startingBackground>>
session == <<bound, directory, shutdown, awaited, timer, host, enabled, listening>>
vars == <<command, told, counts, session>>

Init ==
  /\ mode \in [Commands -> {"foreground", "background"}]
  /\ pc = [c \in Commands |-> "new"]
  /\ proc = [c \in Commands |-> "none"]
  /\ stop = [c \in Commands |-> "none"]
  /\ quiet = {}
  /\ result = [c \in Commands |-> "none"]
  /\ answer = [c \in Commands |-> "none"]
  /\ told = [c \in Commands |-> 0]
  /\ aborted = {}
  /\ tasks = {}
  /\ starting = 0
  /\ startingBackground = 0
  /\ bound = FALSE
  /\ directory = FALSE
  /\ shutdown = "no"
  /\ awaited = {}
  /\ timer = FALSE
  /\ host = "away"
  /\ enabled = TRUE
  /\ listening = FALSE

ShuttingDown == shutdown # "no"

InStart(c) == pc[c] \in {"preparing", "spawning", "abandoning"}

\* Faulty variant: children that outlive the shell are not counted.
LivingShell(c) == proc[c] = "alive"

\* The process group has a process.
Living(c) == proc[c] # "none"

Active == {c \in tasks : result[c] = "none"}

BackgroundActive ==
  startingBackground + Cardinality({c \in Active : mode[c] = "background"})

-----------------------------------------------------------------------------
(* start and executeForeground.                                            *)

\* Faulty variant: the slot is taken when the command is registered.
CountStartLate(c) ==
  starting' = starting + 1 /\ UNCHANGED startingBackground

CountStart(c) ==
  /\ starting' = starting + 1
  /\ startingBackground' = startingBackground + (IF mode[c] = "background" THEN 1 ELSE 0)

\* Faulty variant: the finally block of one of the two functions is missing.
UncountStartBackground(c) ==
  IF mode[c] = "background"
  THEN starting' = starting - 1 /\ startingBackground' = startingBackground - 1
  ELSE UNCHANGED counts

\* The second counter is clamped, which would hide that it is wrong.
UncountStart(c) ==
  /\ starting' = starting - 1
  /\ startingBackground' = IF mode[c] = "background" /\ startingBackground > 0
                           THEN startingBackground - 1 ELSE startingBackground

MayBegin(c) ==
  /\ ~ShuttingDown
  /\ bound
  /\ c \notin aborted
  /\ mode[c] = "background" => BackgroundActive < MaxConcurrent

\* The tools of a session are called while the extension is up, or while it
\* is leaving with the agent still at work.
Begin(c) ==
  /\ host \in {"up", "leaving"}
  /\ enabled
  /\ pc[c] = "new"
  /\ IF MayBegin(c)
     THEN /\ pc' = [pc EXCEPT ![c] = "preparing"]
          /\ CountStart(c)
          /\ UNCHANGED answer
     ELSE /\ pc' = [pc EXCEPT ![c] = "over"]
          /\ answer' = [answer EXCEPT ![c] = "error"]
          /\ UNCHANGED counts
  /\ UNCHANGED <<mode, proc, stop, quiet, result, aborted, tasks, told, session>>

\* The call throws, and gives back what it counted.
StartFails(c) ==
  /\ pc' = [pc EXCEPT ![c] = "over"]
  /\ answer' = [answer EXCEPT ![c] = "error"]
  /\ aborted' = aborted \ {c}
  /\ UncountStart(c)
  /\ UNCHANGED <<mode, stop, quiet, result, tasks, told, session>>

\* The working directory is gone, or the output file cannot be made.
PrepareFails(c) ==
  /\ pc[c] = "preparing"
  /\ StartFails(c)
  /\ UNCHANGED proc

\* Shutdown and abort are looked at again, but start looks at its signal only
\* after the spawn.
Prepared(c) ==
  /\ pc[c] = "preparing"
  /\ directory
  /\ IF ShuttingDown \/ (mode[c] = "foreground" /\ c \in aborted)
     THEN pc' = [pc EXCEPT ![c] = "abandoning"] /\ UNCHANGED proc
     ELSE /\ pc' = [pc EXCEPT ![c] = "spawning"]
          /\ proc' = [proc EXCEPT ![c] = "alive"]
  /\ UNCHANGED <<mode, stop, quiet, result, answer, aborted, tasks,
                 told, counts, session>>

\* The shell does not start.
SpawnFails(c) ==
  /\ pc[c] = "spawning"
  /\ pc' = [pc EXCEPT ![c] = "abandoning"]
  /\ proc' = [proc EXCEPT ![c] = "none"]
  /\ UNCHANGED <<mode, stop, quiet, result, answer, aborted, tasks,
                 told, counts, session>>

Spawned(c) ==
  /\ pc[c] = "spawning"
  /\ IF ShuttingDown \/ c \in aborted
     THEN /\ pc' = [pc EXCEPT ![c] = "abandoning"]
          /\ UNCHANGED <<answer, tasks, counts>>
     ELSE /\ pc' = [pc EXCEPT ![c] = "running"]
          /\ tasks' = tasks \cup {c}
          /\ answer' = [answer EXCEPT ![c] = IF mode[c] = "background" THEN "background" ELSE @]
          /\ UncountStart(c)
  /\ UNCHANGED <<mode, proc, stop, quiet, result, aborted, told, session>>

\* terminateUnregisteredChild has killed the process, and the file is gone.
Abandoned(c) ==
  /\ pc[c] = "abandoning"
  /\ StartFails(c)
  /\ proc' = [proc EXCEPT ![c] = "none"]

-----------------------------------------------------------------------------
(* What ends a command.                                                    *)

\* Faulty variant: a later reason replaces the first one, and a termination
\* is requested of what is already being finalized.
MayStopAnyTime(c) == result[c] = "none"

\* requestTermination returns early for what is finalized or told to stop.
MayStop(c) == pc[c] = "running" /\ stop[c] = "none"

RequestTermination(c, state) ==
  IF MayStop(c)
  THEN stop' = [stop EXCEPT ![c] = state] /\ quiet' = quiet \ {c}
  ELSE UNCHANGED <<stop, quiet>>

StopsOnly ==
  UNCHANGED <<mode, pc, proc, result, answer, tasks, told, counts, session>>

\* cancel of a command that still has a process.
Cancel(c) ==
  /\ host = "up"
  /\ bound
  /\ c \in Active
  /\ mode[c] = "background"
  /\ Living(c)
  /\ RequestTermination(c, "cancelled")
  /\ UNCHANGED aborted
  /\ StopsOnly

\* The timer does nothing when the process group has gone by itself.
Timeout(c) ==
  /\ c \in Timed
  /\ pc[c] = "running"
  /\ Living(c)
  /\ RequestTermination(c, "timed_out")
  /\ UNCHANGED aborted
  /\ StopsOnly

Fault(c) ==
  /\ pc[c] = "running"
  /\ RequestTermination(c, "failed")
  /\ UNCHANGED aborted
  /\ StopsOnly

\* The signal of a call is heard until the command is in the background.
Abort(c) ==
  /\ host = "up"
  /\ \/ /\ InStart(c)
        /\ c \notin aborted
        /\ aborted' = aborted \cup {c}
        /\ UNCHANGED <<stop, quiet>>
     \/ /\ pc[c] = "running"
        /\ mode[c] = "foreground"
        /\ RequestTermination(c, "cancelled")
        /\ UNCHANGED aborted
  /\ StopsOnly

\* The shell ends, by itself or by a signal, with or without its children.
ShellExits(c) ==
  /\ proc[c] = "alive"
  /\ \E left \in {"lingering", "none"} : proc' = [proc EXCEPT ![c] = left]
  /\ UNCHANGED <<mode, pc, stop, quiet, result, answer, aborted, tasks,
                 told, counts, session>>

GroupExits(c) ==
  /\ proc[c] = "lingering"
  /\ proc' = [proc EXCEPT ![c] = "none"]
  /\ UNCHANGED <<mode, pc, stop, quiet, result, answer, aborted, tasks,
                 told, counts, session>>

-----------------------------------------------------------------------------
(* backgroundForeground.                                                   *)

MayHandOver(c) ==
  /\ mode[c] = "foreground"
  /\ c \in tasks
  /\ pc[c] = "running"
  /\ ~ShuttingDown
  /\ stop[c] = "none"
  /\ BackgroundActive < MaxConcurrent

HandOver(c) ==
  /\ host = "up"
  /\ MayHandOver(c)
  /\ mode' = [mode EXCEPT ![c] = "background"]
  /\ answer' = [answer EXCEPT ![c] = "background"]
  /\ UNCHANGED <<pc, proc, stop, quiet, result, aborted, tasks, told, counts, session>>

-----------------------------------------------------------------------------
(* finalize.                                                               *)

\* Faulty variant: what was told of once is told of again.
PendingAgain(done, registered) ==
  {c \in registered : mode[c] = "background" /\ done[c] # "none" /\ c \notin quiet}

\* pendingCompletions.
Pending(done, registered) ==
  {c \in registered : mode[c] = "background" /\ done[c] # "none" /\ c \notin quiet /\ told[c] = 0}

\* Each message may be refused; the ones after it are sent all the same.
Deliver(done, registered) ==
  \E sent \in SUBSET Pending(done, registered) :
    told' = [c \in Commands |-> told[c] + (IF c \in sent THEN 1 ELSE 0)]

\* Commands that are not in the map any more keep no result.
Forget(S) ==
  /\ result' = [c \in Commands |-> IF c \in S THEN "none" ELSE result[c]]
  /\ quiet' = quiet \ S

\* The pipes are closed: finalize begins.
Close(c) ==
  /\ pc[c] = "running"
  /\ proc[c] # "alive"
  /\ pc' = [pc EXCEPT ![c] = "finalizing"]
  /\ UNCHANGED <<mode, proc, stop, quiet, result, answer, aborted, tasks,
                 told, counts, session>>

\* The output file may turn out broken when it is closed.
Outcomes(c) ==
  IF stop[c] # "none" THEN {stop[c]}
  ELSE IF proc[c] = "lingering" THEN {"failed"} ELSE {"exited", "failed"}

\* Children that outlive the shell are ended and the output file is closed. The
\* end of a background command is published at once, a foreground one is taken
\* out of the map first. The reason of the end is not looked at any more.
Finish(c) ==
  /\ pc[c] = "finalizing"
  /\ proc' = [proc EXCEPT ![c] = "none"]
  /\ \E r \in Outcomes(c) : result' = [result EXCEPT ![c] = r]
  /\ stop' = [stop EXCEPT ![c] = "none"]
  /\ IF mode[c] = "background"
     THEN /\ pc' = [pc EXCEPT ![c] = "over"]
          /\ IF listening THEN Deliver(result', tasks) ELSE UNCHANGED told
          /\ UNCHANGED tasks
     ELSE /\ pc' = [pc EXCEPT ![c] = "removing"]
          /\ tasks' = tasks \ {c}
          /\ UNCHANGED told
  /\ UNCHANGED <<mode, quiet, answer, aborted, counts, session>>

FileRemoved(c) ==
  /\ pc[c] = "removing"
  /\ pc' = [pc EXCEPT ![c] = "over"]
  /\ answer' = [answer EXCEPT ![c] = "ended"]
  /\ Forget({c})
  /\ UNCHANGED <<mode, proc, stop, aborted, tasks, told, counts, session>>

-----------------------------------------------------------------------------
(* performShutdown.                                                        *)

\* Faulty variant: the calls under way are not waited for.
StartsOverAlways == TRUE

StartsOver == starting = 0

\* All that is active is silenced and told to stop, unless its group is gone.
StopAll ==
  /\ shutdown' = "stopping"
  /\ awaited' = Active
  /\ stop' = [c \in Commands |-> IF c \in Active /\ Living(c) /\ MayStop(c) THEN "cancelled" ELSE stop[c]]
  /\ quiet' = quiet \cup Active

\* shutdown, or the promise of the one that is under way.
BeginShutdown ==
  /\ timer' = FALSE
  /\ IF ShuttingDown THEN UNCHANGED <<shutdown, awaited, stop, quiet>>
     ELSE IF StartsOver THEN StopAll
     ELSE shutdown' = "waiting" /\ UNCHANGED <<awaited, stop, quiet>>

\* The poll sees that the calls under way are over.
ShutdownStops ==
  /\ shutdown = "waiting"
  /\ StartsOver
  /\ StopAll
  /\ UNCHANGED <<mode, pc, proc, result, answer, aborted, tasks, told, counts,
                 bound, directory, timer, host, enabled, listening>>

\* Everything has completed; the directory is being removed.
ShutdownCleans ==
  /\ shutdown = "stopping"
  /\ \A c \in awaited : pc[c] = "over"
  /\ shutdown' = "cleaning"
  /\ directory' = FALSE
  /\ awaited' = {}
  /\ UNCHANGED <<command, told, counts, bound, timer, host, enabled, listening>>

ShutdownEnds ==
  /\ shutdown = "cleaning"
  /\ shutdown' = "no"
  /\ tasks' = {}
  /\ Forget(tasks)
  /\ bound' = FALSE
  /\ UNCHANGED <<mode, pc, proc, stop, answer, aborted, told, counts,
                 directory, awaited, timer, host, enabled, listening>>

\* scheduleReloadCleanup: nobody came back in time.
ReloadTimeout ==
  /\ timer
  /\ BeginShutdown
  /\ UNCHANGED <<mode, pc, proc, result, answer, aborted, tasks, told, counts,
                 bound, directory, host, enabled, listening>>

-----------------------------------------------------------------------------
(* session_start and session_shutdown.                                     *)

\* With a reload the manager lives on for a while; otherwise it is shut down.
SessionEnds(reload) ==
  /\ host = "up"
  /\ listening' = FALSE
  /\ IF reload /\ enabled
     THEN timer' = TRUE /\ host' = "away" /\ UNCHANGED <<shutdown, awaited, stop, quiet>>
     ELSE BeginShutdown /\ host' = "leaving"
  /\ UNCHANGED <<mode, pc, proc, result, answer, aborted, tasks, told, counts,
                 bound, directory, enabled>>

\* The handler that awaits the shutdown goes on.
ShutdownAwaited ==
  /\ ~ShuttingDown
  /\ \/ host = "leaving" /\ host' = "away"
     \/ host = "disabling" /\ host' = "up"
  /\ UNCHANGED <<command, told, counts, bound, directory, shutdown, awaited, timer, enabled, listening>>

\* bindSession has nothing to do for the session that it is bound to.
Rebind ==
  /\ bound
  /\ directory
  /\ host' = "up"
  /\ listening' = TRUE
  /\ Deliver(result, tasks)
  /\ UNCHANGED bound

\* Otherwise it fails with something active, or makes a directory.
BindAnew ==
  /\ ~(bound /\ directory)
  /\ IF starting + Cardinality(Active) > 0
     THEN host' = "up" /\ UNCHANGED bound
     ELSE host' = "binding" /\ bound' = TRUE
  /\ UNCHANGED <<listening, told>>

SessionStarts ==
  /\ host = "away"
  /\ enabled' = TRUE
  /\ timer' = FALSE
  /\ Rebind \/ BindAnew
  /\ UNCHANGED <<command, counts, directory, shutdown, awaited>>

\* The settings have turned background commands off.
SessionStartsWithout ==
  /\ host = "away"
  /\ enabled' = FALSE
  /\ BeginShutdown
  /\ host' = "disabling"
  /\ UNCHANGED <<mode, pc, proc, result, answer, aborted, tasks, told, counts,
                 bound, directory, listening>>

\* initialize is done: the extension subscribes and delivers what is pending.
Bound ==
  /\ host = "binding"
  /\ host' = "up"
  /\ directory' = TRUE
  /\ listening' = TRUE
  /\ Deliver(result, tasks)
  /\ UNCHANGED <<command, counts, bound, shutdown, awaited, timer, enabled>>

Starting(c) == PrepareFails(c) \/ Prepared(c) \/ SpawnFails(c) \/ Spawned(c) \/ Abandoned(c)

Finalizing(c) == Finish(c) \/ FileRemoved(c)

ShuttingOn == ShutdownStops \/ ShutdownCleans \/ ShutdownEnds

Next ==
  \/ \E c \in Commands :
       \/ Begin(c) \/ Starting(c) \/ Cancel(c) \/ Timeout(c) \/ Fault(c) \/ Abort(c)
       \/ ShellExits(c) \/ GroupExits(c) \/ HandOver(c) \/ Close(c) \/ Finalizing(c)
  \/ ShuttingOn
  \/ ReloadTimeout
  \/ \E reload \in BOOLEAN : SessionEnds(reload)
  \/ ShutdownAwaited \/ SessionStarts \/ SessionStartsWithout \/ Bound

Spec == Init /\ [][Next]_vars

\* A command runs as long as it likes. But file operations and a spawn end; a
\* group that is told to stop is killed after killGraceMs; the pipes of a
\* group that is gone are closed; and timers of the manager fire.
Fairness ==
  /\ \A c \in Commands :
       /\ WF_vars(Starting(c))
       /\ WF_vars(stop[c] # "none" /\ (ShellExits(c) \/ GroupExits(c)))
       /\ WF_vars(proc[c] = "none" /\ Close(c))
       /\ WF_vars(Finalizing(c))
  /\ WF_vars(ShuttingOn)

FairSpec == Spec /\ Fairness

-----------------------------------------------------------------------------
(* Properties.                                                             *)

\* Commands, counters and the manager are in known states.
TypeOK ==
  /\ mode \in [Commands -> {"foreground", "background"}]
  /\ pc \in [Commands -> {"new", "preparing", "spawning", "abandoning", "running",
                          "finalizing", "removing", "over"}]
  /\ proc \in [Commands -> {"none", "alive", "lingering"}]
  /\ stop \in [Commands -> {"none", "cancelled", "timed_out", "failed"}]
  /\ result \in [Commands -> {"none", "exited", "cancelled", "timed_out", "failed"}]
  /\ answer \in [Commands -> {"none", "error", "background", "ended"}]
  /\ told \in [Commands -> Nat]
  /\ quiet \subseteq Commands
  /\ aborted \subseteq Commands
  /\ tasks \subseteq Commands
  /\ awaited \subseteq Commands
  /\ starting \in Nat
  /\ startingBackground \in Nat
  /\ shutdown \in {"no", "waiting", "stopping", "cleaning"}
  /\ host \in {"away", "binding", "disabling", "up", "leaving"}
  /\ {bound, directory, timer, enabled, listening} \subseteq BOOLEAN

\* No process without an owner: whatever runs belongs to a call under way or
\* to a registered command that is not terminal, and once the manager is shut
\* down nothing runs at all.
NoOrphan ==
  \A c \in Commands : Living(c) =>
    /\ InStart(c) \/ c \in Active
    /\ bound \/ ShuttingDown

\* Of a cancel, a time-out, a fault and a shutdown the first one is reported,
\* and a command that none of them met is not reported as stopped.
FirstReasonWins ==
  [][\A c \in Commands :
       /\ stop[c] # "none" => stop'[c] = stop[c] \/ result'[c] = stop[c]
       /\ stop[c] = "none" /\ result[c] = "none" => result'[c] \in {"none", "exited", "failed"}]_vars

\* Each command has one fate, each caller one answer, each end at most one
\* message, and no more than MaxConcurrent commands are in the background,
\* those included whose start is still under way.
Fate(c) ==
  CASE pc[c] = "new" -> "new"
    [] InStart(c) -> "starting"
    [] pc[c] \in {"running", "finalizing", "removing"} -> "running"
    [] pc[c] = "over" /\ answer[c] = "error" -> "refused"
    [] OTHER -> "ended"

F == INSTANCE CommandFates WITH fate <- [c \in Commands |-> Fate(c)], place <- mode

ImplementsFates == F!Spec

\* A call that is aborted returns, and so does one whose manager shuts down.
StoppedCallsReturn ==
  \A c \in Commands :
    (c \in aborted \/ stop[c] # "none" \/ (ShuttingDown /\ pc[c] # "new")) ~> (answer[c] # "none")

\* A shutdown ends, whatever was being started, moved or finalized.
ShutdownTerminates == ShuttingDown ~> ~ShuttingDown
=============================================================================
