---------------------- MODULE BackgroundCommands_proofs ----------------------
(***************************************************************************)
(* Proofs about BackgroundCommands, for any number of commands and any     *)
(* limit: no process is without an owner, the first reason of an end is    *)
(* the one reported, and the manager implements CommandFates.              *)
(***************************************************************************)
EXTENDS BackgroundCommands, FiniteSetTheorems, TLAPS

CommandTypes ==
  /\ mode \in [Commands -> {"foreground", "background"}]
  /\ pc \in [Commands -> {"new", "preparing", "spawning", "abandoning", "running",
                          "finalizing", "removing", "over"}]
  /\ proc \in [Commands -> {"none", "alive", "lingering"}]
  /\ stop \in [Commands -> {"none", "cancelled", "timed_out", "failed"}]
  /\ result \in [Commands -> {"none", "exited", "cancelled", "timed_out", "failed"}]
  /\ answer \in [Commands -> {"none", "error", "background", "ended"}]
  /\ told \in [Commands -> Nat]
  /\ quiet \subseteq Commands
  /\ aborted \subseteq Commands
  /\ tasks \subseteq Commands

ManagerTypes ==
  /\ awaited \subseteq Commands
  /\ shutdown \in {"no", "waiting", "stopping", "cleaning"}
  /\ host \in {"away", "binding", "disabling", "up", "leaving"}
  /\ bound \in BOOLEAN
  /\ directory \in BOOLEAN
  /\ timer \in BOOLEAN
  /\ enabled \in BOOLEAN
  /\ listening \in BOOLEAN

\* The command runs or is being finalized, and is in the map.
Registered(c) == pc[c] \in {"running", "finalizing"}

\* Whatever has a process is being started or registered; what is registered
\* has no result, and what is in the map besides it has ended in the background.
CommandInv(c) ==
  /\ Living(c) => InStart(c) \/ Registered(c)
  /\ pc[c] = "preparing" => ~Living(c)
  /\ pc[c] = "new" \/ InStart(c) \/ Registered(c) => result[c] = "none"
  /\ Registered(c) => c \in tasks
  /\ c \in tasks => Registered(c) \/ (pc[c] = "over" /\ mode[c] = "background" /\ result[c] # "none")
  /\ answer[c] = "error" => pc[c] = "over" /\ c \notin tasks
  /\ pc[c] = "removing" => mode[c] = "foreground"

Owned == \A c \in Commands : CommandInv(c)

\* A shutdown that has stopped what is active finds nothing that is started
\* later, and waits for all that is registered.
ShutdownInv ==
  \A c \in Commands :
    /\ InStart(c) => shutdown \notin {"stopping", "cleaning"}
    /\ Registered(c) => shutdown # "cleaning"
    /\ Registered(c) /\ shutdown = "stopping" => c \in awaited
    /\ InStart(c) \/ Registered(c) => bound \/ ShuttingDown

\* The counters are the calls under way.
Starts == {c \in Commands : InStart(c)}
BackgroundStarts == {c \in Commands : InStart(c) /\ mode[c] = "background"}

CountsInv ==
  /\ starting = Cardinality(Starts)
  /\ startingBackground = Cardinality(BackgroundStarts)

IInv == CommandTypes /\ ManagerTypes /\ Owned /\ ShutdownInv /\ CountsInv

-----------------------------------------------------------------------------
(* What a step leaves as it was.                                           *)

LEMMA InitIInv == Init => IInv
<1> SUFFICES ASSUME Init PROVE IInv
  OBVIOUS
<1>1. CommandTypes /\ ManagerTypes
  BY DEF Init, CommandTypes, ManagerTypes
<1>2. \A c \in Commands : pc[c] = "new"
  BY DEF Init
<1>3. Owned
  BY DEF Init, Owned, CommandInv, Living, InStart, Registered
<1>4. ShutdownInv
  BY <1>2 DEF ShutdownInv, InStart, Registered
<1>5. CountsInv
  <2>1. Starts = {} /\ BackgroundStarts = {}
    BY <1>2 DEF Starts, BackgroundStarts, InStart
  <2> QED BY <2>1, FS_EmptySet DEF Init, CountsInv
<1> QED BY <1>1, <1>3, <1>4, <1>5 DEF IInv

\* A command that the step does not touch.
LEMMA OtherCommand ==
  ASSUME Owned, NEW d \in Commands,
         pc'[d] = pc[d], proc'[d] = proc[d], result'[d] = result[d],
         answer'[d] = answer[d], mode'[d] = mode[d], d \in tasks' <=> d \in tasks
  PROVE  CommandInv(d)'
BY DEF Owned, CommandInv, Living, InStart, Registered

LEMMA SameCommands ==
  ASSUME Owned, UNCHANGED <<pc, proc, result, answer, mode, tasks>>
  PROVE  Owned'
BY OtherCommand DEF Owned

\* A step of commands while the shutdown stands still.
LEMMA SameShutdown ==
  ASSUME ShutdownInv, UNCHANGED <<shutdown, awaited, bound>>,
         \A c \in Commands : /\ InStart(c)' => InStart(c) \/ (bound /\ ~ShuttingDown)
                             /\ Registered(c)' => Registered(c) \/ (InStart(c) /\ ~ShuttingDown)
  PROVE  ShutdownInv'
BY DEF ShutdownInv, ShuttingDown

LEMMA SameStarts ==
  ASSUME CountsInv, UNCHANGED counts,
         \A c \in Commands : /\ InStart(c)' <=> InStart(c)
                             /\ InStart(c) => mode'[c] = mode[c]
  PROVE  CountsInv'
<1>1. Starts' = Starts /\ BackgroundStarts' = BackgroundStarts
  BY DEF Starts, BackgroundStarts
<1> QED BY <1>1 DEF CountsInv, counts

\* A step that leaves the commands and the calls under way alone.
LEMMA SameCounts ==
  ASSUME CountsInv, UNCHANGED counts, UNCHANGED <<pc, mode>>
  PROVE  CountsInv'
BY SameStarts DEF InStart

-----------------------------------------------------------------------------
(* The counters of the calls under way.                                    *)

LEMMA StartsFinite ==
  /\ IsFiniteSet(Starts) /\ Cardinality(Starts) \in Nat
  /\ IsFiniteSet(BackgroundStarts) /\ Cardinality(BackgroundStarts) \in Nat
<1>1. Starts \subseteq Commands /\ BackgroundStarts \subseteq Commands /\ IsFiniteSet(Commands)
  BY CommandAssumption DEF Starts, BackgroundStarts
<1> QED BY <1>1, FS_Subset, FS_CardinalityType

LEMMA NoStarts ==
  ASSUME CountsInv, starting = 0
  PROVE  \A c \in Commands : ~InStart(c)
<1>1. Starts = {}
  BY StartsFinite, FS_EmptySet DEF CountsInv
<1> QED BY <1>1 DEF Starts

\* A call comes: it is counted once, and once more if it goes to the background.
LEMMA CallComes ==
  ASSUME CountsInv, NEW c \in Commands, CountStart(c), ~InStart(c), InStart(c)',
         \A d \in Commands : /\ d # c => (InStart(d)' <=> InStart(d))
                             /\ mode'[d] = mode[d]
  PROVE  CountsInv'
<1>1. /\ Starts' = Starts \cup {c} /\ c \notin Starts
      /\ BackgroundStarts' = IF mode[c] = "background" THEN BackgroundStarts \cup {c}
                             ELSE BackgroundStarts
      /\ c \notin BackgroundStarts
  BY DEF Starts, BackgroundStarts
<1>2. starting' = Cardinality(Starts')
  BY <1>1, StartsFinite, FS_AddElement DEF CountsInv, CountStart
<1>3. startingBackground' = Cardinality(BackgroundStarts')
  <2>1. CASE mode[c] = "background"
    BY <2>1, <1>1, StartsFinite, FS_AddElement DEF CountsInv, CountStart
  <2>2. CASE mode[c] # "background"
    BY <2>2, <1>1, StartsFinite DEF CountsInv, CountStart
  <2> QED BY <2>1, <2>2
<1> QED BY <1>2, <1>3 DEF CountsInv

\* A call goes: what it counted is given back, and the clamp is never needed.
LEMMA CallGoes ==
  ASSUME CountsInv, NEW c \in Commands, UncountStart(c), InStart(c), ~InStart(c)',
         \A d \in Commands : /\ d # c => (InStart(d)' <=> InStart(d))
                             /\ mode'[d] = mode[d]
  PROVE  CountsInv'
<1>1. /\ Starts' = Starts \ {c} /\ c \in Starts
      /\ BackgroundStarts' = BackgroundStarts \ {c}
      /\ c \in BackgroundStarts <=> mode[c] = "background"
  BY DEF Starts, BackgroundStarts
<1>2. starting' = Cardinality(Starts')
  BY <1>1, StartsFinite, FS_RemoveElement DEF CountsInv, UncountStart
<1>3. startingBackground' = Cardinality(BackgroundStarts')
  <2>1. CASE mode[c] = "background"
    <3>1. BackgroundStarts # {} /\ c \in BackgroundStarts
      BY <2>1, <1>1
    <3>2. startingBackground > 0 /\ startingBackground \in Nat
      BY <3>1, StartsFinite, FS_EmptySet DEF CountsInv
    <3>3. Cardinality(BackgroundStarts \ {c}) = startingBackground - 1
      BY <3>1, StartsFinite, FS_RemoveElement DEF CountsInv
    <3> QED BY <2>1, <3>2, <3>3, <1>1 DEF UncountStart
  <2>2. CASE mode[c] # "background"
    <3>1. BackgroundStarts' = BackgroundStarts
      BY <2>2, <1>1
    <3> QED BY <2>2, <3>1 DEF CountsInv, UncountStart
  <2> QED BY <2>1, <2>2
<1> QED BY <1>2, <1>3 DEF CountsInv

\* Active and Registered are the same.
LEMMA ActiveIsRegistered ==
  ASSUME Owned, NEW c \in Commands
  PROVE  c \in Active <=> Registered(c)
BY DEF Owned, CommandInv, Active, Registered

-----------------------------------------------------------------------------
(* start and executeForeground.                                            *)

\* The call goes on, and no more than its own stage and process change.
LEMMA CallGoesOn ==
  ASSUME IInv, NEW c \in Commands, Prepared(c) \/ SpawnFails(c)
  PROVE  IInv'
<1>t. CommandTypes /\ ManagerTypes /\ Owned /\ ShutdownInv /\ CountsInv
  BY DEF IInv
<1>1. /\ UNCHANGED <<mode, stop, quiet, result, answer, aborted, tasks, told, counts, session>>
      /\ InStart(c)
      /\ \A d \in Commands \ {c} : pc'[d] = pc[d] /\ proc'[d] = proc[d]
      /\ pc'[c] \in {"spawning", "abandoning"}
      /\ CommandTypes'
  BY <1>t DEF Prepared, SpawnFails, InStart, CommandTypes
<1>2. ManagerTypes'
  BY <1>t, <1>1 DEF ManagerTypes, session
<1>3. \A d \in Commands : /\ InStart(d)' <=> InStart(d)
                          /\ Registered(d)' <=> Registered(d)
  BY <1>1 DEF InStart, Registered
<1>4. Owned'
  <2>1. CommandInv(c)'
    BY <1>t, <1>1 DEF Owned, CommandInv, InStart, Registered
  <2>2. \A d \in Commands \ {c} : CommandInv(d)'
    BY <1>t, <1>1, OtherCommand
  <2> QED BY <2>1, <2>2 DEF Owned
<1>5. ShutdownInv'
  BY <1>t, <1>1, <1>3, SameShutdown DEF session
<1>6. CountsInv'
  BY <1>t, <1>1, <1>3, SameStarts
<1> QED BY <1>1, <1>2, <1>4, <1>5, <1>6 DEF IInv

LEMMA CallReturns ==
  ASSUME IInv, NEW c \in Commands, PrepareFails(c) \/ Abandoned(c)
  PROVE  IInv'
<1>t. CommandTypes /\ ManagerTypes /\ Owned /\ ShutdownInv /\ CountsInv
  BY DEF IInv
<1>1. /\ UNCHANGED <<mode, stop, quiet, result, tasks, told, session>>
      /\ InStart(c) /\ UncountStart(c)
      /\ pc' = [pc EXCEPT ![c] = "over"] /\ answer' = [answer EXCEPT ![c] = "error"]
      /\ aborted' = aborted \ {c}
      /\ \A d \in Commands \ {c} : proc'[d] = proc[d]
      /\ proc' = proc \/ proc' = [proc EXCEPT ![c] = "none"]
  BY <1>t DEF PrepareFails, Abandoned, StartFails, InStart, CommandTypes
<1>p. proc'[c] = "none"
  BY <1>t DEF PrepareFails, Abandoned, CommandTypes, Owned, CommandInv, Living
<1>2. CommandTypes'
  BY <1>t, <1>1 DEF CommandTypes
<1>3. ManagerTypes'
  BY <1>t, <1>1 DEF ManagerTypes, session
<1>4. /\ ~InStart(c)' /\ ~Registered(c)' /\ pc'[c] = "over" /\ answer'[c] = "error"
      /\ \A d \in Commands \ {c} : pc'[d] = pc[d] /\ answer'[d] = answer[d]
  BY <1>t, <1>1 DEF InStart, Registered, CommandTypes
<1>5. Owned'
  <2>1. CommandInv(c)'
    BY <1>t, <1>1, <1>p, <1>4 DEF Owned, CommandInv, Living, InStart, Registered
  <2>2. \A d \in Commands \ {c} : CommandInv(d)'
    BY <1>t, <1>1, <1>4, OtherCommand
  <2> QED BY <2>1, <2>2 DEF Owned
<1>6. ShutdownInv'
  BY <1>t, <1>1, <1>4, SameShutdown DEF session, InStart, Registered
<1>7. CountsInv'
  <2>1. \A d \in Commands : /\ d # c => (InStart(d)' <=> InStart(d))
                            /\ mode'[d] = mode[d]
    BY <1>1, <1>4 DEF InStart
  <2> QED BY <2>1, <1>t, <1>1, <1>4, CallGoes
<1> QED BY <1>2, <1>3, <1>5, <1>6, <1>7 DEF IInv

LEMMA CallSpawned ==
  ASSUME IInv, NEW c \in Commands, Spawned(c)
  PROVE  IInv'
<1>t. CommandTypes /\ ManagerTypes /\ Owned /\ ShutdownInv /\ CountsInv
  BY DEF IInv
<1>1. /\ UNCHANGED <<mode, proc, stop, quiet, result, aborted, told, session>>
      /\ InStart(c) /\ pc[c] = "spawning"
      /\ \A d \in Commands \ {c} : /\ pc'[d] = pc[d] /\ answer'[d] = answer[d]
                                   /\ d \in tasks' <=> d \in tasks
      /\ CommandTypes'
  BY <1>t DEF Spawned, InStart, CommandTypes
<1>2. ManagerTypes'
  BY <1>t, <1>1 DEF ManagerTypes, session
<1>3. \A d \in Commands \ {c} : CommandInv(d)'
  BY <1>t, <1>1, OtherCommand
<1>4. CASE ShuttingDown \/ c \in aborted
  <2>1. UNCHANGED <<answer, tasks, counts>> /\ pc'[c] = "abandoning"
    BY <1>4, <1>t DEF Spawned, CommandTypes
  <2>2. \A d \in Commands : /\ InStart(d)' <=> InStart(d)
                            /\ Registered(d)' <=> Registered(d)
    BY <2>1, <1>1 DEF InStart, Registered
  <2>3. CommandInv(c)'
    BY <2>1, <1>t, <1>1 DEF Owned, CommandInv, InStart, Registered
  <2>4. Owned'
    BY <2>3, <1>3 DEF Owned
  <2>5. ShutdownInv'
    BY <2>2, <1>t, <1>1, SameShutdown DEF session
  <2>6. CountsInv'
    BY <2>1, <2>2, <1>t, <1>1, SameStarts
  <2> QED BY <2>4, <2>5, <2>6, <1>1, <1>2 DEF IInv
<1>5. CASE ~(ShuttingDown \/ c \in aborted)
  <2>1. /\ pc'[c] = "running" /\ tasks' = tasks \cup {c} /\ UncountStart(c)
        /\ answer'[c] = IF mode[c] = "background" THEN "background" ELSE answer[c]
    BY <1>5, <1>t DEF Spawned, CommandTypes
  <2>2. ~InStart(c)' /\ Registered(c)'
    BY <2>1 DEF InStart, Registered
  <2>3. CommandInv(c)'
    BY <2>1, <2>2, <1>t, <1>1 DEF Owned, CommandInv, InStart, Registered
  <2>4. Owned'
    BY <2>3, <1>3 DEF Owned
  <2>5. ShutdownInv'
    BY <2>2, <1>5, <1>t, <1>1, SameShutdown DEF session, InStart, Registered
  <2>6. CountsInv'
    <3>1. \A d \in Commands : /\ d # c => (InStart(d)' <=> InStart(d))
                              /\ mode'[d] = mode[d]
      BY <1>1 DEF InStart
    <3> QED BY <3>1, <2>1, <2>2, <1>t, <1>1, CallGoes
  <2> QED BY <2>4, <2>5, <2>6, <1>1, <1>2 DEF IInv
<1> QED BY <1>4, <1>5

LEMMA CallBegins ==
  ASSUME IInv, NEW c \in Commands, Begin(c)
  PROVE  IInv'
<1>t. CommandTypes /\ ManagerTypes /\ Owned /\ ShutdownInv /\ CountsInv
  BY DEF IInv
<1>1. /\ UNCHANGED <<mode, proc, stop, quiet, result, aborted, tasks, told, session>>
      /\ pc[c] = "new" /\ ~InStart(c)
      /\ \A d \in Commands \ {c} : pc'[d] = pc[d] /\ answer'[d] = answer[d]
      /\ CommandTypes'
  BY <1>t DEF Begin, InStart, CommandTypes
<1>2. ManagerTypes'
  BY <1>t, <1>1 DEF ManagerTypes, session
<1>3. \A d \in Commands \ {c} : CommandInv(d)'
  BY <1>t, <1>1, OtherCommand
<1>4. CASE MayBegin(c)
  <2>1. pc'[c] = "preparing" /\ answer' = answer /\ CountStart(c) /\ bound /\ ~ShuttingDown
    BY <1>4, <1>t DEF Begin, MayBegin, CommandTypes
  <2>2. InStart(c)' /\ ~Registered(c)'
    BY <2>1 DEF InStart, Registered
  <2>3. CommandInv(c)'
    BY <2>1, <1>t, <1>1 DEF Owned, CommandInv, Living, InStart, Registered
  <2>4. Owned'
    BY <2>3, <1>3 DEF Owned
  <2>5. ShutdownInv'
    BY <2>1, <2>2, <1>t, <1>1, SameShutdown DEF session, InStart, Registered
  <2>6. CountsInv'
    <3>1. \A d \in Commands : /\ d # c => (InStart(d)' <=> InStart(d))
                              /\ mode'[d] = mode[d]
      BY <1>1 DEF InStart
    <3> QED BY <3>1, <2>1, <2>2, <1>t, <1>1, CallComes
  <2> QED BY <2>4, <2>5, <2>6, <1>1, <1>2 DEF IInv
<1>5. CASE ~MayBegin(c)
  <2>1. pc'[c] = "over" /\ answer'[c] = "error" /\ UNCHANGED counts
    BY <1>5, <1>t DEF Begin, CommandTypes
  <2>2. \A d \in Commands : /\ InStart(d)' <=> InStart(d)
                            /\ Registered(d)' <=> Registered(d)
    BY <2>1, <1>1 DEF InStart, Registered
  <2>3. CommandInv(c)'
    BY <2>1, <1>t, <1>1 DEF Owned, CommandInv, Living, InStart, Registered
  <2>4. Owned'
    BY <2>3, <1>3 DEF Owned
  <2>5. ShutdownInv'
    BY <2>2, <1>t, <1>1, SameShutdown DEF session
  <2>6. CountsInv'
    BY <2>1, <2>2, <1>t, <1>1, SameStarts
  <2> QED BY <2>4, <2>5, <2>6, <1>1, <1>2 DEF IInv
<1> QED BY <1>4, <1>5

-----------------------------------------------------------------------------
(* What ends a command, and the hand-over.                                 *)

LEMMA StopTypes ==
  ASSUME CommandTypes, NEW c \in Commands, NEW state \in {"cancelled", "timed_out", "failed"},
         RequestTermination(c, state)
  PROVE  /\ stop' \in [Commands -> {"none", "cancelled", "timed_out", "failed"}]
         /\ quiet' \subseteq Commands
BY DEF CommandTypes, RequestTermination

LEMMA StopKeeps ==
  ASSUME IInv, NEW c \in Commands, Cancel(c) \/ Timeout(c) \/ Fault(c) \/ Abort(c)
  PROVE  IInv'
<1>t. CommandTypes /\ ManagerTypes /\ Owned /\ ShutdownInv /\ CountsInv
  BY DEF IInv
<1>1. UNCHANGED <<mode, pc, proc, result, answer, tasks, told, counts, session>>
  BY DEF Cancel, Timeout, Fault, Abort, StopsOnly
<1>2. /\ stop' \in [Commands -> {"none", "cancelled", "timed_out", "failed"}]
      /\ quiet' \subseteq Commands
  <2>1. CASE UNCHANGED <<stop, quiet>>
    BY <2>1, <1>t DEF CommandTypes
  <2>2. CASE \E state \in {"cancelled", "timed_out", "failed"} : RequestTermination(c, state)
    BY <2>2, <1>t, StopTypes
  <2> QED BY <2>1, <2>2 DEF Cancel, Timeout, Fault, Abort
<1>3. aborted' \subseteq Commands
  BY <1>t DEF Cancel, Timeout, Fault, Abort, CommandTypes
<1>4. CommandTypes' /\ ManagerTypes'
  <2>1. CommandTypes'
    BY <1>t, <1>1, <1>2, <1>3 DEF CommandTypes
  <2>2. ManagerTypes'
    BY <1>t, <1>1 DEF ManagerTypes, session
  <2> QED BY <2>1, <2>2
<1>5. Owned' /\ CountsInv'
  BY <1>t, <1>1, SameCommands, SameCounts
<1>6. ShutdownInv'
  BY <1>t, <1>1, SameShutdown DEF session, InStart, Registered
<1> QED BY <1>4, <1>5, <1>6 DEF IInv

LEMMA ProcessEnds ==
  ASSUME IInv, NEW c \in Commands, ShellExits(c) \/ GroupExits(c)
  PROVE  IInv'
<1>t. CommandTypes /\ ManagerTypes /\ Owned /\ ShutdownInv /\ CountsInv
  BY DEF IInv
<1>1. /\ UNCHANGED <<mode, pc, stop, quiet, result, answer, aborted, tasks, told, counts, session>>
      /\ \A d \in Commands : Living(d)' => Living(d)
      /\ CommandTypes'
  BY <1>t DEF ShellExits, GroupExits, CommandTypes, Living
<1>2. ManagerTypes'
  BY <1>t, <1>1 DEF ManagerTypes, session
<1>3. Owned'
  BY <1>t, <1>1 DEF Owned, CommandInv, InStart, Registered
<1>4. CountsInv'
  BY <1>t, <1>1, SameCounts
<1>5. ShutdownInv'
  BY <1>t, <1>1, SameShutdown DEF session, InStart, Registered
<1> QED BY <1>1, <1>2, <1>3, <1>4, <1>5 DEF IInv

LEMMA HandOverKeeps ==
  ASSUME IInv, NEW c \in Commands, HandOver(c)
  PROVE  IInv'
<1>t. CommandTypes /\ ManagerTypes /\ Owned /\ ShutdownInv /\ CountsInv
  BY DEF IInv
<1>1. /\ UNCHANGED <<pc, proc, stop, quiet, result, aborted, tasks, told, counts, session>>
      /\ pc[c] = "running" /\ mode'[c] = "background" /\ answer'[c] = "background"
      /\ \A d \in Commands \ {c} : mode'[d] = mode[d] /\ answer'[d] = answer[d]
      /\ CommandTypes'
  BY <1>t DEF HandOver, MayHandOver, CommandTypes
<1>2. ManagerTypes'
  BY <1>t, <1>1 DEF ManagerTypes, session
<1>3. Owned'
  <2>1. CommandInv(c)'
    BY <1>t, <1>1 DEF Owned, CommandInv, Living, InStart, Registered
  <2>2. \A d \in Commands \ {c} : CommandInv(d)'
    BY <1>t, <1>1, OtherCommand
  <2> QED BY <2>1, <2>2 DEF Owned
<1>4. CountsInv'
  <2>1. \A d \in Commands : /\ InStart(d)' <=> InStart(d)
                            /\ InStart(d) => mode'[d] = mode[d]
    BY <1>1 DEF InStart
  <2> QED BY <2>1, <1>t, <1>1, SameStarts
<1>5. ShutdownInv'
  BY <1>t, <1>1, SameShutdown DEF session, InStart, Registered
<1> QED BY <1>1, <1>2, <1>3, <1>4, <1>5 DEF IInv

-----------------------------------------------------------------------------
(* finalize.                                                               *)

LEMMA OutcomesKnown ==
  ASSUME CommandTypes, NEW c \in Commands
  PROVE  Outcomes(c) \subseteq {"exited", "cancelled", "timed_out", "failed"}
<1>1. stop[c] \in {"none", "cancelled", "timed_out", "failed"}
  BY DEF CommandTypes
<1> QED BY <1>1 DEF Outcomes

LEMMA DeliverTypes ==
  ASSUME CommandTypes, NEW done, NEW registered, Deliver(done, registered)
  PROVE  told' \in [Commands -> Nat]
BY DEF CommandTypes, Deliver

LEMMA CloseKeeps ==
  ASSUME IInv, NEW c \in Commands, Close(c)
  PROVE  IInv'
<1>t. CommandTypes /\ ManagerTypes /\ Owned /\ ShutdownInv /\ CountsInv
  BY DEF IInv
<1>1. /\ UNCHANGED <<mode, proc, stop, quiet, result, answer, aborted, tasks, told, counts, session>>
      /\ pc[c] = "running" /\ pc'[c] = "finalizing"
      /\ \A d \in Commands \ {c} : pc'[d] = pc[d]
      /\ CommandTypes'
  BY <1>t DEF Close, CommandTypes
<1>2. ManagerTypes'
  BY <1>t, <1>1 DEF ManagerTypes, session
<1>3. \A d \in Commands : /\ InStart(d)' <=> InStart(d)
                          /\ Registered(d)' <=> Registered(d)
  BY <1>1 DEF InStart, Registered
<1>4. Owned'
  BY <1>t, <1>1, <1>3 DEF Owned, CommandInv, Living, Registered
<1>5. CountsInv'
  BY <1>t, <1>1, <1>3, SameStarts
<1>6. ShutdownInv'
  BY <1>t, <1>1, <1>3, SameShutdown DEF session
<1> QED BY <1>1, <1>2, <1>4, <1>5, <1>6 DEF IInv

LEMMA FinishKeeps ==
  ASSUME IInv, NEW c \in Commands, Finish(c)
  PROVE  IInv'
<1>t. CommandTypes /\ ManagerTypes /\ Owned /\ ShutdownInv /\ CountsInv
  BY DEF IInv
<1>1. PICK r \in Outcomes(c) : result' = [result EXCEPT ![c] = r]
  BY DEF Finish
<1>2. r \in {"exited", "cancelled", "timed_out", "failed"}
  BY <1>1, <1>t, OutcomesKnown
<1>3. /\ UNCHANGED <<mode, quiet, answer, aborted, counts, session>>
      /\ pc[c] = "finalizing" /\ proc' = [proc EXCEPT ![c] = "none"]
      /\ stop' = [stop EXCEPT ![c] = "none"]
      /\ \/ /\ mode[c] = "background" /\ pc' = [pc EXCEPT ![c] = "over"] /\ tasks' = tasks
         \/ /\ mode[c] = "foreground" /\ pc' = [pc EXCEPT ![c] = "removing"]
            /\ tasks' = tasks \ {c}
  BY <1>t DEF Finish, CommandTypes
<1>4. told' \in [Commands -> Nat]
  BY <1>t, DeliverTypes DEF Finish, CommandTypes
<1>5. CommandTypes'
  BY <1>t, <1>1, <1>2, <1>3, <1>4 DEF CommandTypes
<1>6. ManagerTypes'
  BY <1>t, <1>3 DEF ManagerTypes, session
<1>7. Owned'
  <2>1. CommandInv(c)'
    BY <1>t, <1>1, <1>2, <1>3 DEF Owned, CommandInv, CommandTypes, Living, InStart, Registered
  <2>2. ASSUME NEW d \in Commands \ {c} PROVE CommandInv(d)'
    <3>1. /\ pc'[d] = pc[d] /\ proc'[d] = proc[d] /\ result'[d] = result[d]
          /\ answer'[d] = answer[d] /\ mode'[d] = mode[d] /\ (d \in tasks' <=> d \in tasks)
      BY <1>t, <1>1, <1>3 DEF CommandTypes
    <3> QED BY <3>1, <1>t, OtherCommand
  <2> QED BY <2>1, <2>2 DEF Owned
<1>8. \A d \in Commands : /\ InStart(d)' <=> InStart(d)
                          /\ Registered(d)' => Registered(d)
  BY <1>t, <1>3 DEF CommandTypes, InStart, Registered
<1>9. CountsInv'
  BY <1>t, <1>3, <1>8, SameStarts
<1>10. ShutdownInv'
  BY <1>t, <1>3, <1>8, SameShutdown DEF session
<1> QED BY <1>5, <1>6, <1>7, <1>9, <1>10 DEF IInv

LEMMA RemovalKeeps ==
  ASSUME IInv, NEW c \in Commands, FileRemoved(c)
  PROVE  IInv'
<1>t. CommandTypes /\ ManagerTypes /\ Owned /\ ShutdownInv /\ CountsInv
  BY DEF IInv
<1>1. /\ UNCHANGED <<mode, proc, stop, aborted, tasks, told, counts, session>>
      /\ pc[c] = "removing" /\ pc' = [pc EXCEPT ![c] = "over"]
      /\ answer' = [answer EXCEPT ![c] = "ended"]
      /\ result' = [d \in Commands |-> IF d \in {c} THEN "none" ELSE result[d]]
      /\ quiet' = quiet \ {c}
  BY DEF FileRemoved, Forget
<1>2. CommandTypes'
  BY <1>t, <1>1 DEF CommandTypes
<1>3. ManagerTypes'
  BY <1>t, <1>1 DEF ManagerTypes, session
<1>4. Owned'
  <2>1. CommandInv(c)'
    BY <1>t, <1>1 DEF Owned, CommandInv, CommandTypes, Living, InStart, Registered
  <2>2. ASSUME NEW d \in Commands \ {c} PROVE CommandInv(d)'
    <3>1. /\ pc'[d] = pc[d] /\ result'[d] = result[d] /\ answer'[d] = answer[d]
      BY <1>t, <1>1 DEF CommandTypes
    <3> QED BY <3>1, <1>1, <1>t, OtherCommand
  <2> QED BY <2>1, <2>2 DEF Owned
<1>5. \A d \in Commands : /\ InStart(d)' <=> InStart(d)
                          /\ Registered(d)' => Registered(d)
  BY <1>t, <1>1 DEF CommandTypes, InStart, Registered
<1>6. CountsInv'
  BY <1>t, <1>1, <1>5, SameStarts
<1>7. ShutdownInv'
  BY <1>t, <1>1, <1>5, SameShutdown DEF session
<1> QED BY <1>2, <1>3, <1>4, <1>6, <1>7 DEF IInv

-----------------------------------------------------------------------------
(* performShutdown and the session events.                                 *)

\* No call is under way when everything is stopped, and what is active is
\* waited for.
LEMMA StopAllKeeps ==
  ASSUME IInv, StopAll, starting = 0, UNCHANGED <<pc, bound>>
  PROVE  /\ ShutdownInv'
         /\ stop' \in [Commands -> {"none", "cancelled", "timed_out", "failed"}]
         /\ quiet' \subseteq Commands /\ awaited' \subseteq Commands
         /\ shutdown' \in {"no", "waiting", "stopping", "cleaning"}
<1>1. \A c \in Commands : ~InStart(c)
  BY NoStarts DEF IInv
<1>2. \A c \in Commands : Registered(c) => c \in Active
  BY ActiveIsRegistered DEF IInv
<1>3. ShutdownInv'
  BY <1>1, <1>2 DEF StopAll, ShutdownInv, ShuttingDown, InStart, Registered
<1>4. Active \subseteq Commands
  BY DEF Active, IInv, CommandTypes
<1>5. stop' \in [Commands -> {"none", "cancelled", "timed_out", "failed"}]
  BY DEF StopAll, IInv, CommandTypes
<1> QED BY <1>3, <1>4, <1>5 DEF StopAll, IInv, CommandTypes

LEMMA BeginShutdownKeeps ==
  ASSUME IInv, BeginShutdown, UNCHANGED <<pc, bound>>
  PROVE  /\ ShutdownInv'
         /\ stop' \in [Commands -> {"none", "cancelled", "timed_out", "failed"}]
         /\ quiet' \subseteq Commands /\ awaited' \subseteq Commands
         /\ shutdown' \in {"no", "waiting", "stopping", "cleaning"}
<1>1. CASE UNCHANGED <<shutdown, awaited, stop, quiet>>
  BY <1>1, SameShutdown DEF IInv, CommandTypes, ManagerTypes, InStart, Registered
<1>2. CASE StopAll /\ StartsOver
  BY <1>2, StopAllKeeps DEF StartsOver
<1>3. CASE ~ShuttingDown /\ shutdown' = "waiting" /\ UNCHANGED <<awaited, stop, quiet>>
  <2>1. ShutdownInv'
    BY <1>3 DEF IInv, ShutdownInv, ShuttingDown, InStart, Registered
  <2> QED BY <2>1, <1>3 DEF IInv, CommandTypes, ManagerTypes
<1> QED BY <1>1, <1>2, <1>3 DEF BeginShutdown

LEMMA ShutdownBegins ==
  ASSUME IInv, \/ ReloadTimeout \/ SessionStartsWithout \/ \E reload \in BOOLEAN : SessionEnds(reload)
  PROVE  IInv'
<1>t. CommandTypes /\ ManagerTypes /\ Owned /\ ShutdownInv /\ CountsInv
  BY DEF IInv
<1>1. UNCHANGED <<mode, pc, proc, result, answer, aborted, tasks, told, counts, bound>>
  BY DEF ReloadTimeout, SessionStartsWithout, SessionEnds
<1>2. BeginShutdown \/ UNCHANGED <<shutdown, awaited, stop, quiet>>
  BY DEF ReloadTimeout, SessionStartsWithout, SessionEnds
<1>3. /\ ShutdownInv'
      /\ stop' \in [Commands -> {"none", "cancelled", "timed_out", "failed"}]
      /\ quiet' \subseteq Commands /\ awaited' \subseteq Commands
      /\ shutdown' \in {"no", "waiting", "stopping", "cleaning"}
  <2>1. CASE BeginShutdown
    BY <2>1, <1>1, BeginShutdownKeeps
  <2>2. CASE UNCHANGED <<shutdown, awaited, stop, quiet>>
    BY <2>2, <1>1, <1>t, SameShutdown DEF CommandTypes, ManagerTypes, InStart, Registered
  <2> QED BY <2>1, <2>2, <1>2
<1>4. CommandTypes'
  BY <1>t, <1>1, <1>3 DEF CommandTypes
<1>5. /\ timer' \in BOOLEAN /\ directory' \in BOOLEAN
      /\ enabled' \in BOOLEAN /\ listening' \in BOOLEAN
  BY <1>t DEF ReloadTimeout, SessionStartsWithout, SessionEnds, BeginShutdown, ManagerTypes
<1>6. host' \in {"away", "binding", "disabling", "up", "leaving"}
  BY <1>t DEF ReloadTimeout, SessionStartsWithout, SessionEnds, ManagerTypes
<1>7. ManagerTypes'
  BY <1>t, <1>1, <1>3, <1>5, <1>6 DEF ManagerTypes
<1>8. Owned' /\ CountsInv'
  BY <1>t, <1>1, SameCommands, SameCounts
<1> QED BY <1>3, <1>4, <1>7, <1>8 DEF IInv

LEMMA ShutdownGoesOn ==
  ASSUME IInv, ShuttingOn
  PROVE  IInv'
<1>t. CommandTypes /\ ManagerTypes /\ Owned /\ ShutdownInv /\ CountsInv
  BY DEF IInv
<1>1. UNCHANGED <<mode, pc, proc, answer, aborted, told, counts, timer, host, enabled, listening>>
  BY DEF ShuttingOn, ShutdownStops, ShutdownCleans, ShutdownEnds, command
<1>c. CountsInv'
  BY <1>t, <1>1, SameCounts
<1>2. CASE ShutdownStops
  <2>1. UNCHANGED <<result, tasks, bound, directory>>
    BY <1>2 DEF ShutdownStops
  <2>2. /\ ShutdownInv'
        /\ stop' \in [Commands -> {"none", "cancelled", "timed_out", "failed"}]
        /\ quiet' \subseteq Commands /\ awaited' \subseteq Commands
        /\ shutdown' \in {"no", "waiting", "stopping", "cleaning"}
    BY <1>2, <1>1, <2>1, StopAllKeeps DEF ShutdownStops, StartsOver
  <2>3. CommandTypes'
    BY <1>t, <1>1, <2>1, <2>2 DEF CommandTypes
  <2>4. ManagerTypes'
    BY <1>t, <1>1, <2>1, <2>2 DEF ManagerTypes
  <2>5. Owned'
    BY <1>t, <1>1, <2>1, SameCommands
  <2> QED BY <1>c, <2>2, <2>3, <2>4, <2>5 DEF IInv
<1>3. CASE ShutdownCleans
  <2>1. /\ UNCHANGED <<stop, quiet, result, tasks, bound>>
        /\ shutdown = "stopping" /\ shutdown' = "cleaning" /\ directory' = FALSE /\ awaited' = {}
        /\ \A c \in awaited : pc[c] = "over"
    BY <1>3 DEF ShutdownCleans, command
  <2>2. \A c \in Commands : ~InStart(c) /\ ~Registered(c)
    BY <1>t, <2>1 DEF ShutdownInv, Registered
  <2>3. ShutdownInv'
    BY <1>1, <2>2 DEF ShutdownInv, InStart, Registered
  <2>4. CommandTypes'
    BY <1>t, <1>1, <2>1 DEF CommandTypes
  <2>5. ManagerTypes'
    BY <1>t, <1>1, <2>1 DEF ManagerTypes
  <2>6. Owned'
    BY <1>t, <1>1, <2>1, SameCommands
  <2> QED BY <1>c, <2>3, <2>4, <2>5, <2>6 DEF IInv
<1>4. CASE ShutdownEnds
  <2>1. /\ UNCHANGED <<stop, directory, awaited>>
        /\ shutdown = "cleaning" /\ shutdown' = "no" /\ tasks' = {} /\ bound' = FALSE
        /\ result' = [c \in Commands |-> IF c \in tasks THEN "none" ELSE result[c]]
        /\ quiet' = quiet \ tasks
    BY <1>4 DEF ShutdownEnds, Forget
  <2>2. \A c \in Commands : ~InStart(c) /\ ~Registered(c)
    BY <1>t, <2>1 DEF ShutdownInv
  <2>3. ShutdownInv'
    BY <1>1, <2>2 DEF ShutdownInv, InStart, Registered
  <2>4. CommandTypes'
    BY <1>t, <1>1, <2>1 DEF CommandTypes
  <2>5. ManagerTypes'
    BY <1>t, <1>1, <2>1 DEF ManagerTypes
  <2>6. Owned'
    BY <1>t, <1>1, <2>1, <2>2 DEF Owned, CommandInv, Living, InStart, Registered
  <2> QED BY <1>c, <2>3, <2>4, <2>5, <2>6 DEF IInv
<1> QED BY <1>2, <1>3, <1>4 DEF ShuttingOn

\* The session is bound, or the handler of one that ended goes on.
LEMMA SessionKeeps ==
  ASSUME IInv, ShutdownAwaited \/ SessionStarts \/ Bound
  PROVE  IInv'
<1>t. CommandTypes /\ ManagerTypes /\ Owned /\ ShutdownInv /\ CountsInv
  BY DEF IInv
<1>1. /\ UNCHANGED <<mode, pc, proc, stop, quiet, result, answer, aborted, tasks>>
      /\ UNCHANGED counts /\ UNCHANGED <<shutdown, awaited>>
      /\ bound' = bound \/ bound' = TRUE
  BY DEF ShutdownAwaited, SessionStarts, Bound, Rebind, BindAnew, command
<1>2. told' \in [Commands -> Nat]
  BY <1>t, DeliverTypes DEF ShutdownAwaited, SessionStarts, Bound, Rebind, BindAnew, CommandTypes
<1>3. CommandTypes'
  BY <1>t, <1>1, <1>2 DEF CommandTypes
<1>4. /\ timer' \in BOOLEAN /\ directory' \in BOOLEAN
      /\ enabled' \in BOOLEAN /\ listening' \in BOOLEAN
  BY <1>t DEF ShutdownAwaited, SessionStarts, Bound, Rebind, BindAnew, ManagerTypes
<1>5. host' \in {"away", "binding", "disabling", "up", "leaving"}
  BY <1>t DEF ShutdownAwaited, SessionStarts, Bound, Rebind, BindAnew, ManagerTypes
<1>6. ManagerTypes'
  BY <1>t, <1>1, <1>4, <1>5 DEF ManagerTypes
<1>7. Owned' /\ CountsInv'
  BY <1>t, <1>1, SameCommands, SameCounts
<1>8. ShutdownInv'
  BY <1>t, <1>1 DEF ShutdownInv, ShuttingDown, InStart, Registered
<1> QED BY <1>3, <1>6, <1>7, <1>8 DEF IInv

LEMMA NextIInv == IInv /\ [Next]_vars => IInv'
<1> SUFFICES ASSUME IInv, [Next]_vars PROVE IInv'
  OBVIOUS
<1>1. CASE UNCHANGED vars
  <2>1. /\ UNCHANGED <<mode, pc, proc, stop, quiet, result, answer, aborted, tasks, told>>
        /\ UNCHANGED counts
        /\ UNCHANGED <<bound, directory, shutdown, awaited, timer, host, enabled, listening>>
    BY <1>1 DEF vars, command, session
  <2>2. CommandTypes' /\ ManagerTypes'
    BY <2>1 DEF IInv, CommandTypes, ManagerTypes
  <2>3. Owned' /\ CountsInv'
    BY <2>1, SameCommands, SameCounts DEF IInv
  <2>4. ShutdownInv'
    BY <2>1, SameShutdown DEF IInv, InStart, Registered
  <2> QED BY <2>2, <2>3, <2>4 DEF IInv
<1>2. ASSUME NEW c \in Commands,
             \/ Begin(c) \/ Starting(c) \/ Cancel(c) \/ Timeout(c) \/ Fault(c) \/ Abort(c)
             \/ ShellExits(c) \/ GroupExits(c) \/ HandOver(c) \/ Close(c) \/ Finalizing(c)
      PROVE  IInv'
  <2>1. CASE Begin(c) \/ Starting(c)
    BY <2>1, CallBegins, CallGoesOn, CallReturns, CallSpawned DEF Starting
  <2>2. CASE Cancel(c) \/ Timeout(c) \/ Fault(c) \/ Abort(c)
    BY <2>2, StopKeeps
  <2>3. CASE ShellExits(c) \/ GroupExits(c) \/ HandOver(c)
    BY <2>3, ProcessEnds, HandOverKeeps
  <2>4. CASE Close(c) \/ Finalizing(c)
    BY <2>4, CloseKeeps, FinishKeeps, RemovalKeeps DEF Finalizing
  <2> QED BY <1>2, <2>1, <2>2, <2>3, <2>4
<1>3. CASE ShuttingOn
  BY <1>3, ShutdownGoesOn
<1>4. CASE ReloadTimeout \/ SessionStartsWithout \/ \E reload \in BOOLEAN : SessionEnds(reload)
  BY <1>4, ShutdownBegins
<1>5. CASE ShutdownAwaited \/ SessionStarts \/ Bound
  BY <1>5, SessionKeeps
<1> QED BY <1>1, <1>2, <1>3, <1>4, <1>5 DEF Next

\* The invariant holds in every reachable state.
THEOREM CommandInvariance == Spec => []IInv
BY InitIInv, NextIInv, PTL DEF Spec

\* Types hold in every reachable state.
THEOREM CommandsTypeCorrect == Spec => []TypeOK
<1>1. IInv => TypeOK
  <2> SUFFICES ASSUME IInv PROVE TypeOK
    OBVIOUS
  <2>1. starting \in Nat /\ startingBackground \in Nat
    BY StartsFinite DEF IInv, CountsInv
  <2>2. {bound, directory, timer, enabled, listening} \subseteq BOOLEAN
    BY DEF IInv, ManagerTypes
  <2> QED BY <2>1, <2>2 DEF IInv, CommandTypes, ManagerTypes, TypeOK
<1> QED BY <1>1, CommandInvariance, PTL

\* Whatever runs belongs to a call under way or to a registered command that
\* has not ended, and nothing runs once the manager is shut down.
THEOREM NoProcessOrphaned == Spec => []NoOrphan
<1>1. IInv => NoOrphan
  <2> SUFFICES ASSUME IInv, NEW c \in Commands, Living(c)
               PROVE  (InStart(c) \/ c \in Active) /\ (bound \/ ShuttingDown)
    BY DEF NoOrphan
  <2>1. InStart(c) \/ Registered(c)
    BY DEF IInv, Owned, CommandInv
  <2>2. Registered(c) => c \in Active
    BY ActiveIsRegistered DEF IInv
  <2>3. bound \/ ShuttingDown
    BY <2>1 DEF IInv, ShutdownInv
  <2> QED BY <2>1, <2>2, <2>3
<1> QED BY <1>1, CommandInvariance, PTL

-----------------------------------------------------------------------------
(* The reason of an end.                                                   *)

ReasonKept(c) ==
  /\ stop[c] # "none" => stop'[c] = stop[c] \/ result'[c] = stop[c]
  /\ stop[c] = "none" /\ result[c] = "none" => result'[c] \in {"none", "exited", "failed"}

LEMMA SameResults ==
  ASSUME NEW c \in Commands, result' = result, stop[c] # "none" => stop'[c] = stop[c]
  PROVE  ReasonKept(c)
BY DEF ReasonKept

LEMMA ReasonOfNext ==
  ASSUME IInv, Next, NEW c \in Commands
  PROVE  ReasonKept(c)
<1>t. CommandTypes
  BY DEF IInv
<1>1. CASE UNCHANGED <<stop, result>>
  BY <1>1, SameResults
<1>2. ASSUME NEW d \in Commands, Cancel(d) \/ Timeout(d) \/ Fault(d) \/ Abort(d)
      PROVE  ReasonKept(c)
  <2>1. result' = result
    BY <1>2 DEF Cancel, Timeout, Fault, Abort, StopsOnly
  <2>2. UNCHANGED stop \/ \E state \in {"cancelled", "timed_out", "failed"} : RequestTermination(d, state)
    BY <1>2 DEF Cancel, Timeout, Fault, Abort
  <2>3. stop[c] # "none" => stop'[c] = stop[c]
    BY <2>2, <1>t DEF RequestTermination, MayStop, CommandTypes
  <2> QED BY <2>1, <2>3, SameResults
<1>3. ASSUME NEW d \in Commands, Finish(d)
      PROVE  ReasonKept(c)
  <2>1. PICK r \in Outcomes(d) : result' = [result EXCEPT ![d] = r]
    BY <1>3 DEF Finish
  <2>2. stop' = [stop EXCEPT ![d] = "none"]
    BY <1>3 DEF Finish
  <2>3. CASE c = d
    <3>1. result'[c] = r
      BY <2>1, <2>3, <1>t DEF CommandTypes
    <3>2. IF stop[c] # "none" THEN r = stop[c] ELSE r \in {"exited", "failed"}
      BY <2>3 DEF Outcomes
    <3> QED BY <3>1, <3>2 DEF ReasonKept
  <2>4. CASE c # d
    BY <2>1, <2>2, <2>4, <1>t DEF ReasonKept, CommandTypes
  <2> QED BY <2>3, <2>4
<1>4. ASSUME UNCHANGED stop, result'[c] = "none" \/ result'[c] = result[c]
      PROVE  ReasonKept(c)
  BY <1>4 DEF ReasonKept
<1>5. ASSUME NEW d \in Commands, FileRemoved(d)
      PROVE  ReasonKept(c)
  BY <1>5, <1>4 DEF FileRemoved, Forget
<1>6. CASE ShutdownEnds
  BY <1>6, <1>4 DEF ShutdownEnds, Forget
<1>7. CASE StopAll /\ UNCHANGED result
  <2>1. stop[c] # "none" => stop'[c] = stop[c]
    BY <1>7 DEF StopAll, MayStop
  <2> QED BY <2>1, <1>7, SameResults
<1>8. CASE BeginShutdown /\ UNCHANGED result
  BY <1>1, <1>7, <1>8 DEF BeginShutdown
<1>9. ASSUME NEW d \in Commands,
             Begin(d) \/ Starting(d) \/ ShellExits(d) \/ GroupExits(d) \/ HandOver(d) \/ Close(d)
      PROVE  UNCHANGED <<stop, result>>
  BY <1>9 DEF Begin, Starting, PrepareFails, Prepared, SpawnFails, Spawned, Abandoned, StartFails,
              ShellExits, GroupExits, HandOver, Close
<1>10. CASE ShutdownStops \/ ShutdownCleans \/ ReloadTimeout \/ (\E reload \in BOOLEAN : SessionEnds(reload))
  BY <1>10, <1>1, <1>7, <1>8
     DEF ShutdownStops, ShutdownCleans, ReloadTimeout, SessionEnds, command
<1>11. CASE ShutdownAwaited \/ SessionStarts \/ SessionStartsWithout \/ Bound
  BY <1>11, <1>1, <1>8 DEF ShutdownAwaited, SessionStarts, SessionStartsWithout, Bound, command
<1> QED
  BY <1>1, <1>2, <1>3, <1>5, <1>6, <1>9, <1>10, <1>11 DEF Next, Finalizing, ShuttingOn

\* Of several reasons the first one is reported, and a command that met none
\* of them is not reported as stopped.
THEOREM FirstReasonReported == Spec => FirstReasonWins
<1>1. IInv /\ [Next]_vars =>
        [\A c \in Commands :
           /\ stop[c] # "none" => stop'[c] = stop[c] \/ result'[c] = stop[c]
           /\ stop[c] = "none" /\ result[c] = "none" => result'[c] \in {"none", "exited", "failed"}]_vars
  BY ReasonOfNext DEF ReasonKept
<1> QED BY <1>1, CommandInvariance, PTL DEF Spec, FirstReasonWins

-----------------------------------------------------------------------------
(* CommandFates is implemented.                                            *)

fates == [c \in Commands |-> Fate(c)]

LEMMA FateValues ==
  ASSUME NEW c \in Commands
  PROVE  /\ fates[c] = Fate(c)
         /\ pc[c] = "new" => Fate(c) = "new"
         /\ InStart(c) => Fate(c) = "starting"
         /\ pc[c] \in {"running", "finalizing", "removing"} => Fate(c) = "running"
         /\ pc[c] = "over" /\ answer[c] = "error" => Fate(c) = "refused"
         /\ pc[c] = "over" /\ answer[c] # "error" => Fate(c) = "ended"
<1>1. fates[c] = Fate(c)
  BY DEF fates
<1>2. pc[c] = "new" => Fate(c) = "new"
  BY DEF Fate, InStart
<1>3. InStart(c) => Fate(c) = "starting"
  BY DEF Fate, InStart
<1>4. pc[c] \in {"running", "finalizing", "removing"} => Fate(c) = "running"
  BY DEF Fate, InStart
<1>5. pc[c] = "over" /\ answer[c] = "error" => Fate(c) = "refused"
  BY DEF Fate, InStart
<1>6. pc[c] = "over" /\ answer[c] # "error" => Fate(c) = "ended"
  BY DEF Fate, InStart
<1> QED BY <1>1, <1>2, <1>3, <1>4, <1>5, <1>6

LEMMA FateInit == Init => F!Init
<1> SUFFICES ASSUME Init PROVE F!Init
  OBVIOUS
<1>1. \A c \in Commands : Fate(c) = "new"
  BY FateValues DEF Init
<1> QED BY <1>1 DEF Init, F!Init

LEMMA FateValuesNext ==
  ASSUME NEW c \in Commands
  PROVE  /\ fates'[c] = Fate(c)'
         /\ InStart(c)' => Fate(c)' = "starting"
         /\ pc'[c] \in {"running", "finalizing", "removing"} => Fate(c)' = "running"
         /\ pc'[c] = "over" /\ answer'[c] = "error" => Fate(c)' = "refused"
         /\ pc'[c] = "over" /\ answer'[c] # "error" => Fate(c)' = "ended"
<1>1. fates'[c] = Fate(c)'
  BY DEF fates
<1>2. InStart(c)' => Fate(c)' = "starting"
  BY DEF Fate, InStart
<1>3. pc'[c] \in {"running", "finalizing", "removing"} => Fate(c)' = "running"
  BY DEF Fate, InStart
<1>4. pc'[c] = "over" /\ answer'[c] = "error" => Fate(c)' = "refused"
  BY DEF Fate, InStart
<1>5. pc'[c] = "over" /\ answer'[c] # "error" => Fate(c)' = "ended"
  BY DEF Fate, InStart
<1> QED BY <1>1, <1>2, <1>3, <1>4, <1>5

LEMMA SameFate ==
  ASSUME NEW d \in Commands, pc'[d] = pc[d], answer'[d] = answer[d]
  PROVE  Fate(d)' = Fate(d)
BY DEF Fate, InStart

\* The fate of one command changes.
LEMMA FateMoves ==
  ASSUME NEW c \in Commands, NEW new, Fate(c)' = new,
         \A d \in Commands \ {c} : pc'[d] = pc[d] /\ answer'[d] = answer[d]
  PROVE  fates' = [fates EXCEPT ![c] = new]
<1>1. \A d \in Commands \ {c} : Fate(d)' = Fate(d)
  BY SameFate
<1> QED BY <1>1 DEF fates

LEMMA FateStays ==
  ASSUME NEW c \in Commands, Fate(c)' = Fate(c),
         \A d \in Commands \ {c} : pc'[d] = pc[d] /\ answer'[d] = answer[d]
  PROVE  fates' = fates
<1>1. \A d \in Commands : Fate(d)' = Fate(d)
  BY SameFate
<1> QED BY <1>1 DEF fates

LEMMA NothingTold ==
  ASSUME fates' = fates, UNCHANGED <<mode, answer, told>>
  PROVE  UNCHANGED F!vars
BY DEF F!vars, fates

LEMMA SameFates ==
  ASSUME UNCHANGED <<pc, answer>>
  PROVE  fates' = fates
BY DEF fates, Fate, InStart

\* What the manager counts are the commands in the background.
LEMMA SlotsCounted ==
  ASSUME IInv
  PROVE  Cardinality(F!InBackground) = BackgroundActive
<1> DEFINE Shown == {c \in Active : mode[c] = "background"}
<1>1. F!InBackground = BackgroundStarts \cup Shown
  <2>1. F!InBackground = {c \in Commands : mode[c] = "background" /\ fates[c] \in {"starting", "running"}}
    BY DEF F!InBackground, fates
  <2>2. ASSUME NEW c \in Commands, mode[c] = "background"
        PROVE  fates[c] \in {"starting", "running"} <=> InStart(c) \/ Registered(c)
    <3>1. pc[c] # "removing"
      BY <2>2 DEF IInv, Owned, CommandInv
    <3>2. pc[c] \in {"new", "over"} \/ InStart(c) \/ Registered(c)
      BY <3>1 DEF IInv, CommandTypes, InStart, Registered
    <3> QED BY <3>2, FateValues DEF InStart, Registered
  <2>3. \A c \in Commands : c \in Active <=> Registered(c)
    BY ActiveIsRegistered DEF IInv
  <2>4. Active \subseteq Commands
    BY DEF Active, IInv, CommandTypes
  <2> QED BY <2>1, <2>2, <2>3, <2>4 DEF BackgroundStarts
<1>2. BackgroundStarts \cap Shown = {}
  <2>1. ASSUME NEW c \in BackgroundStarts PROVE c \notin Active
    <3>1. c \in Commands /\ InStart(c) /\ ~Registered(c)
      BY DEF BackgroundStarts, InStart, Registered
    <3> QED BY <3>1, ActiveIsRegistered DEF IInv
  <2> QED BY <2>1
<1>3. IsFiniteSet(Shown) /\ Cardinality(Shown) \in Nat
  <2>1. Shown \subseteq Commands /\ IsFiniteSet(Commands)
    BY CommandAssumption DEF Active, IInv, CommandTypes
  <2> HIDE DEF Shown
  <2> QED BY <2>1, FS_Subset, FS_CardinalityType
<1>4. BackgroundActive = Cardinality(BackgroundStarts) + Cardinality(Shown)
  BY DEF BackgroundActive, IInv, CountsInv
<1> HIDE DEF Shown
<1>5. Cardinality(BackgroundStarts \cup Shown) = Cardinality(BackgroundStarts) + Cardinality(Shown)
  BY <1>2, <1>3, StartsFinite, FS_Union, FS_EmptySet
<1> QED BY <1>1, <1>4, <1>5

\* Whoever is told of has ended in the background, and nobody is told of twice.
LEMMA DeliverTells ==
  ASSUME CommandTypes, NEW done, NEW registered, registered \subseteq Commands,
         Deliver(done, registered),
         \A c \in registered : mode[c] = "background" /\ done[c] # "none" => Fate(c)' = "ended"
  PROVE  F!Tell
<1>1. PICK sent \in SUBSET Pending(done, registered) :
        told' = [c \in Commands |-> told[c] + (IF c \in sent THEN 1 ELSE 0)]
  BY DEF Deliver
<1>2. \A c \in sent : c \in registered /\ mode[c] = "background" /\ done[c] # "none" /\ told[c] = 0
  BY <1>1 DEF Pending
<1>3. told' = [c \in Commands |-> IF c \in sent THEN 1 ELSE told[c]]
  <2>1. \A c \in Commands : told[c] + (IF c \in sent THEN 1 ELSE 0) = IF c \in sent THEN 1 ELSE told[c]
    BY <1>2 DEF CommandTypes
  <2> QED BY <1>1, <2>1
<1>4. \A c \in sent : fates'[c] = "ended"
  BY <1>2, FateValuesNext
<1>5. sent \in SUBSET {c \in Commands : mode[c] = "background" /\ fates'[c] = "ended" /\ told[c] = 0}
  BY <1>2, <1>4
<1> QED BY <1>3, <1>5 DEF F!Tell, fates

\* The instance has its own copy of Cardinality.
LEMMA CardinalityOfF ==
  ASSUME NEW S PROVE F!Cardinality(S) = Cardinality(S)
BY DEF F!Cardinality, Cardinality

LEMMA SlotLeft ==
  ASSUME IInv, BackgroundActive < MaxConcurrent
  PROVE  F!SlotFree
<1>1. F!Cardinality(F!InBackground) < MaxConcurrent
  BY SlotsCounted, CardinalityOfF
<1> QED BY <1>1 DEF F!SlotFree

LEMMA NobodyTold ==
  ASSUME CommandTypes, told' = told
  PROVE  F!Tell
<1> SUFFICES \E S \in SUBSET {c \in Commands : mode[c] = "background" /\ fates'[c] = "ended" /\ told[c] = 0} :
               told' = [c \in Commands |-> IF c \in S THEN 1 ELSE told[c]]
  BY DEF F!Tell, fates
<1>1. told' = [d \in Commands |-> IF d \in {} THEN 1 ELSE told[d]]
  BY DEF CommandTypes
<1>2. {} \in SUBSET {c \in Commands : mode[c] = "background" /\ fates'[c] = "ended" /\ told[c] = 0}
  OBVIOUS
<1> QED BY <1>1, <1>2

\* What has a result and is still in the map has ended.
LEMMA EndedInMap ==
  ASSUME IInv, NEW c \in tasks, result[c] # "none"
  PROVE  c \in Commands /\ Fate(c) = "ended"
<1>1. c \in Commands
  BY DEF IInv, CommandTypes
<1>2. pc[c] = "over" /\ answer[c] # "error"
  BY <1>1 DEF IInv, Owned, CommandInv, Registered
<1> QED BY <1>1, <1>2, FateValues

LEMMA BeginFate ==
  ASSUME IInv, NEW c \in Commands, Begin(c)
  PROVE  F!Start(c) \/ F!Refuse(c)
<1>t. CommandTypes
  BY DEF IInv
<1>1. /\ pc[c] = "new" /\ UNCHANGED <<mode, told>>
      /\ \A d \in Commands \ {c} : pc'[d] = pc[d] /\ answer'[d] = answer[d]
  BY <1>t DEF Begin, session, CommandTypes
<1>2. fates[c] = "new"
  BY <1>1, FateValues
<1>3. CASE MayBegin(c)
  <2>1. pc'[c] = "preparing" /\ answer' = answer
    BY <1>3, <1>t DEF Begin, CommandTypes
  <2>2. fates' = [fates EXCEPT ![c] = "starting"]
    <3>1. Fate(c)' = "starting"
      BY <2>1, FateValuesNext DEF InStart
    <3> QED BY <3>1, <1>1, FateMoves
  <2>3. mode[c] = "background" => F!SlotFree
    BY <1>3, SlotLeft DEF MayBegin
  <2>4. F!Start(c)
    BY <1>1, <1>2, <2>1, <2>2, <2>3 DEF F!Start, fates
  <2> QED BY <2>4
<1>4. CASE ~MayBegin(c)
  <2>1. pc'[c] = "over" /\ answer' = [answer EXCEPT ![c] = "error"] /\ answer'[c] = "error"
    BY <1>4, <1>t DEF Begin, CommandTypes
  <2>2. fates' = [fates EXCEPT ![c] = "refused"]
    <3>1. Fate(c)' = "refused"
      BY <2>1, FateValuesNext
    <3> QED BY <3>1, <1>1, FateMoves
  <2>3. F!Refuse(c)
    BY <1>1, <1>2, <2>1, <2>2 DEF F!Refuse, fates
  <2> QED BY <2>3
<1> QED BY <1>3, <1>4

LEMMA FailedFate ==
  ASSUME IInv, NEW c \in Commands, PrepareFails(c) \/ Abandoned(c)
  PROVE  F!Refuse(c)
<1>t. CommandTypes
  BY DEF IInv
<1>1. /\ InStart(c) /\ StartFails(c)
  BY DEF PrepareFails, Abandoned, InStart
<1>2. /\ UNCHANGED <<mode, told>> /\ pc'[c] = "over"
      /\ answer' = [answer EXCEPT ![c] = "error"] /\ answer'[c] = "error"
      /\ \A d \in Commands \ {c} : pc'[d] = pc[d] /\ answer'[d] = answer[d]
  BY <1>1, <1>t DEF StartFails, CommandTypes
<1>3. fates[c] = "starting"
  BY <1>1, FateValues
<1>4. fates' = [fates EXCEPT ![c] = "refused"]
  <2>1. Fate(c)' = "refused"
    BY <1>2, FateValuesNext
  <2> QED BY <2>1, <1>2, FateMoves
<1> QED BY <1>2, <1>3, <1>4 DEF F!Refuse, fates

LEMMA SpawnedFate ==
  ASSUME IInv, NEW c \in Commands, Spawned(c)
  PROVE  F!Run(c) \/ UNCHANGED F!vars
<1>t. CommandTypes
  BY DEF IInv
<1>1. /\ UNCHANGED <<mode, told>> /\ InStart(c) /\ fates[c] = "starting"
      /\ \A d \in Commands \ {c} : pc'[d] = pc[d] /\ answer'[d] = answer[d]
  <2>1. InStart(c)
    BY DEF Spawned, InStart
  <2> QED BY <2>1, <1>t, FateValues DEF Spawned, CommandTypes
<1>2. CASE ShuttingDown \/ c \in aborted
  <2>1. answer' = answer /\ pc'[c] = "abandoning"
    BY <1>2, <1>t DEF Spawned, CommandTypes
  <2>2. Fate(c)' = Fate(c)
    BY <1>1, <2>1, FateValues, FateValuesNext DEF InStart
  <2>3. fates' = fates
    BY <1>1, <2>2, FateStays
  <2> QED BY <1>1, <2>1, <2>3, NothingTold
<1>3. CASE ~(ShuttingDown \/ c \in aborted)
  <2>1. /\ pc'[c] = "running"
        /\ answer' = [answer EXCEPT ![c] = IF mode[c] = "background" THEN "background" ELSE @]
    BY <1>3, <1>t DEF Spawned, CommandTypes
  <2>2. fates' = [fates EXCEPT ![c] = "running"]
    <3>1. Fate(c)' = "running"
      BY <2>1, FateValuesNext
    <3> QED BY <3>1, <1>1, FateMoves
  <2>3. F!Run(c)
    BY <1>1, <2>1, <2>2 DEF F!Run, fates
  <2> QED BY <2>3
<1> QED BY <1>2, <1>3

LEMMA MovedFate ==
  ASSUME IInv, NEW c \in Commands, HandOver(c)
  PROVE  F!Move(c)
<1>t. CommandTypes
  BY DEF IInv
<1>1. /\ pc[c] = "running" /\ mode[c] = "foreground" /\ UNCHANGED <<pc, told>>
      /\ mode' = [mode EXCEPT ![c] = "background"]
      /\ answer' = [answer EXCEPT ![c] = "background"]
  BY DEF HandOver, MayHandOver
<1>2. fates[c] = "running"
  BY <1>1, FateValues
<1>3. fates' = fates
  <2>1. Fate(c)' = Fate(c)
    BY <1>1, FateValues, FateValuesNext
  <2>2. \A d \in Commands \ {c} : pc'[d] = pc[d] /\ answer'[d] = answer[d]
    BY <1>1, <1>t DEF CommandTypes
  <2> QED BY <2>1, <2>2, FateStays
<1>4. F!SlotFree
  BY SlotLeft DEF HandOver, MayHandOver
<1> QED BY <1>1, <1>2, <1>3, <1>4 DEF F!Move, fates

LEMMA FinishedFate ==
  ASSUME IInv, NEW c \in Commands, Finish(c)
  PROVE  F!End(c) \/ UNCHANGED F!vars
<1>t. CommandTypes
  BY DEF IInv
<1>1. /\ pc[c] = "finalizing" /\ UNCHANGED <<mode, answer>> /\ fates[c] = "running"
      /\ answer[c] # "error"
  BY FateValues DEF Finish, IInv, Owned, CommandInv
<1>2. CASE mode[c] # "background"
  <2>1. /\ UNCHANGED told /\ pc'[c] = "removing"
        /\ \A d \in Commands \ {c} : pc'[d] = pc[d] /\ answer'[d] = answer[d]
    BY <1>2, <1>t DEF Finish, CommandTypes
  <2>2. Fate(c)' = Fate(c)
    BY <1>1, <2>1, FateValues, FateValuesNext
  <2>3. fates' = fates
    BY <2>1, <2>2, FateStays
  <2> QED BY <1>1, <2>1, <2>3, NothingTold
<1>3. CASE mode[c] = "background"
  <2>1. /\ pc'[c] = "over" /\ tasks' = tasks
        /\ \A d \in Commands \ {c} : pc'[d] = pc[d] /\ answer'[d] = answer[d]
        /\ Deliver(result', tasks) \/ told' = told
    BY <1>3, <1>t DEF Finish, CommandTypes
  <2>2. Fate(c)' = "ended"
    BY <1>1, <2>1, FateValuesNext
  <2>3. fates' = [fates EXCEPT ![c] = "ended"]
    BY <2>1, <2>2, FateMoves
  <2>4. F!Tell
    <3>1. CASE Deliver(result', tasks)
      <4>1. ASSUME NEW d \in tasks, mode[d] = "background", result'[d] # "none"
            PROVE  Fate(d)' = "ended"
        <5>1. CASE d = c
          BY <5>1, <2>2
        <5>2. CASE d # c
          <6>1. d \in Commands \ {c} /\ result'[d] = result[d]
            BY <5>2, <1>t DEF Finish, CommandTypes
          <6>2. Fate(d) = "ended"
            BY <6>1, <4>1, EndedInMap
          <6> QED BY <6>1, <6>2, <2>1, SameFate
        <5> QED BY <5>1, <5>2
      <4>2. tasks \subseteq Commands
        BY <1>t DEF CommandTypes
      <4> QED BY <3>1, <4>1, <4>2, <1>t, DeliverTells
    <3>2. CASE told' = told
      BY <3>2, <1>t, NobodyTold
    <3> QED BY <3>1, <3>2, <2>1
  <2>5. answer' = [answer EXCEPT ![c] = IF mode[c] = "foreground" THEN "ended" ELSE @]
    BY <1>1, <1>3, <1>t DEF CommandTypes
  <2>6. F!End(c)
    BY <1>1, <2>3, <2>4, <2>5 DEF F!End, fates
  <2> QED BY <2>6
<1> QED BY <1>2, <1>3

LEMMA RemovedFate ==
  ASSUME IInv, NEW c \in Commands, FileRemoved(c)
  PROVE  F!End(c)
<1>t. CommandTypes
  BY DEF IInv
<1>1. /\ pc[c] = "removing" /\ mode[c] = "foreground" /\ UNCHANGED <<mode, told>>
      /\ answer' = [answer EXCEPT ![c] = "ended"] /\ answer'[c] = "ended" /\ pc'[c] = "over"
      /\ \A d \in Commands \ {c} : pc'[d] = pc[d] /\ answer'[d] = answer[d]
  BY <1>t DEF FileRemoved, IInv, Owned, CommandInv, CommandTypes
<1>2. fates[c] = "running"
  BY <1>1, FateValues
<1>3. fates' = [fates EXCEPT ![c] = "ended"]
  <2>1. Fate(c)' = "ended"
    BY <1>1, FateValuesNext
  <2> QED BY <2>1, <1>1, FateMoves
<1>4. F!Tell
  BY <1>1, <1>t, NobodyTold
<1> QED BY <1>1, <1>2, <1>3, <1>4 DEF F!End, fates

\* What is pending is delivered when somebody listens again.
LEMMA ListenerTold ==
  ASSUME IInv, UNCHANGED <<pc, answer, mode>>, Deliver(result, tasks)
  PROVE  F!TellLater
<1>1. fates' = fates
  BY SameFates
<1>2. \A d \in tasks : mode[d] = "background" /\ result[d] # "none" => Fate(d)' = "ended"
  BY EndedInMap, SameFate
<1>3. F!Tell
  BY <1>2, DeliverTells DEF IInv, CommandTypes
<1> QED BY <1>1, <1>3 DEF F!TellLater, fates

LEMMA FateNext == IInv /\ [Next]_vars => [F!Next]_(F!vars)
<1> SUFFICES ASSUME IInv, [Next]_vars PROVE F!Next \/ UNCHANGED F!vars
  OBVIOUS
<1>1. ASSUME UNCHANGED <<pc, answer, mode, told>> PROVE UNCHANGED F!vars
  BY <1>1, SameFates, NothingTold
<1>2. CASE UNCHANGED vars
  BY <1>2, <1>1 DEF vars, command
<1>3. ASSUME NEW c \in Commands,
             Begin(c) \/ PrepareFails(c) \/ Abandoned(c) \/ Spawned(c) \/ HandOver(c)
               \/ Finish(c) \/ FileRemoved(c)
      PROVE  F!Next \/ UNCHANGED F!vars
  <2>1. F!Start(c) \/ F!Refuse(c) \/ F!Run(c) \/ F!Move(c) \/ F!End(c) \/ UNCHANGED F!vars
    BY <1>3, BeginFate, FailedFate, SpawnedFate, MovedFate, FinishedFate, RemovedFate
  <2> QED BY <2>1 DEF F!Next
<1>4. ASSUME NEW c \in Commands, Prepared(c) \/ SpawnFails(c) \/ Close(c)
      PROVE  UNCHANGED F!vars
  <2>1. /\ UNCHANGED <<answer, mode, told>>
        /\ \A d \in Commands \ {c} : pc'[d] = pc[d] /\ answer'[d] = answer[d]
        /\ \/ InStart(c) /\ InStart(c)'
           \/ pc[c] = "running" /\ pc'[c] = "finalizing"
    BY <1>4 DEF Prepared, SpawnFails, Close, InStart, IInv, CommandTypes
  <2>2. Fate(c)' = Fate(c)
    BY <2>1, FateValues, FateValuesNext
  <2>3. fates' = fates
    BY <2>1, <2>2, FateStays
  <2> QED BY <2>1, <2>3, NothingTold
<1>5. ASSUME NEW c \in Commands,
             Cancel(c) \/ Timeout(c) \/ Fault(c) \/ Abort(c) \/ ShellExits(c) \/ GroupExits(c)
      PROVE  UNCHANGED F!vars
  BY <1>5, <1>1 DEF Cancel, Timeout, Fault, Abort, StopsOnly, ShellExits, GroupExits
<1>6. CASE ShuttingOn \/ ReloadTimeout \/ (\E reload \in BOOLEAN : SessionEnds(reload))
             \/ ShutdownAwaited \/ SessionStartsWithout
  BY <1>6, <1>1 DEF ShuttingOn, ShutdownStops, ShutdownCleans, ShutdownEnds, ReloadTimeout,
     SessionEnds, ShutdownAwaited, SessionStartsWithout, command
<1>7. CASE SessionStarts \/ Bound
  <2>1. UNCHANGED <<pc, answer, mode>>
    BY <1>7 DEF SessionStarts, Bound, command
  <2>2. told' = told \/ Deliver(result, tasks)
    BY <1>7 DEF SessionStarts, Bound, Rebind, BindAnew
  <2> QED BY <2>1, <2>2, <1>1, ListenerTold DEF F!Next
<1> QED BY <1>2, <1>3, <1>4, <1>5, <1>6, <1>7 DEF Next, Starting, Finalizing

\* Each command has one fate, each caller one answer, each end at most one
\* message, and no more than MaxConcurrent are in the background.
THEOREM FatesImplemented == Spec => ImplementsFates
<1>1. F!Init /\ [][F!Next]_(F!vars) => ImplementsFates
  BY PTL DEF ImplementsFates, F!Spec
<1> QED BY FateInit, FateNext, CommandInvariance, <1>1, PTL DEF Spec
=============================================================================
