----------------------------- MODULE ModelRouter -----------------------------
(***************************************************************************)
(* model-router.ts (ModelRouter: acquire, lease, reportFailure, enable,    *)
(* reload of the configuration) and startRouted of workbench-controller.ts *)
(* which asks it for a model, starts the run, and switches to another      *)
(* model when the error allows it.                                         *)
(*                                                                         *)
(* One round of the loop of acquire runs without an await, and so does the *)
(* escalation from one tier to the next: while a task is "choosing", no    *)
(* other code of the process runs.                                         *)
(*                                                                         *)
(* Abstracted: durations are counted in polls (POLL_MS); error messages    *)
(* are the class that classifyError gives them; the catalogue of Pi (a     *)
(* model it does not know is one that is disabled), thinking levels, the   *)
(* descriptions of attempts, and the admission that service.start awaits.  *)
(***************************************************************************)
EXTENDS Naturals, Sequences, FiniteSetsExt

CONSTANTS Tasks,        \* calls of startRouted
          CodeTasks,    \* those of role "code"
          Models,
          Capacity,     \* maxConcurrency of a model
          Group,        \* its quota group
          Configs,      \* contents the configuration file may have: per tier
                        \* [candidates, spillover, action, maxWait, escalateTo]
          Plans,        \* plans a task may have: [tier, pinned, preferred]
          CoolDown,     \* per class: cool-downs it may set, retry-after included
          MaxSwitches,  \* MAX_SWITCHES_PER_TASK
          None

Switchable == {"limited", "quota_exhausted", "auth", "unknown"}
Disabling == {"auth"}
Classes == Switchable \cup {"final"}

Tiers == {"light", "medium"}
Groups == {Group[m] : m \in Models}

\* What parseRouterConfig accepts; escalateTo means nothing to an action that
\* does not escalate, and heavy and ultra are like medium but for their names.
TierConfigs ==
  [candidates : Seq(Models), spillover : BOOLEAN, maxWait : Nat, escalateTo : Tiers,
   action : {"wait", "wait_then_escalate", "escalate", "fail"}]

ASSUME RouterAssumption ==
  /\ IsFiniteSet(Tasks)
  /\ CodeTasks \subseteq Tasks
  /\ MaxSwitches \in Nat
  /\ None \notin Models
  /\ \A m \in Models : Capacity[m] \in Nat \ {0}
  /\ CoolDown \in [Switchable \ Disabling -> SUBSET Nat]
  /\ \A c \in Configs : c \in [Tiers -> TierConfigs] /\ \A g \in Tiers : c[g].escalateTo # g
  /\ \A t \in Tasks : Plans[t] \subseteq
       [tier : Tiers, pinned : Models \cup {None}, preferred : Models \cup {None}]

VARIABLES
  config,     \* the contents that config() returns
  inFlight,   \* CandidateState.inFlight
  cool,       \* what is left of CandidateState.cooldownUntil
  groupCool,  \* what is left of groupCooldown
  disabled,   \* models with a disabledReason
  plan,       \* what plan() made of the request of a task
  pc,         \* where a task stands
  tier,       \* the tier its acquire looks at
  waited,     \* polls since waitStarted
  due,        \* its timer of a poll may fire
  excluded,   \* models it has given up
  lease,      \* the model it holds
  switches,   \* the counter of startRouted
  tools,      \* the run that it started last has executed a tool
  aborted     \* tasks whose signal is aborted and may still be looked at

router == <<config, inFlight, cool, groupCool, disabled>>
choice == <<tier, waited, due>>
attempt == <<excluded, lease, switches, tools>>
vars == <<router, plan, pc, choice, attempt, aborted>>

Init ==
  /\ config \in Configs
  /\ inFlight = [m \in Models |-> 0]
  /\ cool = [m \in Models |-> 0]
  /\ groupCool = [g \in Groups |-> 0]
  /\ disabled = {}
  /\ plan \in {p \in [Tasks -> UNION {Plans[t] : t \in Tasks}] : \A t \in Tasks : p[t] \in Plans[t]}
  /\ pc = [t \in Tasks |-> "new"]
  /\ tier = [t \in Tasks |-> plan[t].tier]
  /\ waited = [t \in Tasks |-> 0]
  /\ due = {}
  /\ excluded = [t \in Tasks |-> {}]
  /\ lease = [t \in Tasks |-> None]
  /\ switches = [t \in Tasks |-> 0]
  /\ tools = [t \in Tasks |-> FALSE]
  /\ aborted = {}

\* No code of the process is in the middle of a round.
LoopFree == \A t \in Tasks : pc[t] # "choosing"

-----------------------------------------------------------------------------
(* acquire.                                                                *)

Candidates(t) == config[tier[t]].candidates

\* acquire tries candidate i before candidate j: those of the preferred model
\* come first, and otherwise they keep the order of the file.
Before(t, i, j) ==
  LET preferred(k) == Candidates(t)[k] = plan[t].preferred
  IN  IF preferred(i) = preferred(j) THEN i < j ELSE preferred(i)

\* Faulty variant: a model that failed for this task is tried again.
UsableDespiteFailure(t, m) == m \notin disabled

Usable(t, m) == m \notin excluded[t] /\ m \notin disabled

Cooling(m) == cool[m] > 0 \/ groupCool[Group[m]] > 0

Full(m) == inFlight[m] >= Capacity[m]

BusyAt(t, i) == LET m == Candidates(t)[i] IN Usable(t, m) /\ ~Cooling(m) /\ Full(m)

\* Without spillover the first busy candidate ends the search.
Reached(t) ==
  {i \in DOMAIN Candidates(t) :
     \/ config[tier[t]].spillover
     \/ \A j \in DOMAIN Candidates(t) : Before(t, j, i) => ~BusyAt(t, j)}

Free(t) ==
  {i \in Reached(t) : LET m == Candidates(t)[i] IN Usable(t, m) /\ ~Cooling(m) /\ ~Full(m)}

CanWait(t) ==
  \E i \in Reached(t) : BusyAt(t, i) \/ (Usable(t, Candidates(t)[i]) /\ Cooling(Candidates(t)[i]))

Waits(t) ==
  /\ config[tier[t]].action \in {"wait", "wait_then_escalate"}
  /\ CanWait(t)
  /\ waited[t] < config[tier[t]].maxWait

Escalates(t) == config[tier[t]].action \in {"escalate", "wait_then_escalate"}

Choosing(t) == pc[t] = "choosing"

Pinned(t) == plan[t].pinned # None

\* acquire returns: its local variables are gone.
Forget(t) ==
  /\ tier' = [tier EXCEPT ![t] = plan[t].tier]
  /\ waited' = [waited EXCEPT ![t] = 0]
  /\ due' = due \ {t}

TakeLease(t, m) ==
  /\ inFlight' = [inFlight EXCEPT ![m] = @ + 1]
  /\ lease' = [lease EXCEPT ![t] = m]
  /\ pc' = [pc EXCEPT ![t] = "running"]
  /\ Forget(t)
  /\ UNCHANGED <<config, cool, groupCool, disabled, excluded, switches, tools, aborted, plan>>

\* A pinned model is leased whatever its cool-down and its other leases.
LeasePinned(t) ==
  /\ Choosing(t)
  /\ Pinned(t)
  /\ Usable(t, plan[t].pinned)
  /\ TakeLease(t, plan[t].pinned)

LeaseFirst(t) ==
  /\ Choosing(t)
  /\ ~Pinned(t)
  /\ t \notin aborted
  /\ \E i \in Free(t) :
       /\ \A j \in Free(t) : ~Before(t, j, i)
       /\ TakeLease(t, Candidates(t)[i])

\* Every summand of the sleep is at least one poll, so it lasts one.
Sleep(t) ==
  /\ Choosing(t)
  /\ ~Pinned(t)
  /\ t \notin aborted
  /\ Free(t) = {}
  /\ Waits(t)
  /\ pc' = [pc EXCEPT ![t] = "sleeping"]
  /\ due' = due \ {t}
  /\ UNCHANGED <<router, tier, waited, attempt, aborted, plan>>

\* Faulty variant: the loop goes on with the tier it had.
NextTierSame(t) == tier[t]

NextTier(t) == config[tier[t]].escalateTo

Escalate(t) ==
  /\ Choosing(t)
  /\ ~Pinned(t)
  /\ t \notin aborted
  /\ Free(t) = {}
  /\ ~Waits(t)
  /\ Escalates(t)
  /\ tier' = [tier EXCEPT ![t] = NextTier(t)]
  /\ waited' = [waited EXCEPT ![t] = 0]
  /\ UNCHANGED <<router, pc, due, attempt, aborted, plan>>

\* RouterExhaustedError, or the reason of the abort.
Refuse(t) ==
  /\ Choosing(t)
  /\ \/ Pinned(t) /\ ~Usable(t, plan[t].pinned)
     \/ ~Pinned(t) /\ t \in aborted
     \/ ~Pinned(t) /\ Free(t) = {} /\ ~Waits(t) /\ ~Escalates(t)
  /\ pc' = [pc EXCEPT ![t] = "done"]
  /\ aborted' = aborted \ {t}
  /\ Forget(t)
  /\ UNCHANGED <<router, attempt, plan>>

\* acquire begins: at the tier of the plan, with a new waitStarted, for a run
\* that has not executed a tool.
EnterAcquire(t) ==
  /\ pc' = [pc EXCEPT ![t] = "choosing"]
  /\ tools' = [tools EXCEPT ![t] = FALSE]
  /\ Forget(t)

Wake(t) ==
  /\ LoopFree
  /\ pc[t] = "sleeping"
  /\ t \in due
  /\ pc' = [pc EXCEPT ![t] = "choosing"]
  /\ UNCHANGED <<router, choice, attempt, aborted, plan>>

-----------------------------------------------------------------------------
(* startRouted.                                                            *)

Begin(t) ==
  /\ LoopFree
  /\ pc[t] = "new"
  /\ EnterAcquire(t)
  /\ UNCHANGED <<router, excluded, lease, switches, aborted, plan>>

Running(t) == LoopFree /\ pc[t] = "running"

\* Nothing asks whether a task of another role ran tools.
RunTool(t) ==
  /\ Running(t)
  /\ t \in CodeTasks
  /\ tools' = [tools EXCEPT ![t] = TRUE]
  /\ UNCHANGED <<router, pc, choice, excluded, lease, switches, aborted, plan>>

\* Faulty variant: the finally block is not reached by every path.
ReleasedNever(t) == inFlight

Released(t) == [inFlight EXCEPT ![lease[t]] = @ - 1]

\* The task is over, and its lease released.
Finish(t) ==
  /\ pc' = [pc EXCEPT ![t] = "done"]
  /\ inFlight' = Released(t)
  /\ lease' = [lease EXCEPT ![t] = None]
  /\ tools' = [tools EXCEPT ![t] = FALSE]
  /\ aborted' = aborted \ {t}
  /\ UNCHANGED <<config, choice, excluded, switches, plan>>

\* Faulty variant: the last cool-down counts, not the longest.
ProlongedLast(left, k) == k

Prolonged(left, k) == Max({left, k})

\* reportFailure.
Report(m, class) ==
  IF class \in Disabling
  THEN disabled' = disabled \cup {m} /\ UNCHANGED <<cool, groupCool>>
  ELSE /\ \E k \in CoolDown[class] :
            IF k = 0 THEN UNCHANGED <<cool, groupCool>>
            ELSE /\ cool' = [cool EXCEPT ![m] = Prolonged(@, k)]
                 /\ IF class = "quota_exhausted"
                    THEN groupCool' = [groupCool EXCEPT ![Group[m]] = Prolonged(@, k)]
                    ELSE UNCHANGED groupCool
       /\ UNCHANGED disabled

ReportIfSwitchable(m, class) ==
  IF class \in Switchable THEN Report(m, class) ELSE UNCHANGED <<cool, groupCool, disabled>>

\* Faulty variant: one switch too many.
SwitchesLeftOneMore(t) == switches[t] <= MaxSwitches

SwitchesLeft(t) == switches[t] < MaxSwitches

\* The run returned an error: a code task goes on only if it ran no tool.
MaySwitchResult(t, class) ==
  /\ t \notin aborted
  /\ class \in Switchable
  /\ t \in CodeTasks => ~tools[t]
  /\ SwitchesLeft(t)

\* service.start threw: a code task goes on if the message looks like an
\* error of the start.
MaySwitchThrown(t, class) ==
  /\ class \in Switchable
  /\ t \in CodeTasks => class \in Disabling
  /\ SwitchesLeft(t)

GiveUpModel(t) ==
  /\ excluded' = [excluded EXCEPT ![t] = @ \cup {lease[t]}]
  /\ switches' = [switches EXCEPT ![t] = @ + 1]

Succeed(t) ==
  /\ Running(t)
  /\ Finish(t)
  /\ UNCHANGED <<cool, groupCool, disabled>>

ReturnError(t, class) ==
  /\ Running(t)
  /\ ReportIfSwitchable(lease[t], class)
  /\ IF MaySwitchResult(t, class)
     THEN /\ GiveUpModel(t)
          /\ pc' = [pc EXCEPT ![t] = "closing"]
          /\ UNCHANGED <<config, inFlight, choice, lease, tools, aborted, plan>>
     ELSE Finish(t)

\* closeSession of the failed run has settled, with the lease still held.
SessionClosed(t) ==
  /\ LoopFree
  /\ pc[t] = "closing"
  /\ EnterAcquire(t)
  /\ inFlight' = Released(t)
  /\ lease' = [lease EXCEPT ![t] = None]
  /\ UNCHANGED <<config, cool, groupCool, disabled, excluded, switches, aborted, plan>>

\* The error of an aborted task says nothing about its model.
Throw(t, class) ==
  /\ Running(t)
  /\ IF t \in aborted THEN UNCHANGED <<cool, groupCool, disabled>>
     ELSE ReportIfSwitchable(lease[t], class)
  /\ IF t \notin aborted /\ MaySwitchThrown(t, class)
     THEN /\ GiveUpModel(t)
          /\ EnterAcquire(t)
          /\ inFlight' = Released(t)
          /\ lease' = [lease EXCEPT ![t] = None]
          /\ UNCHANGED <<config, aborted, plan>>
     ELSE Finish(t)

\* A sleeping acquire is rejected at once; a run is told to stop.
Abort(t) ==
  /\ LoopFree
  /\ pc[t] \in {"new", "sleeping", "running", "closing"}
  /\ t \notin aborted
  /\ IF pc[t] = "sleeping"
     THEN pc' = [pc EXCEPT ![t] = "done"] /\ UNCHANGED aborted
     ELSE aborted' = aborted \cup {t} /\ UNCHANGED pc
  /\ Forget(t)
  /\ UNCHANGED <<router, attempt, plan>>

-----------------------------------------------------------------------------
(* The environment.                                                        *)

Countdown(n) == IF n = 0 THEN 0 ELSE n - 1

\* The bound on the counter waited: more makes no difference to a rule.
WaitMatters(n) == \E c \in Configs, g \in Tiers : n < c[g].maxWait

\* One poll passes. A timer that is due may still fire late.
Tick ==
  /\ LoopFree
  /\ cool' = [m \in Models |-> Countdown(cool[m])]
  /\ groupCool' = [g \in Groups |-> Countdown(groupCool[g])]
  /\ waited' = [t \in Tasks |->
       IF pc[t] = "sleeping" /\ WaitMatters(waited[t]) THEN waited[t] + 1 ELSE waited[t]]
  /\ due' = {t \in Tasks : pc[t] = "sleeping"}
  /\ UNCHANGED <<config, inFlight, disabled, pc, tier, attempt, aborted, plan>>

\* config() finds a new version of the file.
Reload(c) ==
  /\ LoopFree
  /\ config' = c
  /\ disabled' = {}
  /\ UNCHANGED <<inFlight, cool, groupCool, pc, choice, attempt, aborted, plan>>

\* The command "/subagent-models enable".
Enable(m) ==
  /\ LoopFree
  /\ disabled' = disabled \ {m}
  /\ cool' = [cool EXCEPT ![m] = 0]
  /\ UNCHANGED <<config, inFlight, groupCool, pc, choice, attempt, aborted, plan>>

Choose(t) == LeasePinned(t) \/ LeaseFirst(t) \/ Sleep(t) \/ Escalate(t) \/ Refuse(t)

End(t) == Succeed(t) \/ \E class \in Classes : ReturnError(t, class) \/ Throw(t, class)

\* What the task or the run it waits for does next.
Progress(t) == Begin(t) \/ Choose(t) \/ Wake(t) \/ End(t) \/ SessionClosed(t)

Next ==
  \/ \E t \in Tasks : Progress(t) \/ RunTool(t) \/ Abort(t)
  \/ Tick
  \/ \E c \in Configs : Reload(c)
  \/ \E m \in Models : Enable(m)

Spec == Init /\ [][Next]_vars

\* Time passes, timers fire, synchronous code goes on, a run ends at the
\* latest by its hard wall time, and closeSession ends with SIGKILL.
Fairness == WF_vars(Tick) /\ \A t \in Tasks : WF_vars(Progress(t))

FairSpec == Spec /\ Fairness

-----------------------------------------------------------------------------
(* Properties.                                                             *)

\* The counters are naturals and every task is in a known place.
TypeOK ==
  /\ config \in Configs
  /\ inFlight \in [Models -> 0..Cardinality(Tasks)]
  /\ cool \in [Models -> Nat]
  /\ groupCool \in [Groups -> Nat]
  /\ disabled \subseteq Models
  /\ \A t \in Tasks : plan[t] \in Plans[t]
  /\ pc \in [Tasks -> {"new", "choosing", "sleeping", "running", "closing", "done"}]
  /\ tier \in [Tasks -> Tiers]
  /\ waited \in [Tasks -> Nat]
  /\ due \subseteq Tasks
  /\ excluded \in [Tasks -> SUBSET Models]
  /\ lease \in [Tasks -> Models \cup {None}]
  /\ switches \in [Tasks -> Nat]
  /\ tools \in [Tasks -> BOOLEAN]
  /\ aborted \subseteq Tasks

\* A lease that startRouted takes for a run is given back on every path that
\* ends the run or switches the model: the counters are the leases held, and
\* only pinned tasks take a model past its maxConcurrency.
LeasesExact ==
  \A m \in Models :
    /\ inFlight[m] = Cardinality({t \in Tasks : lease[t] = m})
    /\ Cardinality({t \in Tasks : lease[t] = m /\ ~Pinned(t)}) <= Capacity[m]

\* A task tries no model a second time, and gives up at most MaxSwitches of
\* them, through reloads, escalation and new calls of acquire.
TriesEachOnce ==
  \A t \in Tasks :
    /\ switches[t] = Cardinality(excluded[t])
    /\ switches[t] <= MaxSwitches
    /\ pc[t] = "running" => lease[t] \notin excluded[t]

\* Two failures of one model, in any order, leave the longer cool-down: only
\* time and the command "enable" shorten one.
CoolDownNotShortened ==
  [][(\E m \in Models : cool'[m] < cool[m]) \/ (\E g \in Groups : groupCool'[g] < groupCool[g])
       => Tick \/ \E m \in Models : Enable(m)]_vars

\* Every task gets a model and ends, or is refused: no chain of waits,
\* escalations and switches goes on for ever.
TaskEnds == \A t \in Tasks : <>(pc[t] = "done")
=============================================================================
