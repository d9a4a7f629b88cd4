# Formal models of the Pi extensions

TLA+ models of the parts of this repository whose correctness depends on order:
who gets a permit, when a job settles, what happens when an abort, a crash or a
second request arrives in the middle of something. TLC checks each model on a
small instance; TLAPS proves the safety properties for every instance.

Everything runs in Node's single-threaded event loop. A piece of code between
two `await`s is atomic, so **an action of a model is what runs between two
awaits** of the code, and what can go wrong is what happens at an `await`: the
code reads some state, gives up the thread, and uses what it read. Child
processes, timers, users and model providers are the environment.

Source paths below leave out `src/packages/pi-tsien-` where that is clear; *W*
stands for `src/packages/pi-tsien-subagent-workbench/src`.

## 1. The system

The repository is a set of extensions of the Pi coding agent: 26 packages and
one loose extension. Pi loads each of them into its process and calls it back on
session, turn, tool and input events. `PROJECT.json` lists all of them with the
files that matter. The ones that keep state others depend on:

| Component | State | Operations | Talks to | What is hard | What makes it correct |
|---|---|---|---|---|---|
| Resource governor (*W*/resource-governor.ts) | permits in use, waiting lines by priority and subject, a rotation cursor, a published snapshot | acquire, release, abort or time-out of a waiter | called by the subagent service around every run | waiters leave from the middle of a line while permits are handed over | limits hold, nobody waits past a free permit, nobody is in two lines, subjects take turns |
| Job registry (*W*/job-registry.ts) | jobs with status and owed completion notices, callers of `wait` | create, start, pause, resume, settle, cancel, wait, interruptAll | written by the controller, read by tools and the UI | settlement races cancel and shutdown; a waiter must see the publication that satisfies it | a job settles once, is announced once, no wake-up is lost |
| Workbench controller: jobs (*W*/workbench-controller.ts, index.ts) | a running body per job, controls of active workflows | submitAgent, submitWorkflow, cancel, pause, resume, dispose, delivery of notices | registry, service, provider, Pi messages | the body of a job is asynchronous and its context may be gone when it ends | a cancelled job ends; a notice survives a failed delivery |
| Workbench controller: capacity | reserved session slots, a chain of requests, idle conversations | ensureProviderCapacity, reservations, follow-ups | provider sessions | a check now, the session later; closing idle sessions in between | reservations are exact, reserved work fits, every request is answered, only idle sessions are closed |
| Workbench controller: workflows | status of workflow, stages, tasks, runs; pause and abort | runWorkflow, pause, resume, interrupt, two retries | service, registry | tasks of a stage run at once and fail at any moment; the abort arrives late | stages are gates, completed means complete, a retry redoes nothing that is reused, sessions are closed |
| Model router and switching (*W*/model-router.ts, startRouted) | runs per model, cool-downs, disabled models, the configuration | acquire, release, reportFailure, reload, enable | service, configuration file | waits, escalation and switching nest in each other | leases are given back, no model is tried twice, a task that did work is not redone, every task ends |
| Subagent service and RPC provider (*W*/subagent-service.ts, providers/) | runs, sessions, one child process each, requests that wait for an answer | start, continue, abort, close, heartbeat | governor, child processes over JSON lines | hard wall time, abort grace and late answers race | a child works only under a permit, a result belongs to its prompt, every run ends |
| Background commands (shared/src/lib/background-commands, running-commands) | running commands, start slots, output files, notices, the session they are bound to | start, hand-over from the foreground, stop, shutdown, rebinding | child processes, Pi messages and session events | exit, stop, time-out and hand-over race; a shutdown awaits while sessions come and go | one fate and one answer per command, the first reason is the one reported, no process without an owner, every shutdown ends |
| Goal (goal/src) | a log of goal entries on the branch of the session, a queued continuation, open dialogs | create, replace, complete, pause, resume, clear, continue | Pi messages and session entries, the user's dialogs | a continuation is queued now and seen later; a dialog is answered when the goal is another one | an active goal is asked again, once at a time; a dialog changes only the goal it showed |
| Live session (live-session/src) | a queue of remote inputs, a mark of the compaction, a connection with buffers and numbers, a control lease | input, compact, connect, publish, claim, release | a broker over a socket, Pi session | the connection drops and comes back; the session is switched underneath | one input at a time, in its own session; the broker's copy has no gaps and is true; the lease timer follows the connection |
| Schedule, auto-compact, supervisor | timers, a trigger, what a gateway granted | see `PROJECT.json` | Pi | failures without a retry, stale answers | each prompt delivered once, compaction is tried again |

The rest is display, formatting, search and storage: it decides nothing that
others wait for, and `PROJECT.json` says for each part why it has no model. The
two third-party forks (`rtk-fork`, `session-ui-fork`) are left out.

How a subagent run passes through the workbench:

    tool call -> controller: submitAgent / submitWorkflow     WorkbenchJobs
                  -> capacity: ensureProviderCapacity         ProviderCapacity
                  -> workflow: stages and tasks               WorkflowRun
                  -> startRouted: a model from the router     ModelRouter
                  -> service.start: a permit                  ResourceGovernor
                  -> provider.run: a child process            ProviderRun
               <- result, settle, completion notice           WorkbenchJobs

`PROJECT.json` also lists the *hazards*: each place where something can go wrong
that a test would hardly reach, with the properties that watch over it.

## 2. The modules

### ResourceGovernor, Admission, GovernorRotation

`ResourceGovernor` is *W*/resource-governor.ts: `active`, `queued` and `queues`
are its fields, `status` stands for the promises and leases its callers hold,
`currentSnapshot` is what it publishes. One action per path of `acquire`
(RejectCall, GrantCall, EnqueueCall), RejectWaiter for the abort listener and
the timer, ReleaseIdle and ReleaseAndDrain for `release` and `drain`, and
ReleaseAgain for a lease that is released twice. `Dequeue` keeps the array of
subjects and the cursor as the code does, since their handling is what could be
wrong.

`Admission` says what the governor promises, without lines per subject in arrays
and without a cursor: no caller barges in, priority is strict, each subject is
served in order, and a permit passes to a waiter without going idle. The run
`governor` checks that ResourceGovernor implements it (`ImplementsAdmission`;
holders are the granted requests, lines are the queues of the subjects).

`GovernorRotation` adds a history variable to state that subjects take turns.

### JobRegistry, WorkbenchJobs

`JobRegistry` has the actions of *W*/job-registry.ts: the status of each job, its
abort signal, whether a completion notice is owed, and the callers of `wait`
with what they wait for. `Publish` is the loop over listeners that runs within
each change.

`WorkbenchJobs` composes it with the controller: `body` is where the
asynchronous function of a job stands at its awaits, `control` is the entry of a
workflow in `activeWorkflows`, `told` counts the notices that were sent.
`SettleJob` is the settlement with its callback `onJobSettled` and the attempt
to deliver, any part of which may throw; `Dispose` is the shutdown.

### ProviderCapacity

The slots of the provider against those who want one: direct conversations
(`sess`, `avail`, `active`, `pending`), workflows (`flow`, `flowOpen`, `opened`)
and reservations. `tail` is the chain `capacityReclaimTail`; `target` and `left`
are the local variables of the request that is being served, kept because they
outlive an await. `unnamed` counts sessions that a thrown task left behind;
its run may go on with another model in a session beside it (ReopenTask,
OpenBeside). `stray` are the sessions a workflow has beyond one for each of its
runs: a second one beside a session that lives on, or that of a run which its
foreach left behind and which gets its permit when the workflow is over.

### WorkflowRun

One workflow: `phase` is where `runWorkflow` stands, `cur` its stage, `unit` the
runs with their session and whether the result names that session. StageStarts
begins all tasks of a stage; RunStarts, RunReturns, RunThrows and RunRefused are
what can become of a run; ForeachJoins collects the runs of a foreach. An item
whose templates are malformed is "broken" from the start: it fails its task
(Torn) while the runs of the other items are started all the same, and nobody
collects them. They are followed until they are done, but not into a retry, which
has an id of its own and cannot be reached by them.
StageCompletes, StageFails and StageCancelled follow when all have settled; Ends
and SessionCloses are `closeWorkflowSessions`. RetryWorkflow and RetryTask begin
again with part of the results reused.

### ModelRouter

The router and `startRouted`. The loop of `acquire` contains no await unless it
sleeps: while a task is `"choosing"`, every other action is disabled (LoopFree),
which is what makes a loop that never ends visible. Cool-downs and waits are
counted in polls and run down with Tick, so there is no clock to bound.
ReturnError and Throw are the two ways a run fails, with the two different
conditions under which the code switches to another model.

### ProviderRun

One child session under `SubagentService.start`: `phase` and `answer` of each
call, `pending` (the requests that wait for an answer), `inbox` and `outbox`
(the two pipes), `proc`, `working` and `hung` (the child), and `dead`, which
stands for `deadSessions` together with a client that is being stopped. Begins
is the head of `runPrompt`; HardWall, ReadsBreach, Aborts, Heartbeat,
RequestTimesOut and CloseSession are what races with it, TimesOut and Terminates
are `beginTimeout` and `terminateTimedOutSession`, and ChildExits is the exit
with everything that hangs on it. The child is external: it may answer, refuse,
break a rule, hang, never settle, or exit at any moment, and say what it says in
either order.

### BackgroundCommands, CommandFates

`BackgroundCommands` is the manager and the session events of
`running-commands`: `pc` is where the start, run or finalization of a command
stands, `proc` its process group (the shell may be gone while its children
linger), `stop` the reason a termination was asked for, `result` and `answer`
what is reported, `told` the notices; `starting` and `startingBackground` are the
counters of slots; `shutdown`, `bound`, `directory`, `timer` and `host` are the
manager between sessions. What runs between two awaits is one action: the check
and the count of a start are MayBegin and CountStart, the awaits after them
PrepareFails, Prepared, SpawnFails and Spawned; finalize is Close, Finish and
FileRemoved; performShutdown is ShutdownStops, ShutdownCleans and ShutdownEnds.

`CommandFates` says what a caller is promised: one fate, one answer, at most one
notice, and never more than MaxConcurrent in the background. The manager
implements it (`ImplementsFates`; a fate is read off `pc` and `answer`).

### LiveInputs, LiveConnection

Two models of the same extension, which share nothing but the session, and that
under two names (`session`, `bridged`). In `LiveInputs` an input is queued, taken
or settled, `compaction` is the mark of the code that Pi compacts, and each call
of `finishCompaction` leaves a timer that remembers only its session, as the code
does. Pi is the environment: runs, compactions that end with or without the
event, and session switches.

In `LiveConnection` the socket, its two buffers (critical frames and the one
update that newer updates replace), the projector's `sequence` and `revision`,
the lease with its grace timer, and a copy of the session as the broker keeps
it. The broker takes a frame only if it follows the one before; otherwise
`ignored` becomes true for that connection. `After` is the broker's copy after
each frame of a batch. A lease may be found expired while a snapshot is built,
and the news then goes ahead of it (Lapsed). `ghost` are the clients that were
stopped and still read their sockets: they are welcomed (GhostWelcomed) and carry
out commands (GhostClaims) on the lease of the present session. `CInit`, `CNext`,
`CSpec` and the like have a letter, here and in `GoalSession`, because the proofs of
a session extend all three models.

### GoalSession

`log` is the list of goal entries on the branch of the session and `Replay` what
`loadGoalState` makes of it: after a move in the tree the goal is that of a
shorter log. Commands that ask first leave a `dialog` that remembers the goal it
showed; the agent's tools change the goal meanwhile. `queuedGoalId` and
`continuations` are the prompt of the timer before and after it is sent;
ContinuationArrives is the handler of `input`, ContinuationTyped the same for the
text of a continuation that the user typed, ContinuationRefused a prompt that
Pi rejects during a compaction.

### Faulty variants

Definitions introduced by "Faulty variant" are what a plausible mistake in the
code would make of the definition that follows. No specification uses them;
`PROJECT.json` ("mutants") says which property each one must break. They show
that a property can fail.

## 3. The runs

| Run | Instance | Properties | What it shows |
|---|---|---|---|
| governor | 6 calls, 2 permits, 4 places, 3 priorities, 3 subjects | WorkConserving, QueuesConsistent, ImplementsAdmission | nobody waits past a free permit, rotation and lines are in step, and the governor implements Admission |
| governor_rotation | 4 calls, 1 permit, 2 subjects | TakesTurns, WaiterServed | with two subjects they take turns, and every waiter is served or leaves |
| jobs | 1 agent, 1 workflow, 1 caller of wait | NoMissedWake, NotLost, PauseInStep, CancelSettles | no notice or wake-up is lost, a paused job and its workflow agree, cancelled jobs end |
| capacity | 2 slots, 2 direct agents, 3 workflows | ReservationsExact, ReservedFits, RequestsAnswered | reservations are exact, one session fits for each run that was admitted, every request is answered |
| workflow | 2 stages, 3 tasks (one a foreach of 2), 2 attempts | StageGate, CompletedMeansOver, ReturnedSessionsClosed, Finishes, InterruptedEnds | stages are gates, also with malformed items, completion is whole, sessions of results are closed, a workflow ends unless it is paused, an interrupted one always |
| routing | 2 tasks, 3 models, 2 tiers, 2 versions of the file | LeasesExact, TriesEachOnce, CoolDownNotShortened, TaskEnds | leases are given back on every path, no model is tried twice, every task ends |
| provider_run | 2 calls for one child session | WorkHasPermit, ResultIsOwn, RunReturns | a child works only for a call that holds a permit, a result is that of its own prompt and of no timed-out run, every run ends whatever the child does |
| background | 2 commands of either tool, 1 background slot | NoOrphan, ImplementsFates, FirstReasonWins, StoppedCallsReturn, ShutdownTerminates | one fate, one answer, one notice; no process without an owner; every stop and shutdown comes to its end |
| live_inputs | 3 inputs, 2 sessions, 2 runs, 2 compactions | OneAtATime, OwnSession, LostOnlyToOverlap, QueueGoesOn | one input at a time in its own session, none stuck, none refused but by overlapping compactions |
| live_connection | 2 sessions, 1 failure of the connection, 1 panel | NoGaps, MirrorTrue, GraceMatchesConnection, Reconnects | what the broker has is in sequence and true, its lease too, the lease timer follows the connection, the client comes back |
| goal | 3 goals, 2 sessions, log of 3, 1 prompt in flight beside a continuation | NoFlood, NeverStalls, ShownGoalOnly | one continuation at a time, an active goal is asked again while its prompts reach it, a dialog changes only the goal it showed |
| goal_stuck | 2 goals | GoalGoesOn | *violated*: a continuation that did not reach its goal stops all later ones |

Why the bounds are enough. In the governor, six calls are two leases, three or
four waiters in different lines, and one more to be refused. Jobs do not
interact but through the list of waiters, so one of each kind and one waiter
show every race of a job with its own cancel, pause, delivery and shutdown. In
capacity, two slots and demands of 2, 1 and 1 make every request either fit, fit
after reclaiming, or be refused, with a request waiting behind another; one
session that no reservation counts is enough to fill what is left. In a
workflow, two tasks at once show one failing while the other runs, the foreach
adds a task of several runs, the second stage shows the gate, and a second
attempt reuses results of the first. In the router, capacity one with two tasks
makes models busy, three models in two quota groups allow a switch within a tier
and an escalation; the bound on switches is 1 instead of 3, which keeps "the last
switch" within reach. A provider run can only be disturbed by what the run before
it on the same process left in the pipes, so two calls show it; the second may
also be asked for while the first is running. Two background commands and one
slot let one wait for, move into or free the slot of the other; a third would
only repeat one of them. The third input of `LiveInputs` waits behind one that
was taken and one of another session, and two compactions are needed for the
timer of the first to meet the second. One failure of the connection can fall
into any state of it, and the session after it starts over. Three goals are the
one shown by a dialog, the one that replaced it, and one more from the other
dialog.

Bounds of the models, all in guards: MaxAttempts, MaxSwitches, MaxStray, MaxSessions,
MaxRuns, MaxCompactions, MaxCalls, MaxRevision (frames of a projector), MaxQueue
(frames in a buffer), MaxPanels (changes of a panel), MaxDrops (failures of the
connection), MaxGoals, MaxLog and MaxInFlight.

Deadlock is not checked where the system may come to rest: all jobs settled, all
tasks done, a workflow paused by a user who never comes back, a process that is
gone, a session after the last.

### Fairness

Liveness assumes weak fairness, and of these steps only:

- a lease is released: `service.start` releases it in a finally block
  (*W*/subagent-service.ts:717), and a run ends at the latest by its hard wall
  time (`workHardMs`);
- a child process that is told to stop is gone: SIGTERM, then SIGKILL after
  `shutdownTimeoutMs` (pi-rpc-process-provider.ts:442-470);
- continuations of settled promises run (microtasks), and timers fire;
- a broker that stays up welcomes who dials, and sockets drain;
- a run or a compaction of Pi ends, and a prompt that was sent is either handled
  or refused (LiveInputs, GoalSession).

Nothing is assumed of users, of the order of events, or of how a run ends. The
child process of ProviderRun need not answer, settle or exit unless it is killed.

## 4. What is proved

Every safety property that a run checks is also a theorem, with its proof in a
module `*_proofs`; so are the two refinements, the action properties, and some
invariants that no run checks. They hold for every value of the constants that
the named assumptions allow, that is, for any number of calls, jobs, sessions,
models, frames or goals, and not only for the instances of section 3.

| Module | Theorem | States | Along which invariant |
|---|---|---|---|
| ResourceGovernor_proofs | TypeCorrect, CapRespected, NoLostWakeUp, CountersExact, LinesConsistent | TypeOK, WithinLimits, WorkConserving, Accounting, QueuesConsistent and OnePlaceEach | `IInv` = TypeOK, Accounting, WithinLimits, WorkConserving, QueuesConsistent, OnePlaceEach |
| | AdmissionImplemented | ImplementsAdmission | `IInv`, and a step or a stutter of `Admission` for each action |
| | TwoTakeTurns | TakesTurns, for two subjects | `IInv` and `TInv` = PassedIsNext, LinesInWorkload |
| WorkbenchJobs_proofs | JobsTypeCorrect, WaitersWoken, NoticeAtMostOnce, NoticeNeverLost, SettledForGood | TypeOK, NoMissedWake, ToldOnce, NotLost, SettledOnce | `IInv` = TypeOK, NoMissedWake, ToldOnce, NotLost, OwedRightly |
| | PausedInStep | PauseInStep | TypeOK, `AllInStep` |
| ProviderCapacity_proofs | CapacityTypeCorrect, ReservationCounterExact, AdmittedFlowsFit | TypeOK, ReservationsExact, ReservedFits | `IInv` = TypeOK, FlowsBounded, FlowsInLine, RetainedInv, ServesFirst, ReservationsExact, ReservedFits |
| WorkflowRun_proofs | WorkflowTypeCorrect, StagesAreGates, CompletionIsWhole, ReuseIsFree, CompletedForGood, NothingCompletesLate | TypeOK, StageGate, CompletedMeansOver, ReusedNotRun, CompletedStays, NoLateCompletion | `IInv` = TypeOK, ReturnedHasResult, StagesInOrder, FlightInStage, TornFailed, LaterUntouched, ReusedNotRun, CompletedMeansOver, and that only a workflow past its stages is completed |
| | SessionsClosedAtEnd | ReturnedSessionsClosed | `IInv` and `SessionsInv` = LaterIdle, CompletedIsNamed, NoneLeft |
| ModelRouter_proofs | RouterTypeCorrect, ExactLeases, NoModelTwice, NoFailureShortens | TypeOK, LeasesExact, TriesEachOnce, CoolDownNotShortened | `IInv` = StateTypes, TaskTypes, PlansKept, LeaseWhileRunning, LeasesExact, FiniteExcluded, TriesEachOnce |
| ProviderRun_proofs | ProviderRunTypeCorrect, PermitWhileWorking, OwnResult | TypeOK, WorkHasPermit, ResultIsOwn | `IInv` = TypeOK, PromptInv, OneHolder, StateAsked |
| BackgroundCommands_proofs | CommandsTypeCorrect, NoProcessOrphaned, FirstReasonReported, FatesImplemented | TypeOK, NoOrphan, FirstReasonWins, ImplementsFates | `IInv` = CommandTypes, ManagerTypes, Owned, ShutdownInv, CountsInv |
| Session_proofs | InputsTypeCorrect, OneInputAtATime, InputsStayHome, NoneLostWithoutOverlap | TypeOK, OneAtATime, OwnSession, LostOnlyToOverlap | `IInv` = TypeOK, Line, OpenIsActive, NewUntaken, TakenAtHome, InOrder, CompactingCounted, MarkStands, LostOnlyToOverlap |
| | ConnectionTypeCorrect, NoGapsOnTheWire, DashboardTrue, LeaseTimerFollows | CTypeOK, NoGaps, MirrorTrue, GraceMatchesConnection | `ConnectionInv` = ConnectionTypes, Shape, InStep, NoGaps, GraceMatchesConnection |
| | GoalTypeCorrect, AgentNotFlooded, DialogsActOnWhatTheyShow | GTypeOK, NoFlood, ShownGoalOnly | `GoalInv` = GoalTypes, OneAsked |

### Why the invariants have these parts

- **Governor.** It counts waiters, so an invariant about the count needs to know
  that a waiter is in exactly one place of one line (OnePlaceEach) and that the
  rotation lists exactly the subjects with waiters (QueuesConsistent): then
  `drain` finds somebody whenever `queued > 0`, and a permit is never left free
  past a waiter. The same two facts make each step one of `Admission`: whom
  `Dequeue` takes is the head of the line of its subject, in the highest priority
  that has waiters. With two subjects, one that was passed over is the next in
  the rotation (PassedIsNext), also after the other left it and came back.
- **Jobs.** A notice is lost if a settled job is neither announced nor owed, so
  the invariant says who owes (OwedRightly). A job and its control can disagree
  only between the awaits of the body, so `AllInStep` ties the status to where the
  body stands.
- **Capacity.** The counter is a sum over workflows, so each step must be known to
  change one summand: a workflow stands in the line once and waits there
  (FlowsInLine), has no more runs with a session than runs (FlowsBounded), and a
  session is closed for the head of the line only (ServesFirst). ReservedFits
  counts one session for each run, and is kept because `providerCapacity` counts
  every session of a workflow, `stray` included, and because a conversation that
  was retained is never opened again (RetainedInv).
- **Workflow.** It does not suffice to know what runs: that nothing of a later
  stage has been touched (LaterUntouched) and that everything before the current
  one is over (StagesInOrder) is what carries from one stage to the next, also
  through a retry that enters in the middle. A run left behind by a malformed item
  stays in a stage that is not completed, behind which nothing starts, so the same
  invariant holds it back (FlightInStage). For the sessions, a completed run is
  known by the id of its session once its result was taken (CompletedIsNamed), and
  what is to come was not run yet (LaterIdle), so closing what is known closes all
  but the sessions of runs that were left behind.
- **Router.** The counter of a model is the number of tasks that run on it: a task
  has a lease exactly while it runs (LeaseWhileRunning). What a task excluded is
  finite, so that its size counts its switches.
- **Provider run.** Two calls meet at one process: at most one holds a permit
  (OneHolder), and of all requests, answers and outputs in the two pipes and in
  `pending` one prompt at most is unsettled, which is that of the call that runs
  (PromptInv). So an answer cannot be taken for that of another call.
- **Background commands.** A process that lives has a command that is starting or
  is registered (Owned); a shutdown waits for what was registered when it began
  and refuses what would start later (ShutdownInv); the slots are the calls under
  way (CountsInv), which is what `CommandFates` bounds.
- **Inputs.** All goes through one pass over the queue, `Drain`, so the lemmas are
  about that pass for any queue, active input and mark. An input is refused only
  without the mark of compaction, and MarkStands says that the mark stands while
  Pi compacts: the one timer of the session that could take it away belongs to the
  compaction under way. It holds up to the first overlap, which is what
  LostOnlyToOverlap excepts.
- **Connection.** What waits in the socket leads the broker from where it stands to
  where the bridge is (InStep). This needs what the broker makes of two batches of
  frames, one after the other (ReceivesJoined), since a full socket is drained in
  parts.
- **Goal.** A prompt in flight is that of `queuedGoalId`, or that was cleared too
  early, by a move of the tree or a typed prompt (OneAsked). That the log always
  replays to no goal or to one with an id is a lemma about `Replay`.

### What the theorems assume

What the modules assume of their constants, and nothing else: sets of calls,
commands, tasks, conversations and workflows are finite where they are counted;
limits and bounds are naturals, and positive where the code would otherwise do
nothing; a task without a foreach starts one run; no tier of a model file
escalates to itself (item 6 of section 5); the conversations that are open at
first are no more than the slots. TwoTakeTurns assumes two subjects,
because for three it is false (item 1 of section 5).

The proofs cover more than the runs check: types, Accounting, WithinLimits,
ToldOnce, SettledOnce, ReusedNotRun, CompletedStays and NoLateCompletion follow
for every instance and have no run of their own.

Where an induction is needed, it is carried out over the set of the numbers, or of
the subsets of a finite set, for which the statement holds, with the
well-foundedness of their order: an induction principle with an operator as its
parameter cannot be instantiated. BoundedInduction in `Session_proofs` is for the
frames of a batch and the entries of a log, SubsetInduction in
`ProviderCapacity_proofs` for sums.

### What is only model-checked

The properties under fairness: WaiterServed, CancelSettles, RequestsAnswered,
Finishes, InterruptedEnds, TaskEnds, RunReturns, StoppedCallsReturn,
ShutdownTerminates, QueueGoesOn, Reconnects and NeverStalls. Liveness and ENABLED
are out of the prover's reach, so for these the bounds of section 3 are what
there is.

## 5. What the models show of the code

The run `goal_stuck` is expected to fail: a comment says that only a pause or the
end of the goal stops the timer of continuations (goal/src/runtime.ts:294), but
the timer queues nothing while `queuedGoalId` is set (251), and only the arrival
of a prompt for that very goal clears it (134-136). A prompt that Pi refused, or
that came when another goal was active, leaves it set until the session or its
tree changes, or until a user types the text of a continuation when that goal is
active again (341). `NeverStalls` says what remains true.

Other behaviour that the models contain and that a reader of the code may not
expect. The properties are stated so that they hold with it:

1. **Rotation of three subjects** (resource-governor.ts:247). When the last
   waiter of a subject leaves, the cursor stays on the subject that slides into
   its place, and a subject that comes back is appended behind it. Of three
   subjects one can be served again and again past another that waits, so
   TakesTurns is claimed of two subjects only.
2. **A running conversation is reclaimed** (workbench-controller.ts:1376). The
   idle conversations are computed once; while the first is being closed the
   next may get a follow-up, and is closed all the same (ContinueRequest).
3. **Sessions of cancelled tasks** (workbench-controller.ts:1985). A run that
   throws leaves a result without the id of its session, and the sessions of
   workflows are never reclaimed: ReturnedSessionsClosed is about those of
   results only.
4. **A parked workflow and its caller** (workbench-controller.ts:1679). The abort
   of the calling tool sets the signal but does not wake a workflow that is
   parked at a pause: InterruptedEnds is about interruption only.
5. **A code task is done again** (workbench-controller.ts:863). Whether a thrown
   error came "before the child could do any work" is guessed from its text,
   which for a child that dies includes what it wrote to stderr (MaySwitchThrown).
6. **Escalation without end** (model-router.ts:529). Two tiers that escalate to
   each other pass the validation and make `acquire` loop without an await; the
   run `routing` has no such configuration.
7. **A manager that is bound to nothing** (manager.ts:251). A session that comes
   back from a reload while the clean-up of the reload is awaiting returns from
   `bindSession` at once; the clean-up then clears the session, and every start is
   refused until the next one.
8. **Inputs lost to overlapping compactions** (live-session/src/index.ts:498).
   The timer of one compaction takes away the mark of the next, and Pi then
   refuses the inputs that are sent: LostOnlyToOverlap says that nothing else
   loses one.
9. **A fork on a live connection** (live-session/src/index.ts:1057). The new
   projector starts its numbers again on the connection of the old one: NoGaps
   and MirrorTrue except it.
10. **A malformed item of a foreach** (workbench-controller.ts:1998). The templates
   of each item are resolved outside the inner `try` (1873), and a text that still
   contains braces is refused (workflow-expression.ts:142). `Promise.all` then
   rejects at once: the task, the stage and the workflow fail while the runs of
   the other items are in flight, and `iterations` (2001) is never set. StageGate
   says that they stay in their stage and that this stage is not completed;
   ReturnedSessionsClosed excepts their sessions, which nobody closes.
11. **More sessions than were reserved** (workbench-controller.ts:872). A switch of
   models after a throw opens a session beside one that may live on, and a run
   left behind (item 10) opens its session when the reservation was given back.
   ReservedFits counts one session for each run, and says that these fit; a run
   may still be refused its session if such a one took the slot.
12. **A lease that expires in a summary** (live-session/src/index.ts:598). On a new
   connection `claim_changed` goes ahead of the first snapshot; the broker ignores
   it, and the snapshot carries it again: NoGaps excepts it, MirrorTrue does not.
13. **A stopped client still listens** (live-session/src/client.ts:227). A welcome
   or a claim in its pipe acts on the lease of the next session while that one's
   client is not connected: the grace timer is stopped, or the lease is made
   without one. GraceMatchesConnection excepts these two and nothing else.
14. **A typed continuation** (goal/src/runtime.ts:341). The handler of `input` knows
   a continuation by its text, so one that a user types clears `queuedGoalId`
   while the prompt of the timer is under way, and a second may be sent: NoFlood
   excepts it, like a move in the tree.
15. **Unknown token counts** (auto-compact/src/index.ts:214). After a compaction
    the count is unknown, which counts as below the threshold and arms the
    trigger again.

## 6. Not modelled, and the plan

Left out for good: parsing and evaluation of expressions, transcripts, display,
storage formats, text search, secret scanning, web requests. Their correctness
is about data, not order. These are most of the lines of the repository: the
display packages and the two forks alone are larger than everything modelled.

Schedule, automatic compaction and the supervisor are small and sequential; each
has one hazard listed in `PROJECT.json`, which can be seen in one place of the
source, and a model would restate it. Memory changes its records in transactions
of SQLite, and the stores of the workbench rename finished files.

Of the modelled parts these are left out: in the controller the stall watchdogs,
transcripts and the ledger; in the provider the texts of events, usage, and
warnings that only report; in the goal its documents, progress and work graph; in
the live session the projection of entries and the context view. Runs that a
foreach left behind are not followed into a retry of their workflow, whose state
they cannot reach.

What is left to prove is liveness, which stays with TLC (section 4). What is left
to state are the hazards of `PROJECT.json` without a property: each is either
excepted by a property above on purpose (section 5), covered by a theorem that has
no run (section 4), or in a part that is not modelled.
