------------------------------ MODULE GoalSession ------------------------------
(***************************************************************************)
(* The long-running goal of a session (goal/src).  Its state is what the   *)
(* entries on the present branch of the session add up to (state.ts); the  *)
(* user changes it by commands, some with a dialog (commands.ts), the      *)
(* agent by tools (tools.ts), and a timer asks the agent again and again   *)
(* to continue (runtime.ts).                                               *)
(*                                                                         *)
(* Pi is the environment: runs of the agent, compactions, the session and  *)
(* its tree.  A prompt sent while Pi compacts is refused, and the refusal  *)
(* is swallowed (live-session/src/index.ts:447-449).  The wording of a     *)
(* goal, its documents, progress and work graph are left out.              *)
(***************************************************************************)
EXTENDS Naturals, Sequences

CONSTANTS
  MaxGoals,     \* bound: goals created
  MaxLog,       \* bound: entries on a branch
  MaxOpened,    \* bound: sessions one after the other
  MaxInFlight   \* bound: continuation prompts under way when the tree is moved or a text typed

ASSUME GoalSessionAssumption ==
  {MaxGoals, MaxLog, MaxOpened, MaxInFlight} \subseteq Nat

VARIABLES
  log,            \* the goal entries on the branch
  ids,            \* goal ids handed out
  dialog,         \* what the user is asked: by a command, by a review of the agent's draft
  queuedGoalId,   \* of the runtime: whose continuation waits, 0 if none
  timer,          \* whether the continuation timer is set
  continuations,  \* continuation prompts between sendUserMessage and "input"
  open, opened,   \* whether a session is up, and how many were
  inRun, inCompaction,
  disturbed,      \* since queuedGoalId was set, a prompt did not reach its goal
  cleared         \* queuedGoalId was cleared with its prompt still under way

goalVars == <<log, ids>>
hostVars == <<open, opened, inRun, inCompaction>>
runtimeVars == <<queuedGoalId, timer, continuations, disturbed, cleared>>
gvars == <<goalVars, dialog, runtimeVars, hostVars>>

Dialogs == {"command", "review"}
NoGoal == [id |-> 0, status |-> "none"]
NoDialog == [kind |-> "none", shown |-> 0]

GTypeOK ==
  /\ log \in Seq([action : {"create", "replace", "pause", "resume", "clear", "complete"},
                  goal : 1..MaxGoals])
  /\ ids \in 0..MaxGoals
  /\ dialog \in [Dialogs -> [kind : {"none", "clear", "complete", "import", "review"},
                             shown : 0..MaxGoals]]
  /\ queuedGoalId \in 0..MaxGoals /\ continuations \in 0..MaxInFlight + 1
  /\ opened \in 0..MaxOpened
  /\ {timer, open, inRun, inCompaction, disturbed, cleared} \subseteq BOOLEAN

GInit ==
  /\ log = <<>> /\ ids = 0
  /\ dialog = [d \in Dialogs |-> NoDialog]
  /\ queuedGoalId = 0 /\ timer = FALSE /\ continuations = 0
  /\ open = FALSE /\ opened = 0 /\ inRun = FALSE /\ inCompaction = FALSE
  /\ disturbed = FALSE /\ cleared = FALSE

-----------------------------------------------------------------------------
(* State: reduceGoalState, loadGoalState, saveGoalState.                   *)

Entry(action, goal) == [action |-> action, goal |-> goal]

Turns(goal, from, to, id) ==
  IF goal.id = id /\ goal.status = from THEN [goal EXCEPT !.status = to] ELSE goal

Reduce(goal, e) ==
  CASE e.action = "create"   -> IF goal = NoGoal THEN [id |-> e.goal, status |-> "active"] ELSE goal
    [] e.action = "replace"  -> [id |-> e.goal, status |-> "active"]
    [] e.action = "pause"    -> Turns(goal, "active", "paused", e.goal)
    [] e.action = "resume"   -> Turns(goal, "paused", "active", e.goal)
    [] e.action = "complete" -> Turns(goal, "active", "complete", e.goal)
    [] e.action = "clear"    -> IF goal.id = e.goal THEN NoGoal ELSE goal

\* loadGoalState: the entries of the branch are replayed.
Replay(entries) ==
  LET after[k \in 0..Len(entries)] ==
        IF k = 0 THEN NoGoal ELSE Reduce(after[k - 1], entries[k])
  IN after[Len(entries)]

Goal == Replay(log)
Active == Goal.status = "active"

Saves(e) == Len(log) < MaxLog /\ log' = Append(log, e)

\* A new goal, in the place of the present one if there is one.
SavesNew ==
  /\ ids < MaxGoals /\ ids' = ids + 1
  /\ Saves(Entry(IF Goal = NoGoal THEN "create" ELSE "replace", ids'))

-----------------------------------------------------------------------------
(* Commands and dialogs.  A command waits until Pi is idle, and reads the  *)
(* goal then; nothing stops Pi while the dialog is open.                   *)

PiIdle == open /\ ~inRun /\ ~inCompaction

PauseCommand ==
  /\ PiIdle /\ Active
  /\ Saves(Entry("pause", Goal.id))
  /\ UNCHANGED <<ids, dialog, runtimeVars, hostVars>>

ResumeCommand ==
  /\ PiIdle /\ Goal.status = "paused"
  /\ Saves(Entry("resume", Goal.id))
  /\ UNCHANGED <<ids, dialog, runtimeVars, hostVars>>

Asks(d, kind) ==
  /\ dialog[d] = NoDialog
  /\ dialog' = [dialog EXCEPT ![d] = [kind |-> kind, shown |-> Goal.id]]
  /\ UNCHANGED <<goalVars, runtimeVars, hostVars>>

\* /goal clear, /goal complete, /goal import.
CommandAsks ==
  /\ PiIdle
  /\ \/ Goal # NoGoal /\ \E kind \in {"clear", "complete"} : Asks("command", kind)
     \/ Goal.status \in {"none", "active"} /\ Asks("command", "import")

\* propose_goal_draft, by the agent: the draft is reviewed.
DraftReviewed == open /\ inRun /\ Asks("review", "review")

\* Faulty variant: what was asked is done, to whatever goal there is now.
StillShownNotAsked(d) == TRUE

\* The goal that was shown is still the goal.
StillShown(d) == Goal.id = dialog[d].shown

Closes(d) ==
  /\ dialog[d] # NoDialog
  /\ dialog' = [dialog EXCEPT ![d] = NoDialog]
  /\ UNCHANGED <<runtimeVars, hostVars>>

\* The user agrees.
Confirmed(d) ==
  /\ Closes(d) /\ StillShown(d)
  /\ \/ /\ dialog[d].kind = "clear" /\ Goal # NoGoal
        /\ Saves(Entry("clear", Goal.id)) /\ UNCHANGED ids
     \/ /\ dialog[d].kind = "complete" /\ Active
        /\ Saves(Entry("complete", Goal.id)) /\ UNCHANGED ids
     \/ dialog[d].kind = "import" /\ Goal = NoGoal /\ SavesNew
     \/ dialog[d].kind = "review" /\ SavesNew

\* The user cancels, the goal is not what was shown, or an import only adds
\* documents to it.
Dismissed(d) == Closes(d) /\ UNCHANGED goalVars

-----------------------------------------------------------------------------
(* Tools of the agent.                                                     *)

CreateTool ==
  /\ inRun /\ Goal = NoGoal
  /\ SavesNew
  /\ UNCHANGED <<dialog, runtimeVars, hostVars>>

\* propose_goal_draft for an unattended /goal: no review.
DraftTool ==
  /\ inRun
  /\ SavesNew
  /\ UNCHANGED <<dialog, runtimeVars, hostVars>>

CompleteTool ==
  /\ inRun /\ Active
  /\ Saves(Entry("complete", Goal.id))
  /\ UNCHANGED <<ids, dialog, runtimeVars, hostVars>>

PauseTool ==
  /\ inRun /\ Active
  /\ Saves(Entry("pause", Goal.id))
  /\ UNCHANGED <<ids, dialog, runtimeVars, hostVars>>

-----------------------------------------------------------------------------
(* Continuation: scheduleGoalContinuation, maybeQueueGoalContinuation and  *)
(* the handler of "input".                                                 *)

\* Faulty variant: one waiting does not keep another from being queued.
MayQueueAlways == Active

MayQueue == Active /\ queuedGoalId = 0

\* The timer fires, queues a continuation if it may, and is set again.
ContinuationTimer ==
  /\ timer /\ continuations <= MaxInFlight
  /\ MayQueue
  /\ queuedGoalId' = Goal.id /\ continuations' = continuations + 1
  /\ UNCHANGED <<goalVars, dialog, timer, disturbed, cleared, hostVars>>

\* "input" with the text of a continuation: for the goal it was queued for it
\* is started; for a goal that is not active it goes no further; else it goes on.
Started == Active /\ queuedGoalId = Goal.id

ContinuationArrives ==
  /\ continuations > 0 /\ ~inCompaction
  /\ continuations' = continuations - 1
  /\ IF Started
     THEN queuedGoalId' = 0 /\ disturbed' = FALSE
     ELSE UNCHANGED queuedGoalId /\ disturbed' = (queuedGoalId # 0)
  /\ inRun' = (inRun \/ Active)
  /\ UNCHANGED <<goalVars, dialog, timer, cleared, open, opened, inCompaction>>

\* The handler knows a continuation by its text alone (341): one that the user
\* types counts as the one that was queued, which may still be under way.
ContinuationTyped ==
  /\ open /\ ~inCompaction
  /\ IF Started
     THEN queuedGoalId' = 0 /\ disturbed' = FALSE /\ cleared' = (cleared \/ continuations > 0)
     ELSE UNCHANGED <<queuedGoalId, disturbed, cleared>>
  /\ inRun' = (inRun \/ Active)
  /\ UNCHANGED <<goalVars, dialog, timer, continuations, open, opened, inCompaction>>

\* Pi compacts, and refuses it.
ContinuationRefused ==
  /\ continuations > 0 /\ inCompaction
  /\ continuations' = continuations - 1
  /\ disturbed' = (queuedGoalId # 0)
  /\ UNCHANGED <<goalVars, dialog, queuedGoalId, timer, cleared, hostVars>>

-----------------------------------------------------------------------------
(* Sessions, their tree, runs and compactions.                             *)

\* Faulty variant: what was queued before still counts as queued.
ForgetsNothing == UNCHANGED queuedGoalId /\ disturbed' = FALSE

\* hydrateGoalContinuationState and the like: prompts of before do not count.
Forgets == queuedGoalId' = 0 /\ disturbed' = FALSE

\* session_start, on the branch there was (a reload, a resume) or a new one.
GoalStart ==
  /\ ~open /\ opened < MaxOpened
  /\ open' = TRUE /\ opened' = opened + 1
  /\ log' \in {log, <<>>}
  /\ Forgets
  /\ timer' = TRUE
  /\ UNCHANGED <<ids, dialog, continuations, cleared, inRun, inCompaction>>

\* session_shutdown: prompts, dialogs, the run and the compaction end with it.
GoalShutdown ==
  /\ open
  /\ open' = FALSE /\ inRun' = FALSE /\ inCompaction' = FALSE
  /\ timer' = FALSE /\ Forgets
  /\ continuations' = 0 /\ cleared' = FALSE
  /\ dialog' = [d \in Dialogs |-> NoDialog]
  /\ UNCHANGED <<goalVars, opened>>

\* session_tree: the user goes back to an earlier entry.
SessionTree ==
  /\ PiIdle /\ continuations <= MaxInFlight
  /\ \E k \in 0..Len(log) : log' = SubSeq(log, 1, k)
  /\ Forgets
  /\ cleared' = (cleared \/ continuations > 0)
  /\ UNCHANGED <<ids, dialog, timer, continuations, hostVars>>

\* Any prompt that is not a continuation, those of a start or a draft included.
RunStarts ==
  /\ PiIdle
  /\ inRun' = TRUE
  /\ UNCHANGED <<goalVars, dialog, runtimeVars, open, opened, inCompaction>>

\* A review is part of the run that asked for it.
RunStops ==
  /\ inRun /\ dialog["review"] = NoDialog
  /\ inRun' = FALSE
  /\ UNCHANGED <<goalVars, dialog, runtimeVars, open, opened, inCompaction>>

CompactionStarts ==
  /\ open /\ ~inCompaction
  /\ inCompaction' = TRUE
  /\ UNCHANGED <<goalVars, dialog, runtimeVars, open, opened, inRun>>

CompactionStops ==
  /\ inCompaction
  /\ inCompaction' = FALSE
  /\ UNCHANGED <<goalVars, dialog, runtimeVars, open, opened, inRun>>

-----------------------------------------------------------------------------
GNext ==
  \/ PauseCommand \/ ResumeCommand \/ CommandAsks \/ DraftReviewed
  \/ \E d \in Dialogs : Confirmed(d) \/ Dismissed(d)
  \/ CreateTool \/ DraftTool \/ CompleteTool \/ PauseTool
  \/ ContinuationTimer \/ ContinuationArrives \/ ContinuationTyped \/ ContinuationRefused
  \/ GoalStart \/ GoalShutdown \/ SessionTree
  \/ RunStarts \/ RunStops \/ CompactionStarts \/ CompactionStops

\* Timers fire, prompts that were sent come by or are refused, and compactions end.
GFairness ==
  /\ WF_gvars(ContinuationTimer)
  /\ WF_gvars(ContinuationArrives \/ ContinuationRefused)
  /\ WF_gvars(CompactionStops)

GSpec == GInit /\ [][GNext]_gvars /\ GFairness

-----------------------------------------------------------------------------
(* Properties.                                                             *)

\* A goal that stays active is asked to continue, over and over, until a prompt
\* does not reach the goal it was queued for (runtime.ts:241-258, 303-318).
NeverStalls ==
  open /\ Active ~> continuations > 0 \/ disturbed \/ ~open \/ ~Active

\* One continuation is under way at a time, between sendUserMessage and "input",
\* unless what was queued was cleared before its prompt arrived, by a move of the
\* tree or by a user who typed the same text: the agent is not flooded
\* (duplicate-queue, runtime.ts:251).
NoFlood == continuations <= 1 \/ cleared

\* What a dialog asks is done to the goal it showed, and to no other: goals that
\* the agent, another dialog or the tree put in its place are left alone
\* (commands.ts:303, 401, 586).
ShownGoalOnly ==
  [][\A d \in Dialogs :
       dialog[d] # NoDialog /\ dialog'[d] = NoDialog /\ log' # log
         => Goal.id = dialog[d].shown]_gvars

\* What a comment says of the timer: only a pause or the end of the goal stops
\* it (runtime.ts:294).
GoalGoesOn == open /\ Active ~> continuations > 0 \/ ~open \/ ~Active
=============================================================================
