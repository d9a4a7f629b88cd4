----------------------------- MODULE CommandFates -----------------------------
(***************************************************************************)
(* What the manager of background commands promises to those who start     *)
(* commands, without processes, output files, sessions or shutdown: each   *)
(* command has one fate, its caller one answer, its end is told at most    *)
(* once, and never more than MaxConcurrent are in the background.          *)
(***************************************************************************)
EXTENDS Naturals, FiniteSets

CONSTANTS Commands, MaxConcurrent

VARIABLES
  fate,    \* new, starting, running, ended or refused
  place,   \* foreground or background
  answer,  \* what its caller was told
  told     \* how many messages have told the agent of its end

vars == <<fate, place, answer, told>>

Init ==
  /\ fate = [c \in Commands |-> "new"]
  /\ place \in [Commands -> {"foreground", "background"}]
  /\ answer = [c \in Commands |-> "none"]
  /\ told = [c \in Commands |-> 0]

InBackground ==
  {c \in Commands : place[c] = "background" /\ fate[c] \in {"starting", "running"}}

SlotFree == Cardinality(InBackground) < MaxConcurrent

Start(c) ==
  /\ fate[c] = "new"
  /\ place[c] = "background" => SlotFree
  /\ fate' = [fate EXCEPT ![c] = "starting"]
  /\ UNCHANGED <<place, answer, told>>

Refuse(c) ==
  /\ fate[c] \in {"new", "starting"}
  /\ fate' = [fate EXCEPT ![c] = "refused"]
  /\ answer' = [answer EXCEPT ![c] = "error"]
  /\ UNCHANGED <<place, told>>

\* The caller of a background command has its answer when the command runs.
Run(c) ==
  /\ fate[c] = "starting"
  /\ fate' = [fate EXCEPT ![c] = "running"]
  /\ answer' = [answer EXCEPT ![c] = IF place[c] = "background" THEN "background" ELSE @]
  /\ UNCHANGED <<place, told>>

Move(c) ==
  /\ fate[c] = "running"
  /\ place[c] = "foreground"
  /\ SlotFree
  /\ place' = [place EXCEPT ![c] = "background"]
  /\ answer' = [answer EXCEPT ![c] = "background"]
  /\ UNCHANGED <<fate, told>>

\* Commands in the background whose end nobody has told yet may be told of.
Tell ==
  \E S \in SUBSET {c \in Commands :
                     place[c] = "background" /\ fate'[c] = "ended" /\ told[c] = 0} :
    told' = [c \in Commands |-> IF c \in S THEN 1 ELSE told[c]]

End(c) ==
  /\ fate[c] = "running"
  /\ fate' = [fate EXCEPT ![c] = "ended"]
  /\ answer' = [answer EXCEPT ![c] = IF place[c] = "foreground" THEN "ended" ELSE @]
  /\ Tell
  /\ UNCHANGED place

TellLater == UNCHANGED <<fate, place, answer>> /\ Tell

Next ==
  \/ \E c \in Commands : Start(c) \/ Refuse(c) \/ Run(c) \/ Move(c) \/ End(c)
  \/ TellLater

Spec == Init /\ [][Next]_vars
=============================================================================
