--------------------------- MODULE ProviderRun_proofs ---------------------------
(***************************************************************************)
(* Proofs about ProviderRun: the child works only for a call that holds a  *)
(* permit, and the result of a call is that of its own prompt, for any     *)
(* number of calls of one session.                                         *)
(*                                                                         *)
(* The argument follows the one prompt there is: it is sent, read, worked  *)
(* at and answered by agent_settled, and at each moment it is in at most   *)
(* one of these places, for the one call that is running.                  *)
(***************************************************************************)
EXTENDS ProviderRun, TLAPS

\* Where the prompts and the events agent_settled stand.
Prompts == {k \in 1..Len(inbox) : inbox[k].kind = "prompt"}
Endings == {k \in 1..Len(outbox) : outbox[k].what = "settled"}

\* There is at most one prompt that was not answered by agent_settled.
OnePrompt ==
  /\ \A k, l \in Prompts : k = l
  /\ \A k, l \in Endings : k = l
  /\ Prompts # {} => working = 0 /\ Endings = {}
  /\ working # 0 => Endings = {}

\* It is that of a call that is running.
PromptOfRunner ==
  /\ \A k \in Prompts : phase[inbox[k].call] = "running"
  /\ working # 0 => phase[working] = "running"
  /\ \A k \in Endings : /\ outbox[k].of.kind = "prompt"
                        /\ phase[outbox[k].of.call] = "running"

PromptInv == OnePrompt /\ PromptOfRunner

\* At most one call holds a permit, none before the process is spawned.
OneHolder ==
  /\ \A c, d \in Holding : c = d
  /\ proc = "none" => Holding = {}

\* Only the call that starts the process waits for its state.
StateAsked == \A r \in pending : r.kind = "state" => phase[r.call] = "starting"

IInv == TypeOK /\ PromptInv /\ OneHolder /\ StateAsked

-----------------------------------------------------------------------------
(* Requests, outputs and the two pipes.                                    *)

LEMMA RequestType ==
  ASSUME NEW kind \in {"state", "prompt", "abort", "stop", "beat"}, NEW c \in Calls
  PROVE  /\ Request(kind, c) \in Requests
         /\ Request(kind, c).kind = kind /\ Request(kind, c).call = c
BY DEF Request, Requests

LEMMA OutputType ==
  ASSUME NEW what \in {"ok", "error", "settled", "breach"}, NEW r \in Requests
  PROVE  /\ Output(what, r) \in Outputs
         /\ Output(what, r).what = what /\ Output(what, r).of = r
BY DEF Output, Outputs

\* The types of the two pipes, one by one.
LEMMA Types ==
  ASSUME TypeOK
  PROVE  /\ phase \in [Calls -> {"new", "queued", "starting", "running", "over"}]
         /\ answer \in [Calls -> {"none", "result", "error"}]
         /\ aborted \subseteq Calls /\ abortSent \subseteq Calls /\ timedOut \subseteq Calls
         /\ dead \in BOOLEAN /\ hung \in BOOLEAN
         /\ pending \subseteq Requests
         /\ inbox \in Seq(Requests) /\ outbox \in Seq(Outputs)
         /\ proc \in {"none", "up", "gone"} /\ working \in 0..MaxCalls
<1>1. aborted \in SUBSET Calls /\ abortSent \in SUBSET Calls /\ timedOut \in SUBSET Calls
  BY DEF TypeOK
<1>2. dead \in BOOLEAN /\ hung \in BOOLEAN
  BY DEF TypeOK
<1> QED BY <1>1, <1>2 DEF TypeOK

LEMMA ToTypes ==
  ASSUME phase \in [Calls -> {"new", "queued", "starting", "running", "over"}],
         answer \in [Calls -> {"none", "result", "error"}],
         aborted \subseteq Calls, abortSent \subseteq Calls, timedOut \subseteq Calls,
         dead \in BOOLEAN, hung \in BOOLEAN,
         pending \subseteq Requests,
         inbox \in Seq(Requests), outbox \in Seq(Outputs),
         proc \in {"none", "up", "gone"}, working \in 0..MaxCalls
  PROVE  TypeOK
<1>1. {aborted, abortSent, timedOut} \subseteq SUBSET Calls
  OBVIOUS
<1>2. {dead, hung} \subseteq BOOLEAN
  OBVIOUS
<1> QED BY <1>1, <1>2 DEF TypeOK

\* One request more that is no prompt.
LEMMA OtherSent ==
  ASSUME NEW r \in Requests, r.kind # "prompt", inbox \in Seq(Requests),
         inbox' = Append(inbox, r)
  PROVE  /\ inbox' \in Seq(Requests)
         /\ Prompts' = Prompts
         /\ \A k \in Prompts : inbox'[k] = inbox[k]
<1>1. inbox' \in Seq(Requests) /\ Len(inbox') = Len(inbox) + 1 /\ Len(inbox) \in Nat
  OBVIOUS
<1>2. \A k \in 1..Len(inbox) : inbox'[k] = inbox[k]
  OBVIOUS
<1>3. inbox'[Len(inbox) + 1] = r
  OBVIOUS
<1>4. Prompts' = Prompts
  BY <1>1, <1>2, <1>3 DEF Prompts
<1> QED BY <1>1, <1>2, <1>4 DEF Prompts

\* The first prompt of an inbox that has none.
LEMMA PromptSent ==
  ASSUME NEW c \in Calls, inbox \in Seq(Requests), Prompts = {},
         inbox' = Append(inbox, Request("prompt", c))
  PROVE  /\ inbox' \in Seq(Requests)
         /\ Prompts' = {Len(inbox) + 1}
         /\ inbox'[Len(inbox) + 1].call = c
<1>r. Request("prompt", c) \in Requests /\ Request("prompt", c).kind = "prompt" /\ Request("prompt", c).call = c
  BY RequestType
<1> DEFINE r == Request("prompt", c)
<1> HIDE DEF r
<1>a. inbox' = Append(inbox, r) /\ r \in Requests /\ r.kind = "prompt" /\ r.call = c
  BY <1>r DEF r
<1>1. inbox' \in Seq(Requests) /\ Len(inbox') = Len(inbox) + 1 /\ Len(inbox) \in Nat
  BY <1>a
<1>2. \A k \in 1..Len(inbox) : inbox'[k] = inbox[k]
  BY <1>a
<1>3. inbox'[Len(inbox) + 1] = r
  BY <1>a
<1>4. Prompts' = {Len(inbox) + 1}
  BY <1>1, <1>2, <1>3, <1>a DEF Prompts
<1> QED BY <1>1, <1>3, <1>4, <1>a

\* The child reads a request.
LEMMA InboxRead ==
  ASSUME inbox \in Seq(Requests), inbox # <<>>, inbox' = Tail(inbox)
  PROVE  /\ inbox' \in Seq(Requests) /\ Head(inbox) \in Requests
         /\ \A k \in Prompts' : k + 1 \in Prompts /\ inbox'[k] = inbox[k + 1]
         /\ Prompts' \subseteq Nat \ {0}
         /\ Head(inbox).kind = "prompt" => 1 \in Prompts
         /\ Head(inbox) = inbox[1]
<1>1. /\ inbox' \in Seq(Requests) /\ Len(inbox') = Len(inbox) - 1
      /\ Len(inbox) \in Nat \ {0} /\ Head(inbox) = inbox[1] /\ Head(inbox) \in Requests
  OBVIOUS
<1>2. \A k \in 1..Len(inbox') : inbox'[k] = inbox[k + 1]
  OBVIOUS
<1> QED BY <1>1, <1>2 DEF Prompts

\* The listener reads an output.
LEMMA OutboxRead ==
  ASSUME outbox \in Seq(Outputs), outbox # <<>>, outbox' = Tail(outbox)
  PROVE  /\ outbox' \in Seq(Outputs) /\ Head(outbox) \in Outputs
         /\ \A k \in Endings' : k + 1 \in Endings /\ outbox'[k] = outbox[k + 1]
         /\ Endings' \subseteq Nat \ {0}
         /\ Head(outbox).what = "settled" => 1 \in Endings
         /\ Head(outbox) = outbox[1]
<1>1. /\ outbox' \in Seq(Outputs) /\ Len(outbox') = Len(outbox) - 1
      /\ Len(outbox) \in Nat \ {0} /\ Head(outbox) = outbox[1] /\ Head(outbox) \in Outputs
  OBVIOUS
<1>2. \A k \in 1..Len(outbox') : outbox'[k] = outbox[k + 1]
  OBVIOUS
<1> QED BY <1>1, <1>2 DEF Endings

\* The child says something that ends no run.
LEMMA OtherSaid ==
  ASSUME NEW o \in Outputs, o.what # "settled", outbox \in Seq(Outputs),
         outbox' = outbox \o <<o>>
  PROVE  /\ outbox' \in Seq(Outputs)
         /\ Endings' = Endings
         /\ \A k \in Endings : outbox'[k] = outbox[k]
<1>1. outbox' \in Seq(Outputs) /\ Len(outbox') = Len(outbox) + 1 /\ Len(outbox) \in Nat
  OBVIOUS
<1>2. \A k \in 1..Len(outbox) : outbox'[k] = outbox[k]
  OBVIOUS
<1>3. outbox'[Len(outbox) + 1] = o
  OBVIOUS
<1>4. Endings' = Endings
  BY <1>1, <1>2, <1>3 DEF Endings
<1> QED BY <1>1, <1>2, <1>4 DEF Endings

\* The child says agent_settled, alone or before or after something else.
LEMMA SettledSaid ==
  ASSUME NEW s \in Outputs, s.what = "settled", NEW o \in Outputs, o.what # "settled",
         outbox \in Seq(Outputs), Endings = {},
         \/ outbox' = outbox \o <<s>>
         \/ outbox' = outbox \o <<s, o>>
         \/ outbox' = outbox \o <<o, s>>
  PROVE  /\ outbox' \in Seq(Outputs)
         /\ \E n \in Nat : Endings' = {n} /\ outbox'[n] = s
<1>n. Len(outbox) \in Nat
  OBVIOUS
<1>e. \A k \in 1..Len(outbox) : outbox[k].what # "settled"
  BY DEF Endings
<1>1. CASE outbox' = outbox \o <<s>>
  <2>1. outbox' \in Seq(Outputs) /\ Len(outbox') = Len(outbox) + 1
    BY <1>1
  <2>2. /\ \A k \in 1..Len(outbox) : outbox'[k] = outbox[k]
        /\ outbox'[Len(outbox) + 1] = s
    BY <1>1
  <2>e. \A k \in 1..Len(outbox') : outbox'[k].what = "settled" <=> k = Len(outbox) + 1
    <3> SUFFICES ASSUME NEW k \in 1..Len(outbox')
                 PROVE  outbox'[k].what = "settled" <=> k = Len(outbox) + 1
      OBVIOUS
    <3>1. CASE k = Len(outbox) + 1
      BY <3>1, <2>2
    <3>2. CASE k # Len(outbox) + 1
      <4>1. k \in 1..Len(outbox) 
        BY <3>2, <2>1, <1>n
      <4> QED BY <4>1, <3>2, <2>2, <1>e
    <3> QED BY <3>1, <3>2
  <2>f. Len(outbox) + 1 \in 1..Len(outbox')
    BY <2>1, <1>n
  <2>3. Endings' = {Len(outbox) + 1}
    BY ONLY <2>e, <2>f DEF Endings
  <2>4. Len(outbox) + 1 \in Nat
    BY <1>n
  <2> QED BY ONLY <2>1, <2>2, <2>3, <2>4, Zenon
<1>2. CASE outbox' = outbox \o <<s, o>>
  <2>1. outbox' \in Seq(Outputs) /\ Len(outbox') = Len(outbox) + 2
    BY <1>2
  <2>2. /\ \A k \in 1..Len(outbox) : outbox'[k] = outbox[k]
        /\ outbox'[Len(outbox) + 1] = s /\ outbox'[Len(outbox) + 2] = o
    BY <1>2
  <2>e. \A k \in 1..Len(outbox') : outbox'[k].what = "settled" <=> k = Len(outbox) + 1
    <3> SUFFICES ASSUME NEW k \in 1..Len(outbox')
                 PROVE  outbox'[k].what = "settled" <=> k = Len(outbox) + 1
      OBVIOUS
    <3>1. CASE k = Len(outbox) + 1
      BY <3>1, <2>2
    <3>2. CASE k # Len(outbox) + 1
      <4>1. k \in 1..Len(outbox) \/ k = Len(outbox) + 2
        BY <3>2, <2>1, <1>n
      <4> QED BY <4>1, <3>2, <2>2, <1>e
    <3> QED BY <3>1, <3>2
  <2>f. Len(outbox) + 1 \in 1..Len(outbox')
    BY <2>1, <1>n
  <2>3. Endings' = {Len(outbox) + 1}
    BY ONLY <2>e, <2>f DEF Endings
  <2>4. Len(outbox) + 1 \in Nat
    BY <1>n
  <2> QED BY ONLY <2>1, <2>2, <2>3, <2>4, Zenon
<1>3. CASE outbox' = outbox \o <<o, s>>
  <2>1. outbox' \in Seq(Outputs) /\ Len(outbox') = Len(outbox) + 2
    BY <1>3
  <2>2. /\ \A k \in 1..Len(outbox) : outbox'[k] = outbox[k]
        /\ outbox'[Len(outbox) + 1] = o /\ outbox'[Len(outbox) + 2] = s
    BY <1>3
  <2>e. \A k \in 1..Len(outbox') : outbox'[k].what = "settled" <=> k = Len(outbox) + 2
    BY <2>1, <2>2, <1>n, <1>e
  <2>f. Len(outbox) + 2 \in 1..Len(outbox')
    BY <2>1, <1>n
  <2>3. Endings' = {Len(outbox) + 2}
    BY ONLY <2>e, <2>f DEF Endings
  <2>4. Len(outbox) + 2 \in Nat
    BY <1>n
  <2> QED BY ONLY <2>1, <2>2, <2>3, <2>4, Zenon
<1> QED BY <1>1, <1>2, <1>3

-----------------------------------------------------------------------------
(* What becomes of the prompt.                                             *)

\* The calls that the prompts and the events are of.
LEMMA CallsOf ==
  ASSUME inbox \in Seq(Requests), outbox \in Seq(Outputs), working \in 0..MaxCalls
  PROVE  /\ \A k \in Prompts : inbox[k].call \in Calls
         /\ \A k \in Endings : outbox[k] \in Outputs /\ outbox[k].of.call \in Calls
         /\ working # 0 => working \in Calls
<1>1. \A r \in Requests : r.call \in Calls
  BY DEF Requests
<1>2. \A o \in Outputs : o.of \in Requests
  BY DEF Outputs
<1>3. \A k \in 1..Len(inbox) : inbox[k] \in Requests
  OBVIOUS
<1>4. \A k \in 1..Len(outbox) : outbox[k] \in Outputs
  OBVIOUS
<1>5. working # 0 => working \in Calls
  BY ProviderRunAssumption DEF Calls
<1>6. \A k \in Prompts : inbox[k].call \in Calls
  BY <1>1, <1>3 DEF Prompts
<1>7. \A k \in Endings : outbox[k] \in Outputs /\ outbox[k].of.call \in Calls
  BY <1>1, <1>2, <1>4 DEF Endings
<1> QED BY <1>5, <1>6, <1>7

\* No prompt is left when no call is running.
LEMMA NoPrompt ==
  ASSUME PromptInv, \A c \in Calls : phase[c] # "running", TypeOK
  PROVE  Prompts = {} /\ working = 0 /\ Endings = {}
<1>t. inbox \in Seq(Requests) /\ outbox \in Seq(Outputs) /\ working \in 0..MaxCalls
  BY Types
<1> QED BY <1>t, CallsOf DEF PromptInv, PromptOfRunner

\* Steps that leave the prompt where it is, or move what is before it.
LEMMA PromptStays ==
  ASSUME TypeOK, PromptInv,
         \A c \in Calls : phase[c] = "running" => phase'[c] = "running",
         inbox' = inbox \/ \E r \in Requests : r.kind # "prompt" /\ inbox' = Append(inbox, r),
         outbox' = outbox \/ (outbox # <<>> /\ outbox' = Tail(outbox)),
         working' = working
  PROVE  PromptInv' /\ inbox' \in Seq(Requests) /\ outbox' \in Seq(Outputs)
<1>t. inbox \in Seq(Requests) /\ outbox \in Seq(Outputs) /\ working \in 0..MaxCalls
  BY Types
<1>c. /\ \A k \in Prompts : inbox[k].call \in Calls
      /\ \A k \in Endings : outbox[k].of.call \in Calls
      /\ working # 0 => working \in Calls
  BY <1>t, CallsOf
<1>1. /\ inbox' \in Seq(Requests) /\ Prompts' = Prompts
      /\ \A k \in Prompts : inbox'[k] = inbox[k]
  <2>1. CASE inbox' = inbox
    BY <2>1, <1>t DEF Prompts
  <2>2. ASSUME NEW r \in Requests, r.kind # "prompt", inbox' = Append(inbox, r)
        PROVE  /\ inbox' \in Seq(Requests) /\ Prompts' = Prompts
               /\ \A k \in Prompts : inbox'[k] = inbox[k]
    BY <2>2, <1>t, OtherSent
  <2> QED BY <2>1, <2>2
<1>2. CASE outbox' = outbox
  <2>1. Endings' = Endings
    BY <1>2 DEF Endings
  <2> QED BY <1>1, <1>2, <1>c, <1>t, <2>1 DEF PromptInv, OnePrompt, PromptOfRunner
<1>3. CASE outbox # <<>> /\ outbox' = Tail(outbox)
  <2>1. /\ outbox' \in Seq(Outputs)
        /\ \A k \in Endings' : k + 1 \in Endings /\ outbox'[k] = outbox[k + 1]
        /\ Endings' \subseteq Nat \ {0}
    BY <1>3, <1>t, OutboxRead
  <2>2. OnePrompt'
    BY <1>1, <2>1 DEF PromptInv, OnePrompt
  <2>3. PromptOfRunner'
    BY <1>1, <1>c, <2>1 DEF PromptInv, PromptOfRunner
  <2> QED BY <1>1, <2>1, <2>2, <2>3 DEF PromptInv
<1> QED BY <1>2, <1>3

\* A prompt is sent when no call was running.
LEMMA PromptStarts ==
  ASSUME TypeOK, NEW c \in Calls, Prompts = {}, working = 0, Endings = {},
         phase'[c] = "running", working' = 0,
         inbox' = inbox \/ inbox' = Append(inbox, Request("prompt", c)),
         outbox' = outbox \/ (outbox # <<>> /\ outbox' = Tail(outbox))
  PROVE  PromptInv' /\ inbox' \in Seq(Requests) /\ outbox' \in Seq(Outputs)
<1>t. inbox \in Seq(Requests) /\ outbox \in Seq(Outputs)
  BY Types
<1>1. Endings' = {} /\ outbox' \in Seq(Outputs)
  <2>1. CASE outbox' = outbox
    BY <2>1, <1>t DEF Endings
  <2>2. CASE outbox # <<>> /\ outbox' = Tail(outbox)
    BY <2>2, <1>t, OutboxRead
  <2> QED BY <2>1, <2>2
<1>2. CASE inbox' = inbox
  <2>1. Prompts' = {}
    BY <1>2 DEF Prompts
  <2> QED BY <1>1, <1>2, <1>t, <2>1 DEF PromptInv, OnePrompt, PromptOfRunner
<1>3. CASE inbox' = Append(inbox, Request("prompt", c))
  <2>1. PICK n : Prompts' = {n} /\ inbox'[n].call = c /\ inbox' \in Seq(Requests)
    BY <1>3, <1>t, PromptSent
  <2> QED BY <1>1, <2>1 DEF PromptInv, OnePrompt, PromptOfRunner
<1> QED BY <1>2, <1>3

\* Nothing is left of it.
LEMMA PromptGone ==
  ASSUME Prompts' = {}, working' = 0, Endings' = {}
  PROVE  PromptInv'
BY DEF PromptInv, OnePrompt, PromptOfRunner

-----------------------------------------------------------------------------
(* The steps.                                                              *)

\* Only a call that is running leaves off with a prompt: a call that no longer
\* holds its permit, or gets it, was at a point where it had sent none.
LEMMA SendsOther ==
  ASSUME TypeOK, NEW kind \in {"state", "abort", "stop", "beat"}, NEW c \in Calls,
         NEW rest \in SUBSET Requests, Sends(kind, c, rest)
  PROVE  /\ inbox' = inbox \/ \E r \in Requests : r.kind # "prompt" /\ inbox' = Append(inbox, r)
         /\ pending' \subseteq Requests
         /\ \A r \in pending' : r \in rest \/ (r.kind = kind /\ r.call = c)
<1>1. Request(kind, c) \in Requests /\ Request(kind, c).kind = kind /\ Request(kind, c).call = c
  BY RequestType
<1>2. kind # "prompt"
  OBVIOUS
<1>3. CASE dead
  BY <1>3 DEF Sends
<1>4. CASE ~dead
  <2>1. pending' = rest \cup {Request(kind, c)} /\ inbox' = Append(inbox, Request(kind, c))
    BY <1>4 DEF Sends
  <2> QED BY <2>1, <1>1, <1>2
<1> QED BY <1>3, <1>4

LEMMA SendsPrompt ==
  ASSUME TypeOK, NEW c \in Calls, NEW rest \in SUBSET Requests, Sends("prompt", c, rest)
  PROVE  /\ inbox' = inbox \/ inbox' = Append(inbox, Request("prompt", c))
         /\ pending' \subseteq Requests
         /\ \A r \in pending' : r \in rest \/ r.kind # "state"
<1>1. Request("prompt", c) \in Requests /\ Request("prompt", c).kind = "prompt"
  BY RequestType
<1>3. CASE dead
  BY <1>3 DEF Sends
<1>4. CASE ~dead
  <2>1. pending' = rest \cup {Request("prompt", c)} /\ inbox' = Append(inbox, Request("prompt", c))
    BY <1>4 DEF Sends
  <2> QED BY <2>1, <1>1
<1> QED BY <1>3, <1>4

\* Steps at which every call goes on as it is, and that send nothing but
\* requests that are no prompt.
LEMMA SameCalls ==
  ASSUME IInv, phase' = phase, answer' = answer,
         aborted' \subseteq Calls, abortSent' \subseteq Calls, timedOut' \subseteq Calls,
         dead' \in BOOLEAN, hung' \in BOOLEAN,
         inbox' = inbox \/ \E r \in Requests : r.kind # "prompt" /\ inbox' = Append(inbox, r),
         outbox' = outbox \/ (outbox # <<>> /\ outbox' = Tail(outbox)),
         working' = working, proc' = proc,
         pending' \subseteq Requests,
         \A r \in pending' : r \in pending \/ r.kind # "state"
  PROVE  IInv'
<1>t. TypeOK /\ PromptInv /\ OneHolder /\ StateAsked
  BY DEF IInv
<1>1. PromptInv' /\ inbox' \in Seq(Requests) /\ outbox' \in Seq(Outputs)
  BY <1>t, PromptStays
<1>2. TypeOK'
  <2>1. /\ phase' \in [Calls -> {"new", "queued", "starting", "running", "over"}]
        /\ answer' \in [Calls -> {"none", "result", "error"}]
        /\ proc' \in {"none", "up", "gone"} /\ working' \in 0..MaxCalls
    BY <1>t, Types
  <2> QED BY <1>1, <2>1, ToTypes DEF TypeOK
<1>3. OneHolder'
  BY <1>t DEF OneHolder, Holding
<1>4. StateAsked'
  BY <1>t DEF StateAsked
<1> QED BY <1>1, <1>2, <1>3, <1>4 DEF IInv

\* A call that is not running is queued, or over.
LEMMA CallLeaves ==
  ASSUME IInv, NEW c \in Calls, phase[c] # "running", NEW p \in {"queued", "over"},
         phase' = [phase EXCEPT ![c] = p],
         answer' \in [Calls -> {"none", "result", "error"}],
         aborted' \subseteq Calls, abortSent' = abortSent, timedOut' = timedOut,
         dead' \in BOOLEAN, hung' = hung, working' = working, proc' = proc, inbox' = inbox,
         outbox' = outbox \/ (outbox # <<>> /\ outbox' = Tail(outbox)),
         pending' \subseteq pending, StateAsked'
  PROVE  IInv'
<1>t. TypeOK /\ PromptInv /\ OneHolder
  BY DEF IInv
<1>p. /\ phase \in [Calls -> {"new", "queued", "starting", "running", "over"}]
      /\ phase' \in [Calls -> {"new", "queued", "starting", "running", "over"}]
      /\ \A d \in Calls : phase[d] = "running" => phase'[d] = "running"
      /\ Holding' \subseteq Holding
  <2>1. phase \in [Calls -> {"new", "queued", "starting", "running", "over"}]
    BY <1>t, Types
  <2> QED BY <2>1 DEF Holding
<1>1. PromptInv' /\ inbox' \in Seq(Requests) /\ outbox' \in Seq(Outputs)
  BY <1>t, <1>p, PromptStays
<1>2. TypeOK'
  <2>1. /\ proc' \in {"none", "up", "gone"} /\ working' \in 0..MaxCalls
        /\ abortSent' \subseteq Calls /\ timedOut' \subseteq Calls
        /\ hung' \in BOOLEAN /\ pending' \subseteq Requests
    BY <1>t, Types
  <2> QED BY <1>1, <1>p, <2>1, ToTypes DEF TypeOK
<1>3. OneHolder'
  BY <1>t, <1>p DEF OneHolder
<1> QED BY <1>1, <1>2, <1>3 DEF IInv

\* The head of runPrompt.
LEMMA BeginsKeeps ==
  ASSUME IInv, NEW c \in Calls, phase[c] # "running", Holding \subseteq {c}, proc # "none",
         NEW rest \in SUBSET pending, \A r \in rest : r.kind # "state",
         Begins(c, rest),
         outbox' = outbox \/ (outbox # <<>> /\ outbox' = Tail(outbox)),
         UNCHANGED <<aborted, abortSent, timedOut, dead, proc, hung, working>>
  PROVE  IInv'
<1>t. TypeOK /\ PromptInv /\ OneHolder
  BY DEF IInv
<1>p. /\ phase \in [Calls -> {"new", "queued", "starting", "running", "over"}]
      /\ answer \in [Calls -> {"none", "result", "error"}]
      /\ dead \in BOOLEAN /\ hung \in BOOLEAN
      /\ aborted \subseteq Calls /\ abortSent \subseteq Calls /\ timedOut \subseteq Calls
      /\ pending \subseteq Requests
  BY <1>t, Types
<1>1. CASE c \in aborted
  <2>1. /\ phase' = [phase EXCEPT ![c] = "over"] /\ answer' = [answer EXCEPT ![c] = "error"]
        /\ pending' = rest /\ inbox' = inbox
    BY <1>1 DEF Begins, Settles
  <2>2. answer' \in [Calls -> {"none", "result", "error"}]
    BY <2>1, <1>p
  <2>3. StateAsked'
    BY <2>1 DEF StateAsked
  <2> QED BY <2>1, <2>2, <2>3, <1>p, CallLeaves
<1>2. CASE c \notin aborted
  <2>1. /\ phase' = [phase EXCEPT ![c] = "running"] /\ answer' = answer
        /\ Sends("prompt", c, rest)
    BY <1>2 DEF Begins
  <2>2. rest \in SUBSET Requests
    BY <1>p
  <2>3. /\ inbox' = inbox \/ inbox' = Append(inbox, Request("prompt", c))
        /\ pending' \subseteq Requests
        /\ \A r \in pending' : r.kind # "state"
    BY <2>1, <2>2, <1>t, SendsPrompt
  <2>4. \A d \in Calls : phase[d] # "running"
    BY DEF Holding
  <2>5. Prompts = {} /\ working = 0 /\ Endings = {}
    BY <2>4, <1>t, NoPrompt
  <2>6. /\ phase'[c] = "running"
        /\ phase' \in [Calls -> {"new", "queued", "starting", "running", "over"}]
        /\ \A d \in Calls : d # c => phase'[d] = phase[d]
    BY <2>1, <1>p
  <2>7. PromptInv' /\ inbox' \in Seq(Requests) /\ outbox' \in Seq(Outputs)
    BY <2>3, <2>5, <2>6, <1>t, PromptStarts
  <2>8. TypeOK'
    <3>1. proc' \in {"none", "up", "gone"} /\ working' \in 0..MaxCalls
      BY <1>t, Types
    <3> QED BY <3>1, <1>p, <2>1, <2>3, <2>6, <2>7, ToTypes DEF TypeOK
  <2>9. OneHolder'
    BY <2>6 DEF OneHolder, Holding
  <2> QED BY <2>3, <2>7, <2>8, <2>9 DEF IInv, StateAsked
<1> QED BY <1>1, <1>2

LEMMA SpawnsKeeps == ASSUME IInv, NEW c \in Calls, Spawns(c) PROVE IInv'
<1>t. TypeOK /\ PromptInv /\ OneHolder /\ StateAsked
  BY DEF IInv
<1>p. /\ phase \in [Calls -> {"new", "queued", "starting", "running", "over"}]
      /\ answer \in [Calls -> {"none", "result", "error"}]
      /\ dead \in BOOLEAN /\ hung \in BOOLEAN
      /\ aborted \subseteq Calls /\ abortSent \subseteq Calls /\ timedOut \subseteq Calls
      /\ pending \subseteq Requests /\ working \in 0..MaxCalls
  BY <1>t, Types
<1>1. /\ phase[c] = "queued" /\ proc = "none" /\ proc' = "up"
      /\ phase' = [phase EXCEPT ![c] = "starting"]
      /\ Sends("state", c, pending)
      /\ UNCHANGED <<answer, aborted, abortSent, timedOut, dead, outbox, hung, working>>
  BY DEF Spawns
<1>2. /\ inbox' = inbox \/ \E r \in Requests : r.kind # "prompt" /\ inbox' = Append(inbox, r)
      /\ pending' \subseteq Requests
      /\ \A r \in pending' : r \in pending \/ (r.kind = "state" /\ r.call = c)
  BY <1>1, <1>p, <1>t, SendsOther
<1>3. /\ phase' \in [Calls -> {"new", "queued", "starting", "running", "over"}]
      /\ \A d \in Calls : d # c => phase'[d] = phase[d]
      /\ phase'[c] = "starting"
  BY <1>1, <1>p
<1>4. PromptInv' /\ inbox' \in Seq(Requests) /\ outbox' \in Seq(Outputs)
  BY <1>1, <1>2, <1>3, <1>t, PromptStays
<1>5. TypeOK'
  BY <1>1, <1>2, <1>3, <1>4, <1>p, ToTypes DEF TypeOK
<1>6. OneHolder'
  BY <1>1, <1>3, <1>t DEF OneHolder, Holding
<1>7. StateAsked'
  <2>1. \A r \in pending : r.call \in Calls
    BY <1>p DEF Requests
  <2> QED BY <2>1, <1>1, <1>2, <1>3, <1>t DEF StateAsked
<1> QED BY <1>4, <1>5, <1>6, <1>7 DEF IInv

\* The event agent_settled that is read is that of the one call that runs.
LEMMA SettledIsOwn ==
  ASSUME IInv, outbox # <<>>, Head(outbox).what = "settled",
         NEW c \in Calls, phase[c] = "running"
  PROVE  Head(outbox) = Output("settled", Request("prompt", c))
<1>t. TypeOK /\ PromptInv /\ OneHolder
  BY DEF IInv
<1>s. inbox \in Seq(Requests) /\ outbox \in Seq(Outputs) /\ working \in 0..MaxCalls
  BY <1>t, Types
<1>1. 1 \in Endings /\ Head(outbox) = outbox[1]
  <2>1. Len(outbox) \in Nat \ {0} /\ Head(outbox) = outbox[1]
    BY <1>s
  <2> QED BY <2>1 DEF Endings
<1>2. outbox[1].of.kind = "prompt" /\ phase[outbox[1].of.call] = "running"
  BY <1>1, <1>t DEF PromptInv, PromptOfRunner
<1>3. outbox[1] \in Outputs /\ outbox[1].of.call \in Calls
  BY <1>1, <1>s, CallsOf
<1>4. outbox[1].of.call = c
  BY <1>2, <1>3, <1>t DEF OneHolder, Holding
<1> QED BY <1>1, <1>2, <1>3, <1>4 DEF Output, Outputs, Request, Requests

LEMMA ReadsSettledKeeps == ASSUME IInv, ReadsSettled PROVE IInv'
<1>t. TypeOK /\ PromptInv /\ OneHolder /\ StateAsked
  BY DEF IInv
<1>p. /\ phase \in [Calls -> {"new", "queued", "starting", "running", "over"}]
      /\ answer \in [Calls -> {"none", "result", "error"}]
      /\ dead \in BOOLEAN /\ hung \in BOOLEAN
      /\ aborted \subseteq Calls /\ abortSent \subseteq Calls /\ timedOut \subseteq Calls
      /\ pending \subseteq Requests /\ working \in 0..MaxCalls
      /\ inbox \in Seq(Requests) /\ outbox \in Seq(Outputs) /\ proc \in {"none", "up", "gone"}
  BY <1>t, Types
<1>1. /\ outbox # <<>> /\ Head(outbox).what = "settled" /\ outbox' = Tail(outbox)
      /\ UNCHANGED <<pending, inbox, proc, hung, working>>
  BY DEF ReadsSettled
<1>2. CASE UNCHANGED <<phase, answer, aborted, abortSent, timedOut>> /\ dead' \in BOOLEAN
  BY <1>1, <1>2, <1>p, SameCalls
<1>3. ASSUME NEW c \in Calls, phase[c] = "running", NEW a \in {"error", "result"}, Settles(c, a),
             UNCHANGED <<aborted, abortSent, timedOut, dead>>
      PROVE  IInv'
  <2>1. /\ phase' = [phase EXCEPT ![c] = "over"] /\ answer' = [answer EXCEPT ![c] = a]
    BY <1>3 DEF Settles
  <2>2. /\ phase' \in [Calls -> {"new", "queued", "starting", "running", "over"}]
        /\ answer' \in [Calls -> {"none", "result", "error"}]
        /\ \A d \in Calls : d # c => phase'[d] = phase[d]
        /\ phase'[c] = "over"
    BY <2>1, <1>p
  <2>3. /\ outbox' \in Seq(Outputs)
        /\ \A k \in Endings' : k + 1 \in Endings /\ outbox'[k] = outbox[k + 1]
        /\ Endings' \subseteq Nat \ {0} /\ 1 \in Endings
    BY <1>1, <1>p, OutboxRead
  <2>4. Endings' = {} /\ Prompts = {} /\ working = 0
    BY <2>3, <1>t DEF PromptInv, OnePrompt
  <2>5. Prompts' = {}
    BY <2>4, <1>1 DEF Prompts
  <2>6. PromptInv'
    BY <2>4, <2>5, <1>1, PromptGone
  <2>7. TypeOK'
    BY <2>2, <2>3, <1>1, <1>3, <1>p, ToTypes DEF TypeOK
  <2>8. OneHolder'
    BY <2>2, <1>1, <1>t DEF OneHolder, Holding
  <2>9. StateAsked'
    <3>1. \A r \in pending : r.call \in Calls
      BY <1>p DEF Requests
    <3> QED BY <3>1, <2>2, <1>1, <1>3, <1>t DEF StateAsked
  <2> QED BY <2>6, <2>7, <2>8, <2>9 DEF IInv
<1>4. CASE \E c \in Calls : phase[c] = "running" /\ Settled(c)
  <2> PICK c \in Calls : phase[c] = "running" /\ Settled(c)
    BY <1>4
  <2>1. CASE c \in timedOut
    BY <2>1, <1>2 DEF Settled, Terminates, Invalidates, callVars
  <2>2. CASE c \notin timedOut
    <3>1. /\ Settles(c, IF c \in aborted THEN "error" ELSE "result")
          /\ UNCHANGED <<aborted, abortSent, timedOut, dead>>
      BY <2>2 DEF Settled
    <3>2. CASE c \in aborted
      <4>1. Settles(c, "error")
        BY <3>1, <3>2
      <4> QED BY <4>1, <3>1, <1>3
    <3>3. CASE c \notin aborted
      <4>1. Settles(c, "result")
        BY <3>1, <3>3
      <4> QED BY <4>1, <3>1, <1>3
    <3> QED BY <3>2, <3>3
  <2> QED BY <2>1, <2>2
<1> QED BY <1>1, <1>2, <1>4, <1>p DEF ReadsSettled, callVars

-----------------------------------------------------------------------------
(* The steps of the child.                                                 *)

\* What a step of the child leaves alone, and what it has to keep.
LEMMA ChildKeeps ==
  ASSUME IInv, UNCHANGED <<callVars, dead, pending, proc>>, hung' \in BOOLEAN,
         inbox' \in Seq(Requests), outbox' \in Seq(Outputs), working' \in 0..MaxCalls,
         PromptInv'
  PROVE  IInv'
<1>1. TypeOK'
  <2>1. /\ phase' \in [Calls -> {"new", "queued", "starting", "running", "over"}]
        /\ answer' \in [Calls -> {"none", "result", "error"}]
        /\ aborted' \subseteq Calls /\ abortSent' \subseteq Calls /\ timedOut' \subseteq Calls
        /\ dead' \in BOOLEAN /\ pending' \subseteq Requests /\ proc' \in {"none", "up", "gone"}
    BY Types DEF IInv, callVars
  <2> QED BY <2>1, ToTypes DEF TypeOK
<1>2. OneHolder' /\ StateAsked'
  BY DEF IInv, OneHolder, StateAsked, Holding, callVars
<1> QED BY <1>1, <1>2 DEF IInv

LEMMA ChildAnswersKeeps == ASSUME IInv, ChildAnswers PROVE IInv'
<1>t. TypeOK /\ PromptInv
  BY DEF IInv
<1>p. inbox \in Seq(Requests) /\ outbox \in Seq(Outputs) /\ working \in 0..MaxCalls /\ hung \in BOOLEAN
  BY <1>t, Types
<1> DEFINE r == Head(inbox)
<1>1. /\ inbox # <<>> /\ inbox' = Tail(inbox)
      /\ UNCHANGED <<callVars, dead, pending, proc, hung>>
  BY DEF ChildAnswers, Reads
<1>2. /\ inbox' \in Seq(Requests) /\ r \in Requests
      /\ \A k \in Prompts' : k + 1 \in Prompts /\ inbox'[k] = inbox[k + 1]
      /\ Prompts' \subseteq Nat \ {0}
      /\ r.kind = "prompt" => 1 \in Prompts
      /\ r = inbox[1]
  BY <1>1, <1>p, InboxRead
<1>3. phase' = phase
  BY <1>1 DEF callVars
<1>4. PICK what \in {"ok", "error"} :
        /\ outbox' = outbox \o <<Output(what, r)>>
        /\ \/ working' = working
           \/ r.kind = "prompt" /\ working = 0 /\ working' = r.call
  BY DEF ChildAnswers, Says
<1>5. Output(what, r) \in Outputs /\ Output(what, r).what # "settled"
  BY <1>2, OutputType
<1> HIDE DEF r
<1>6. /\ outbox' \in Seq(Outputs) /\ Endings' = Endings
      /\ \A k \in Endings : outbox'[k] = outbox[k]
  BY <1>4, <1>5, <1>p, OtherSaid
<1>7. CASE working' = working
  <2>a. \A k, l \in Prompts' : k = l
    <3> SUFFICES ASSUME NEW k \in Prompts', NEW l \in Prompts' PROVE k = l
      OBVIOUS
    <3>1. k + 1 \in Prompts /\ l + 1 \in Prompts /\ k \in Nat /\ l \in Nat
      BY <1>2
    <3>2. k + 1 = l + 1
      BY <3>1, <1>t DEF PromptInv, OnePrompt
    <3> QED BY <3>1, <3>2
  <2>b. Prompts' # {} => Prompts # {}
    BY <1>2
  <2>1. OnePrompt'
    BY <2>a, <2>b, <1>6, <1>7, <1>t DEF PromptInv, OnePrompt
  <2>2. PromptOfRunner'
    BY <1>2, <1>3, <1>6, <1>7, <1>t DEF PromptInv, PromptOfRunner
  <2> QED BY <2>1, <2>2, <1>1, <1>2, <1>6, <1>7, <1>p, ChildKeeps DEF PromptInv
<1>8. CASE r.kind = "prompt" /\ working = 0 /\ working' = r.call
  <2>1. 1 \in Prompts /\ r = inbox[1]
    BY <1>8, <1>2
  <2>2. Prompts' = {} /\ Endings = {}
    BY <2>1, <1>2, <1>t DEF PromptInv, OnePrompt
  <2>3. working' \in 0..MaxCalls /\ phase[working'] = "running"
    <3>1. r.call \in Calls
      BY <1>2 DEF Requests
    <3>2. phase[r.call] = "running"
      BY <2>1, <1>t DEF PromptInv, PromptOfRunner
    <3> QED BY <3>1, <3>2, <1>8, ProviderRunAssumption DEF Calls
  <2>4. PromptInv'
    BY <2>2, <2>3, <1>3, <1>6 DEF PromptInv, OnePrompt, PromptOfRunner
  <2> QED BY <2>3, <2>4, <1>1, <1>2, <1>6, <1>p, ChildKeeps
<1> QED BY <1>4, <1>7, <1>8

\* The child that worked says agent_settled.
LEMMA SettlesItself ==
  ASSUME IInv, working # 0, working' = 0, phase' = phase,
         Prompts' = {},
         NEW o \in Outputs, o.what # "settled",
         LET s == Output("settled", Request("prompt", working))
         IN  \/ outbox' = outbox \o <<s>>
             \/ outbox' = outbox \o <<s, o>>
             \/ outbox' = outbox \o <<o, s>>
  PROVE  outbox' \in Seq(Outputs) /\ PromptInv'
<1>t. TypeOK /\ PromptInv
  BY DEF IInv
<1>p. inbox \in Seq(Requests) /\ outbox \in Seq(Outputs) /\ working \in 0..MaxCalls
  BY <1>t, Types
<1> DEFINE s == Output("settled", Request("prompt", working))
<1>1. working \in Calls /\ phase[working] = "running"
  BY <1>p, <1>t, CallsOf DEF PromptInv, PromptOfRunner
<1>2. s \in Outputs /\ s.what = "settled" /\ s.of.kind = "prompt" /\ s.of.call = working
  BY <1>1, RequestType, OutputType
<1>3. Endings = {}
  BY <1>t DEF PromptInv, OnePrompt
<1>4. \/ outbox' = outbox \o <<s>>
      \/ outbox' = outbox \o <<s, o>>
      \/ outbox' = outbox \o <<o, s>>
  OBVIOUS
<1> HIDE DEF s
<1>5. PICK n \in Nat : Endings' = {n} /\ outbox'[n] = s /\ outbox' \in Seq(Outputs)
  BY <1>2, <1>3, <1>4, <1>p, SettledSaid
<1> QED BY <1>1, <1>2, <1>5 DEF PromptInv, OnePrompt, PromptOfRunner

LEMMA ChildAbortsKeeps == ASSUME IInv, ChildAborts PROVE IInv'
<1>t. TypeOK /\ PromptInv
  BY DEF IInv
<1>p. inbox \in Seq(Requests) /\ outbox \in Seq(Outputs) /\ hung \in BOOLEAN
  BY <1>t, Types
<1>1. /\ inbox # <<>> /\ inbox' = Tail(inbox) /\ working # 0 /\ working' = 0
      /\ UNCHANGED <<callVars, dead, pending, proc, hung>>
  BY DEF ChildAborts, Reads
<1>2. /\ inbox' \in Seq(Requests) /\ Head(inbox) \in Requests
      /\ \A k \in Prompts' : k + 1 \in Prompts
  BY <1>1, <1>p, InboxRead
<1>3. Prompts' = {}
  BY <1>1, <1>2, <1>t DEF PromptInv, OnePrompt
<1> DEFINE o == Output("ok", Head(inbox))
           s == Output("settled", Request("prompt", working))
<1>4. o \in Outputs /\ o.what # "settled"
  BY <1>2, OutputType
<1>5. outbox' = outbox \o <<s, o>> \/ outbox' = outbox \o <<o, s>>
  BY DEF ChildAborts, Says
<1>6. phase' = phase
  BY <1>1 DEF callVars
<1> HIDE DEF o
<1>7. outbox' \in Seq(Outputs) /\ PromptInv'
  BY <1>1, <1>3, <1>4, <1>5, <1>6, SettlesItself
<1>8. working' \in 0..MaxCalls
  BY <1>1, ProviderRunAssumption
<1> QED BY <1>1, <1>2, <1>7, <1>8, <1>p, ChildKeeps

LEMMA ChildSettlesKeeps == ASSUME IInv, ChildSettles PROVE IInv'
<1>t. TypeOK /\ PromptInv
  BY DEF IInv
<1>p. inbox \in Seq(Requests) /\ hung \in BOOLEAN /\ working \in 0..MaxCalls /\ outbox \in Seq(Outputs)
  BY <1>t, Types
<1>1. /\ working # 0 /\ working' = 0
      /\ outbox' = outbox \o <<Output("settled", Request("prompt", working))>>
      /\ UNCHANGED <<callVars, dead, pending, inbox, proc, hung>>
  BY DEF ChildSettles, Says
<1>2. Prompts' = {}
  <2>1. Prompts = {}
    BY <1>1, <1>t DEF PromptInv, OnePrompt
  <2> QED BY <2>1, <1>1 DEF Prompts
<1> DEFINE o == Output("ok", Request("stop", working))
<1>3. o \in Outputs /\ o.what # "settled"
  <2>1. working \in Calls
    BY <1>1, <1>p, CallsOf
  <2> QED BY <2>1, RequestType, OutputType
<1>4. phase' = phase
  BY <1>1 DEF callVars
<1> HIDE DEF o
<1>5. outbox' \in Seq(Outputs) /\ PromptInv'
  BY <1>1, <1>2, <1>3, <1>4, SettlesItself
<1>6. working' \in 0..MaxCalls
  BY <1>1, ProviderRunAssumption
<1> QED BY <1>1, <1>5, <1>6, <1>p, ChildKeeps

LEMMA ChildBreachesKeeps == ASSUME IInv, ChildBreaches PROVE IInv'
<1>t. TypeOK /\ PromptInv
  BY DEF IInv
<1>p. inbox \in Seq(Requests) /\ hung \in BOOLEAN /\ working \in 0..MaxCalls /\ outbox \in Seq(Outputs)
  BY <1>t, Types
<1> DEFINE o == Output("breach", Request("prompt", working))
<1>1. /\ working # 0 /\ outbox' = outbox \o <<o>>
      /\ UNCHANGED <<callVars, dead, pending, inbox, proc, hung, working>>
  BY DEF ChildBreaches, Says
<1>2. o \in Outputs /\ o.what # "settled"
  <2>1. working \in Calls
    BY <1>1, <1>p, CallsOf
  <2> QED BY <2>1, RequestType, OutputType
<1> HIDE DEF o
<1>3. /\ outbox' \in Seq(Outputs) /\ Endings' = Endings
      /\ \A k \in Endings : outbox'[k] = outbox[k]
  BY <1>1, <1>2, <1>p, OtherSaid
<1>4. Prompts' = Prompts /\ phase' = phase
  BY <1>1 DEF Prompts, callVars
<1>5. PromptInv'
  BY <1>1, <1>3, <1>4, <1>t DEF PromptInv, OnePrompt, PromptOfRunner
<1> QED BY <1>1, <1>3, <1>5, <1>p, ChildKeeps

LEMMA ChildExitsKeeps == ASSUME IInv, ChildExits PROVE IInv'
<1>p. /\ phase \in [Calls -> {"new", "queued", "starting", "running", "over"}]
      /\ answer \in [Calls -> {"none", "result", "error"}]
      /\ aborted \subseteq Calls /\ abortSent \subseteq Calls /\ timedOut \subseteq Calls
      /\ hung \in BOOLEAN
  BY Types DEF IInv
<1>1. /\ proc' = "gone" /\ dead' = TRUE
      /\ pending' = {} /\ inbox' = <<>> /\ outbox' = <<>> /\ working' = 0
      /\ phase' = [c \in Calls |-> IF c \in Holding THEN "over" ELSE phase[c]]
      /\ answer' = [c \in Calls |-> IF c \in Holding THEN "error" ELSE answer[c]]
      /\ UNCHANGED <<aborted, abortSent, timedOut, hung>>
  BY DEF ChildExits
<1>2. /\ phase' \in [Calls -> {"new", "queued", "starting", "running", "over"}]
      /\ answer' \in [Calls -> {"none", "result", "error"}]
  BY <1>1, <1>p
<1>3. inbox' \in Seq(Requests) /\ outbox' \in Seq(Outputs) /\ working' \in 0..MaxCalls
  BY <1>1, ProviderRunAssumption
<1>4. TypeOK'
  BY <1>1, <1>2, <1>3, <1>p, ToTypes DEF TypeOK
<1>5. Prompts' = {} /\ Endings' = {}
  BY <1>1 DEF Prompts, Endings
<1>6. PromptInv'
  BY <1>1, <1>5, PromptGone
<1>7. OneHolder' /\ StateAsked'
  BY <1>1 DEF OneHolder, StateAsked, Holding
<1> QED BY <1>4, <1>6, <1>7 DEF IInv

-----------------------------------------------------------------------------
LEMMA InitIInv == Init => IInv
<1> SUFFICES ASSUME Init PROVE IInv
  OBVIOUS
<1>1. /\ phase = [c \in Calls |-> "new"] /\ answer = [c \in Calls |-> "none"]
      /\ aborted = {} /\ abortSent = {} /\ timedOut = {} /\ dead = FALSE
      /\ pending = {} /\ inbox = <<>> /\ outbox = <<>>
      /\ proc = "none" /\ hung = FALSE /\ working = 0
  BY DEF Init
<1>2. inbox \in Seq(Requests) /\ outbox \in Seq(Outputs) /\ working \in 0..MaxCalls
  BY <1>1, ProviderRunAssumption
<1>3. TypeOK
  BY <1>1, <1>2, ToTypes
<1>4. Prompts = {} /\ Endings = {}
  BY <1>1 DEF Prompts, Endings
<1>5. PromptInv
  BY <1>1, <1>4 DEF PromptInv, OnePrompt, PromptOfRunner
<1>6. OneHolder /\ StateAsked
  BY <1>1 DEF OneHolder, StateAsked, Holding
<1> QED BY <1>3, <1>5, <1>6 DEF IInv

\* The steps of start and of the timers, for one call.
LEMMA CallStepKeeps ==
  ASSUME IInv, NEW c \in Calls,
         \/ Asks(c) \/ Continues(c) \/ Spawns(c) \/ Refused(c)
         \/ HardWall(c) \/ GraceEnds(c) \/ Aborts(c) \/ Heartbeat(c)
  PROVE  IInv'
<1>t. TypeOK /\ PromptInv /\ OneHolder /\ StateAsked
  BY DEF IInv
<1>p. /\ phase \in [Calls -> {"new", "queued", "starting", "running", "over"}]
      /\ answer \in [Calls -> {"none", "result", "error"}]
      /\ dead \in BOOLEAN /\ hung \in BOOLEAN
      /\ aborted \subseteq Calls /\ abortSent \subseteq Calls /\ timedOut \subseteq Calls
      /\ pending \subseteq Requests
  BY <1>t, Types
<1>r. \A r \in pending : r.call \in Calls
  BY <1>p DEF Requests
\* A call that waits for nothing from the child leaves.
<1>l. ASSUME NEW p \in {"queued", "over"}, phase[c] \in {"new", "queued"},
             phase' = [phase EXCEPT ![c] = p], pending' = pending
      PROVE  StateAsked'
  BY <1>l, <1>p, <1>r, <1>t DEF StateAsked
<1>1. CASE Asks(c)
  <2>1. /\ phase[c] = "new" /\ phase' = [phase EXCEPT ![c] = "queued"]
        /\ UNCHANGED <<answer, aborted, abortSent, timedOut, dead, pending, inbox, outbox, proc, hung, working>>
    BY <1>1 DEF Asks, childVars
  <2> QED BY <2>1, <1>l, <1>p, CallLeaves
<1>2. CASE Continues(c)
  <2>1. /\ phase[c] = "queued" /\ proc = "up" /\ Holding = {} /\ Begins(c, pending)
        /\ UNCHANGED <<aborted, abortSent, timedOut, dead, outbox, proc, hung, working>>
    BY <1>2 DEF Continues
  <2>2. \A r \in pending : r.kind # "state"
    BY <2>1, <1>r, <1>t DEF StateAsked, Holding
  <2> QED BY <2>1, <2>2, BeginsKeeps
<1>3. CASE Spawns(c)
  BY <1>3, SpawnsKeeps
<1>4. CASE Refused(c)
  <2>1. /\ phase[c] = "queued" /\ phase' = [phase EXCEPT ![c] = "over"]
        /\ answer' = [answer EXCEPT ![c] = "error"]
        /\ UNCHANGED <<aborted, abortSent, timedOut, pending, inbox, outbox, proc, hung, working>>
    BY <1>4 DEF Refused, Settles, childVars
  <2>2. dead' \in BOOLEAN
    <3>1. dead' = dead \/ dead' = (dead \/ proc = "none")
      BY <1>4 DEF Refused
    <3> QED BY <3>1, <1>p
  <2>3. answer' \in [Calls -> {"none", "result", "error"}]
    BY <2>1, <1>p
  <2> QED BY <2>1, <2>2, <2>3, <1>l, <1>p, CallLeaves
<1>5. CASE HardWall(c)
  <2>1. /\ timedOut' = timedOut \cup {c} /\ abortSent' = abortSent \cup {c}
        /\ Sends("stop", c, pending)
        /\ UNCHANGED <<phase, answer, aborted, dead, outbox, proc, hung, working>>
    BY <1>5 DEF HardWall, TimesOut
  <2>2. /\ inbox' = inbox \/ \E r \in Requests : r.kind # "prompt" /\ inbox' = Append(inbox, r)
        /\ pending' \subseteq Requests
        /\ \A r \in pending' : r \in pending \/ r.kind = "stop"
    BY <2>1, <1>p, <1>t, SendsOther
  <2>3. \A r \in pending' : r \in pending \/ r.kind # "state"
    BY <2>2
  <2>4. timedOut' \subseteq Calls /\ abortSent' \subseteq Calls
    BY <2>1, <1>p
  <2> QED BY <2>1, <2>2, <2>3, <2>4, <1>p, SameCalls
<1>6. CASE GraceEnds(c)
  BY <1>6, <1>p, SameCalls DEF GraceEnds, Terminates, Invalidates, callVars, childVars
<1>7. CASE Aborts(c)
  <2>1. /\ aborted' = aborted \cup {c} /\ UNCHANGED <<timedOut, dead, outbox, proc, hung, working>>
    BY <1>7 DEF Aborts
  <2>2. aborted' \subseteq Calls
    BY <2>1, <1>p
  <2>3. CASE /\ phase[c] = "queued" /\ Settles(c, "error")
             /\ UNCHANGED <<abortSent, pending, inbox>>
    <3>1. phase' = [phase EXCEPT ![c] = "over"] /\ answer' = [answer EXCEPT ![c] = "error"]
      BY <2>3 DEF Settles
    <3>2. answer' \in [Calls -> {"none", "result", "error"}]
      BY <3>1, <1>p
    <3>3. StateAsked'
      BY <3>1, <2>3, <1>l
    <3> QED BY <3>1, <3>2, <3>3, <2>1, <2>2, <2>3, <1>p, CallLeaves
  <2>4. CASE UNCHANGED <<phase, answer, abortSent, pending, inbox>>
    BY <2>1, <2>2, <2>4, <1>p, SameCalls
  <2>5. CASE abortSent' = abortSent \cup {c} /\ UNCHANGED <<phase, answer, pending, inbox>>
    <3>1. abortSent' \subseteq Calls
      BY <2>5, <1>p
    <3> QED BY <2>1, <2>2, <2>5, <3>1, <1>p, SameCalls
  <2>6. CASE abortSent' = abortSent \cup {c} /\ UNCHANGED <<phase, answer>> /\ Sends("abort", c, pending)
    <3>1. /\ inbox' = inbox \/ \E r \in Requests : r.kind # "prompt" /\ inbox' = Append(inbox, r)
          /\ pending' \subseteq Requests
          /\ \A r \in pending' : r \in pending \/ r.kind = "abort"
      BY <2>6, <1>p, <1>t, SendsOther
    <3>2. \A r \in pending' : r \in pending \/ r.kind # "state"
      BY <3>1
    <3>3. abortSent' \subseteq Calls
      BY <2>6, <1>p
    <3> QED BY <2>1, <2>2, <2>6, <3>1, <3>2, <3>3, <1>p, SameCalls
  <2> QED BY <1>7, <2>3, <2>4, <2>5, <2>6 DEF Aborts
<1>8. CASE Heartbeat(c)
  <2>1. /\ Sends("beat", c, pending)
        /\ UNCHANGED <<phase, answer, aborted, abortSent, timedOut, dead, outbox, proc, hung, working>>
    BY <1>8 DEF Heartbeat, callVars
  <2>2. /\ inbox' = inbox \/ \E r \in Requests : r.kind # "prompt" /\ inbox' = Append(inbox, r)
        /\ pending' \subseteq Requests
        /\ \A r \in pending' : r \in pending \/ r.kind = "beat"
    BY <2>1, <1>p, <1>t, SendsOther
  <2>3. \A r \in pending' : r \in pending \/ r.kind # "state"
    BY <2>2
  <2> QED BY <2>1, <2>2, <2>3, <1>p, SameCalls
<1> QED BY <1>1, <1>2, <1>3, <1>4, <1>5, <1>6, <1>7, <1>8

\* What the listeners and the timers of the requests do.
LEMMA ReaderKeeps ==
  ASSUME IInv, RequestTimesOut \/ ReadsLateAnswer \/ ReadsRefusal \/ ReadsAnswer \/ ReadsBreach
  PROVE  IInv'
<1>t. TypeOK /\ PromptInv /\ OneHolder /\ StateAsked
  BY DEF IInv
<1>p. /\ phase \in [Calls -> {"new", "queued", "starting", "running", "over"}]
      /\ answer \in [Calls -> {"none", "result", "error"}]
      /\ dead \in BOOLEAN /\ hung \in BOOLEAN
      /\ aborted \subseteq Calls /\ abortSent \subseteq Calls /\ timedOut \subseteq Calls
      /\ pending \subseteq Requests
  BY <1>t, Types
\* A request that fails changes no call.
<1>f. ASSUME NEW r \in Requests, Fails(r)
      PROVE  UNCHANGED <<phase, answer, aborted, abortSent, timedOut>> /\ dead' \in BOOLEAN
  BY <1>f, <1>p DEF Fails, Terminates, Invalidates, callVars
<1>1. CASE RequestTimesOut
  <2> PICK r \in pending : pending' = pending \ {r} /\ Fails(r) /\ UNCHANGED childVars
    BY <1>1 DEF RequestTimesOut
  <2>1. UNCHANGED <<phase, answer, aborted, abortSent, timedOut>> /\ dead' \in BOOLEAN
    BY <1>f, <1>p
  <2> QED BY <2>1, <1>p, SameCalls DEF childVars
<1>2. CASE ReadsLateAnswer
  BY <1>2, <1>p, SameCalls DEF ReadsLateAnswer, callVars
<1>3. CASE ReadsRefusal
  <2>1. /\ outbox # <<>> /\ outbox' = Tail(outbox)
        /\ Head(outbox).of \in pending /\ pending' = pending \ {Head(outbox).of}
        /\ Fails(Head(outbox).of) /\ UNCHANGED <<inbox, proc, hung, working>>
    BY <1>3 DEF ReadsRefusal
  <2>2. UNCHANGED <<phase, answer, aborted, abortSent, timedOut>> /\ dead' \in BOOLEAN
    BY <2>1, <1>f, <1>p
  <2> QED BY <2>1, <2>2, <1>p, SameCalls
<1>4. CASE ReadsAnswer
  <2> DEFINE r == Head(outbox).of
             rest == pending \ {r}
  <2>1. /\ outbox # <<>> /\ outbox' = Tail(outbox) /\ r \in pending
        /\ GoesOn(r, rest)
        /\ UNCHANGED <<aborted, abortSent, timedOut, dead, proc, hung, working>>
    BY <1>4 DEF ReadsAnswer
  <2> HIDE DEF r
  <2>2. r \in Requests /\ r.call \in Calls
    BY <2>1, <1>p DEF Requests
  <2>3. CASE r.kind = "state" /\ ~dead
    <3>1. Begins(r.call, rest)
      BY <2>1, <2>3 DEF GoesOn
    <3>2. phase[r.call] = "starting"
      BY <2>1, <2>3, <1>t DEF StateAsked
    <3>3. r.call \in Holding
      BY <2>2, <3>2 DEF Holding
    <3>4. Holding \subseteq {r.call}
      BY <3>3, <1>t DEF OneHolder
    <3>5. \A q \in rest : q.kind # "state"
      <4> SUFFICES ASSUME NEW q \in pending, q.kind = "state" PROVE q = r
        OBVIOUS
      <4>1. q \in Requests /\ q.call \in Calls /\ phase[q.call] = "starting"
        BY <1>p, <1>t DEF StateAsked, Requests
      <4>2. q.call = r.call
        BY <4>1, <3>4 DEF Holding
      <4> QED BY <4>1, <4>2, <2>2, <2>3 DEF Requests
    <3>6. proc # "none"
      BY <3>3, <1>t DEF OneHolder
    <3>7. rest \in SUBSET pending
      OBVIOUS
    <3> HIDE DEF rest
    <3> QED BY <2>1, <2>2, <3>1, <3>2, <3>4, <3>5, <3>6, <3>7, BeginsKeeps
  <2>4. CASE ~(r.kind = "state" /\ ~dead)
    <3>1. pending' = rest /\ UNCHANGED <<phase, answer, inbox>>
      BY <2>1, <2>4 DEF GoesOn
    <3> QED BY <2>1, <3>1, <1>p, SameCalls
  <2> QED BY <2>3, <2>4
<1>5. CASE ReadsBreach
  <2>1. /\ outbox # <<>> /\ outbox' = Tail(outbox)
        /\ UNCHANGED <<phase, answer, aborted, dead, proc, hung, working>>
    BY <1>5 DEF ReadsBreach
  <2>2. CASE UNCHANGED <<timedOut, abortSent, pending, inbox>>
    BY <2>1, <2>2, <1>p, SameCalls
  <2>3. ASSUME NEW c \in Calls, TimesOut(c) PROVE IInv'
    <3>1. /\ timedOut' = timedOut \cup {c} /\ abortSent' = abortSent \cup {c}
          /\ Sends("stop", c, pending)
      BY <2>3 DEF TimesOut
    <3>2. /\ inbox' = inbox \/ \E r \in Requests : r.kind # "prompt" /\ inbox' = Append(inbox, r)
          /\ pending' \subseteq Requests
          /\ \A r \in pending' : r \in pending \/ r.kind = "stop"
      BY <3>1, <1>p, <1>t, SendsOther
    <3>3. \A r \in pending' : r \in pending \/ r.kind # "state"
      BY <3>2
    <3>4. timedOut' \subseteq Calls /\ abortSent' \subseteq Calls
      BY <3>1, <1>p
    <3> QED BY <2>1, <3>2, <3>3, <3>4, <1>p, SameCalls
  <2> QED BY <1>5, <2>2, <2>3 DEF ReadsBreach
<1> QED BY <1>1, <1>2, <1>3, <1>4, <1>5

LEMMA NextIInv == IInv /\ [Next]_vars => IInv'
<1> SUFFICES ASSUME IInv, [Next]_vars PROVE IInv'
  OBVIOUS
<1>p. /\ dead \in BOOLEAN /\ hung \in BOOLEAN /\ pending \subseteq Requests
      /\ aborted \subseteq Calls /\ abortSent \subseteq Calls /\ timedOut \subseteq Calls
  BY Types DEF IInv
<1>1. CASE ChildHangs
  BY <1>1, <1>p, SameCalls DEF ChildHangs, callVars
<1>2. CASE PipeBreaks
  BY <1>2, <1>p, SameCalls DEF PipeBreaks, Invalidates, callVars, childVars
<1>3. CASE CloseSession
  BY <1>3, <1>p, SameCalls DEF CloseSession, Invalidates, callVars, childVars
<1>4. CASE UNCHANGED vars
  BY <1>4, <1>p, SameCalls DEF vars, callVars, childVars
<1> QED
  BY <1>1, <1>2, <1>3, <1>4, CallStepKeeps, ReaderKeeps, ReadsSettledKeeps, ChildAnswersKeeps,
     ChildAbortsKeeps, ChildSettlesKeeps, ChildBreachesKeeps, ChildExitsKeeps
  DEF Next

-----------------------------------------------------------------------------
\* A result is given by the step that reads agent_settled, and by no other.
LEMMA ResultFromSettled ==
  ASSUME IInv, Next, NEW c \in Calls, answer[c] = "none", answer'[c] = "result"
  PROVE  /\ Head(outbox) = Output("settled", Request("prompt", c))
         /\ c \notin timedOut
<1>p. /\ phase \in [Calls -> {"new", "queued", "starting", "running", "over"}]
      /\ answer \in [Calls -> {"none", "result", "error"}]
  BY Types DEF IInv
<1>e. ASSUME NEW d, Settles(d, "error") PROVE FALSE
  BY <1>e, <1>p DEF Settles
<1>b. ASSUME NEW d, NEW rest, Begins(d, rest) PROVE FALSE
  BY <1>b, <1>e DEF Begins
<1>1. ReadsSettled
  <2>1. ASSUME NEW d \in Calls,
               \/ Asks(d) \/ Continues(d) \/ Spawns(d) \/ Refused(d)
               \/ HardWall(d) \/ GraceEnds(d) \/ Aborts(d) \/ Heartbeat(d)
        PROVE  FALSE
    BY <2>1, <1>e, <1>b
    DEF Asks, Continues, Spawns, Refused, HardWall, GraceEnds, Terminates, Invalidates, Aborts,
        Heartbeat, callVars
  <2>2. ~RequestTimesOut /\ ~ReadsLateAnswer /\ ~ReadsRefusal
    BY DEF RequestTimesOut, ReadsLateAnswer, ReadsRefusal, Fails, Terminates, Invalidates, callVars
  <2>3. ~ReadsAnswer
    BY <1>b DEF ReadsAnswer, GoesOn
  <2>4. ~ReadsBreach
    BY DEF ReadsBreach
  <2>5. ~ChildAnswers /\ ~ChildAborts /\ ~ChildSettles /\ ~ChildBreaches /\ ~ChildHangs
    BY DEF ChildAnswers, ChildAborts, ChildSettles, ChildBreaches, ChildHangs, callVars
  <2>6. ~ChildExits
    BY <1>p DEF ChildExits
  <2>7. ~PipeBreaks /\ ~CloseSession
    BY DEF PipeBreaks, CloseSession, Invalidates, callVars
  <2> QED BY <2>1, <2>2, <2>3, <2>4, <2>5, <2>6, <2>7 DEF Next
<1>2. PICK d \in Calls : phase[d] = "running" /\ Settled(d)
  BY <1>1 DEF ReadsSettled, callVars
<1>3. d \notin timedOut /\ answer' = [answer EXCEPT ![d] = IF d \in aborted THEN "error" ELSE "result"]
  BY <1>2 DEF Settled, Terminates, Invalidates, Settles, callVars
<1>4. d = c
  BY <1>3, <1>p
<1> QED BY <1>1, <1>2, <1>3, <1>4, SettledIsOwn DEF ReadsSettled

THEOREM ProviderRunInvariance == Spec => []IInv
BY InitIInv, NextIInv, PTL DEF Spec

\* Types hold in every reachable state.
THEOREM ProviderRunTypeCorrect == Spec => []TypeOK
<1>1. IInv => TypeOK
  BY DEF IInv
<1> QED BY <1>1, ProviderRunInvariance, PTL

\* However runPrompt ends, the child works for no call whose permit went back.
THEOREM PermitWhileWorking == Spec => []WorkHasPermit
<1>1. IInv => WorkHasPermit
  <2> SUFFICES ASSUME IInv PROVE WorkHasPermit
    OBVIOUS
  <2>1. TypeOK /\ PromptInv
    BY DEF IInv
  <2>2. inbox \in Seq(Requests) /\ outbox \in Seq(Outputs) /\ working \in 0..MaxCalls
    BY <2>1, Types
  <2>3. /\ \A k \in Prompts : inbox[k].call \in Calls
        /\ working # 0 => working \in Calls
    BY <2>2, CallsOf
  <2>4. /\ \A k \in Prompts : inbox[k].call \in Holding
        /\ working # 0 => working \in Holding
    BY <2>1, <2>3 DEF PromptInv, PromptOfRunner, Holding
  <2> QED BY <2>4 DEF WorkHasPermit, Prompts
<1> QED BY <1>1, ProviderRunInvariance, PTL

\* The result of a call comes from the agent_settled of its own prompt, and a
\* run that timed out has none.
THEOREM OwnResult == Spec => ResultIsOwn
<1>1. IInv /\ [Next]_vars =>
        [\A c \in Calls :
           answer[c] = "none" /\ answer'[c] = "result"
             => /\ Head(outbox) = Output("settled", Request("prompt", c))
                /\ c \notin timedOut]_vars
  BY ResultFromSettled
<1> QED BY <1>1, ProviderRunInvariance, PTL DEF Spec, ResultIsOwn
=============================================================================
