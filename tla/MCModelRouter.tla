---------------------------- MODULE MCModelRouter ----------------------------
(* Instances of ModelRouter for TLC. *)
EXTENDS ModelRouter, TLC

CONSTANTS taskA, taskB, m1, m2, m3

Rule(models, spill, act, wait, to) ==
  [candidates |-> models, spillover |-> spill, action |-> act, maxWait |-> wait, escalateTo |-> to]

\* The default rules: light waits and escalates, medium waits.
Usual ==
  ("light" :> Rule(<<m1, m2>>, TRUE, "wait_then_escalate", 1, "medium")) @@
  ("medium" :> Rule(<<m3>>, TRUE, "wait", 1, "light"))

\* Another version of the file: one model less, no spillover, no wait.
Edited ==
  ("light" :> Rule(<<m2, m1>>, FALSE, "escalate", 0, "medium")) @@
  ("medium" :> Rule(<<m3>>, TRUE, "fail", 0, "light"))

UsualAndEdited == {Usual, Edited}
OneEach == (m1 :> 1) @@ (m2 :> 1) @@ (m3 :> 2)
Groups2 == (m1 :> "first") @@ (m2 :> "first") @@ (m3 :> "second")

ByTier(g) == [tier |-> g, pinned |-> None, preferred |-> None]
Prefers(g, m) == [ByTier(g) EXCEPT !.preferred = m]
Pin(g, m) == [ByTier(g) EXCEPT !.pinned = m]

\* One task goes by its tier, the other prefers a model or is pinned to one.
ThreePlans == (taskA :> {ByTier("light")}) @@ (taskB :> {Prefers("light", m2), Pin("medium", m1)})

CoolDowns == ("limited" :> {1}) @@ ("quota_exhausted" :> {2}) @@ ("unknown" :> {0})
=============================================================================
