------------------------- MODULE MCProviderCapacity -------------------------
(* Instances of ProviderCapacity for TLC. *)
EXTENDS ProviderCapacity, TLC

CONSTANTS flow1, flow2, flow3

\* One workflow of two tasks, two of one task.
TwoAndOnes == (flow1 :> 2) @@ (flow2 :> 1) @@ (flow3 :> 1)

\* The first may have a session that its reservation does not count.
OneOfTheFirst == (flow1 :> 1) @@ (flow2 :> 0) @@ (flow3 :> 0)
=============================================================================
