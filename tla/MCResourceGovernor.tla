------------------------- MODULE MCResourceGovernor -------------------------
(* Instances of ResourceGovernor for TLC. *)
EXTENDS ResourceGovernor, TLC

CONSTANTS sub1, sub2, sub3   \* subjects

RequestSymmetry == Permutations(Requests)

\* Interactive work of one subject, direct work of three, workflow work of one.
MixedWorkload == {<<0, sub1>>, <<1, sub1>>, <<1, sub2>>, <<1, sub3>>, <<2, sub2>>}

=============================================================================
