------------------------- MODULE MCGovernorRotation -------------------------
(* Instances of GovernorRotation for TLC. *)
EXTENDS GovernorRotation, TLC

CONSTANTS sub1, sub2   \* subjects

\* One priority, two subjects.
TwoSubjects == {<<1, sub1>>, <<1, sub2>>}
=============================================================================
