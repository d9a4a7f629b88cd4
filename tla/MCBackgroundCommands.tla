------------------------- MODULE MCBackgroundCommands -------------------------
(* An instance of BackgroundCommands for TLC. *)
EXTENDS BackgroundCommands, TLC

CONSTANTS c1, c2

OnlyFirst == {c1}
=============================================================================
