------------------------------ MODULE MCOutput ------------------------------
(***************************************************************************)
(* Model-checking instance of Output: a screen of two rows of three cells, *)
(* a letter, Backspace and Enter, and tick counts just before an uptime    *)
(* line is due, at one second and where the time field gets too long.      *)
(***************************************************************************)
EXTENDS Output, TLC

MCStats == <<7, 32607, 262144, 31000, 0, 105>>

=============================================================================
