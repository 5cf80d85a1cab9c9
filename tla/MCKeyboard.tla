----------------------------- MODULE MCKeyboard -----------------------------
(***************************************************************************)
(* Model-checking instances of Keyboard: one letter (A) and one digit (1)  *)
(* have characters, Ctrl (29) has none, and an extended key sends the same *)
(* byte as the left Shift does, as Print Screen really does.               *)
(***************************************************************************)
EXTENDS Keyboard, TLC

MCUnshifted == 2 :> 49 @@ 30 :> 97
MCShifted   == 2 :> 33 @@ 30 :> 65

=============================================================================
