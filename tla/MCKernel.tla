------------------------------ MODULE MCKernel ------------------------------
(***************************************************************************)
(* Model-checking instances of Kernel: one key, and a ring of two slots,   *)
(* so that it is full with one character.                                  *)
(***************************************************************************)
EXTENDS Kernel, TLC

MCUnshifted == 30 :> 97
MCShifted   == 30 :> 65

=============================================================================
