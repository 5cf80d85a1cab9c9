---------------------------- MODULE MCBootChain ----------------------------
(***************************************************************************)
(* Model-checking instance of BootChain: an image that crosses tracks,     *)
(* cylinders, the low cylinder byte and two segments, and a staging buffer *)
(* of three entries.                                                       *)
(***************************************************************************)
EXTENDS BootChain

=============================================================================
