-------------------------------- MODULE Tape --------------------------------
(***************************************************************************)
(* What the console promises: a tape of cells that is written and erased   *)
(* at its end only, one character of the input after the other.  A full    *)
(* screen drops its oldest row; nothing else is ever lost, moved or left   *)
(* behind.                                                                 *)
(***************************************************************************)
EXTENDS Integers, Sequences

CONSTANTS Width, Height, Blank, NewLine, BackSpace

VARIABLES
    tape,
    input       \* the characters to come

Fit(t) == IF Len(t) = Width * Height THEN SubSeq(t, Width + 1, Len(t)) ELSE t

\* The rest of the row.
Padding == [k \in 1 .. Width - (Len(tape) % Width) |-> Blank]

Written(ch) ==
    CASE ch = NewLine   -> Fit(tape \o Padding)
      [] ch = BackSpace -> IF tape = <<>> THEN tape
                           ELSE SubSeq(tape, 1, Len(tape) - 1)
      [] OTHER          -> Fit(Append(tape, ch))

Write ==
    /\ input # <<>>
    /\ tape' = Written(Head(input))
    /\ input' = Tail(input)

\* Anything may be printed next.
Refill ==
    /\ input = <<>>
    /\ UNCHANGED tape

TapeSpec == tape = <<>> /\ [][Write \/ Refill]_<<tape, input>>

=============================================================================
