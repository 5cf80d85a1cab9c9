---------------------------- MODULE BoundedFifo ----------------------------
(***************************************************************************)
(* What the keyboard queue promises: characters leave in the order they    *)
(* came in, none is lost, changed or repeated, and one that arrives when   *)
(* Capacity characters are waiting is dropped.  The consumer holds at most *)
(* one character at a time.                                                *)
(***************************************************************************)
EXTENDS Naturals, Sequences

CONSTANTS Capacity, Chars, None

VARIABLES
    queue,   \* the characters waiting
    hand     \* the one the consumer took out and is about to print, or None

fifoVars == <<queue, hand>>

FInit == queue = <<>> /\ hand = None

Offer(c) ==
    /\ queue' = IF Len(queue) < Capacity THEN Append(queue, c) ELSE queue
    /\ UNCHANGED hand

Take ==
    /\ hand = None
    /\ queue # <<>>
    /\ hand' = Head(queue)
    /\ queue' = Tail(queue)

Give ==
    /\ hand # None
    /\ hand' = None
    /\ UNCHANGED queue

FNext == Take \/ Give \/ \E c \in Chars : Offer(c)

FSpec == FInit /\ [][FNext]_fifoVars

=============================================================================
