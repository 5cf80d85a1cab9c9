------------------------------- MODULE MCPMM -------------------------------
(***************************************************************************)
(* Model-checking instance of PMM: a window of 7 two-byte frames in a      *)
(* 20-value word, every map of up to MCMapLength entries that start on and *)
(* off a frame boundary, inside and above the window, with lengths that    *)
(* are zero, unaligned, cut at the window and wrapping.                    *)
(***************************************************************************)
EXTENDS PMM

CONSTANTS MCMapLength, MCBases, MCLengths

MCEntries == [base : MCBases, length : MCLengths, type : {1, 2}]

MCMemMaps == UNION {[1 .. n -> MCEntries] : n \in 0 .. MCMapLength}

\* Low memory (frames 0 and 1), then an image that ends inside a frame and
\* a range shorter than a frame, both inside low memory as in the code.
MCFixedRanges == <<[base |-> 0, length |-> 4],
                   [base |-> 1, length |-> 2],
                   [base |-> 2, length |-> 1]>>

=============================================================================
