------------------------------- MODULE MCHeap -------------------------------
(***************************************************************************)
(* Model-checking instances of Heap: frames of 4 bytes with a 1-byte       *)
(* header, frame 0 reserved, and E820 maps that make the first frames the  *)
(* PMM hands out contiguous, interrupted by a hole, or too few.            *)
(***************************************************************************)
EXTENDS Heap

CONSTANTS
    MCSizes,   \* how many frames the map may make usable
    MCHoles    \* frames that it may carve out of the whole window

MCUsable(n) == [base |-> 0, length |-> n * PMM_FRAME_SIZE, type |-> E820_USABLE]

MCHole(f) == [base |-> f * PMM_FRAME_SIZE, length |-> PMM_FRAME_SIZE, type |-> 2]

MCMemMaps == {<<MCUsable(n)>> : n \in MCSizes}
             \cup {<<MCHole(f), MCUsable(PMM_MAX_FRAMES)>> : f \in MCHoles}

MCFixedRanges == <<[base |-> 0, length |-> PMM_FRAME_SIZE]>>

=============================================================================
