-------------------------------- MODULE PMM --------------------------------
(***************************************************************************)
(* The physical memory manager, kernel/mm/pmm.c.                           *)
(*                                                                         *)
(* pmm_init runs once, with interrupts off, and is modelled one loop       *)
(* iteration per step so that its loop invariants can be stated.  The      *)
(* inner loop over the frames of one range is one set operation: nothing   *)
(* can observe it half done.  Once step = "ready" the two entry points     *)
(* pmm_alloc_frame and pmm_free_frame are called in any order.             *)
(***************************************************************************)
EXTENDS Integers, FiniteSets, Sequences

CONSTANTS
    PMM_FRAME_SIZE,   \* bytes per frame (4096 in the code)
    PMM_MAX_FRAMES,   \* frames in the identity-mapped window (256K)
    U64,              \* number of values of a uint64_t (2^64)
    E820_MAX,         \* entries pmm_init looks at, at most (64)
    MemMaps,          \* the E820 maps the boot chain may have staged
    FixedRanges,      \* the ranges pmm_init reserves after the map
    FreesOOM          \* do callers hand the OOM result 0 back to the PMM?

PMM_MAX_BYTES == PMM_FRAME_SIZE * PMM_MAX_FRAMES

E820_USABLE == 1

Frames == 0 .. PMM_MAX_FRAMES - 1
Words  == 0 .. U64 - 1                     \* the values of a uint64_t

Ranges  == [base : Words, length : Words]
Entries == [base : Words, length : Words, type : Nat]

ASSUME SizesAssumption ==
    /\ PMM_FRAME_SIZE \in Nat \ {0}
    /\ PMM_MAX_FRAMES \in Nat \ {0}
    /\ U64 \in Nat
    /\ PMM_MAX_BYTES < U64
    /\ E820_MAX \in Nat

ASSUME MapsAssumption ==
    /\ \A m \in MemMaps : m \in Seq(Entries)
    /\ FixedRanges \in Seq(Ranges)
    /\ FreesOOM \in BOOLEAN

\* The first fixed range is the low memory: it holds frame 0 and is never
\* as long as the window.
ASSUME LowMemoryAssumption ==
    /\ Len(FixedRanges) > 0
    /\ FixedRanges[1].base = 0
    /\ FixedRanges[1].length >= PMM_FRAME_SIZE
    /\ FixedRanges[1].length < PMM_MAX_BYTES

VARIABLES
    memmap,     \* memmap_entries[0 .. memmap_count - 1]
    bitmap,     \* the frames whose bit is set: used or reserved
    g_usable,
    g_free,
    step,       \* where pmm_init is; "ready" once it returned
    i,          \* its loop counter, from 1
    owned       \* history: frames handed out and not yet given back

pmmVars == <<memmap, bitmap, g_usable, g_free, step, i, owned>>

-----------------------------------------------------------------------------
(* Byte ranges and the frames they cover                                   *)

\* Mutant: the end of a range is not cut at the window.
RangeEndUncut(base, len) ==
    LET sum == (base + len) % U64
    IN  IF sum < base THEN U64 - 1 ELSE sum

\* base + len in 64 bits, saturated where it wraps, and cut at the window.
RangeEnd(base, len) ==
    LET sum == (base + len) % U64
        end == IF sum < base THEN U64 - 1 ELSE sum
    IN  IF end > PMM_MAX_BYTES THEN PMM_MAX_BYTES ELSE end

\* Mutant: the first frame of a reserved range is rounded up too far.
ReservedFramesLate(base, len) ==
    IF len = 0 \/ base >= PMM_MAX_BYTES
    THEN {}
    ELSE (base \div PMM_FRAME_SIZE) + 1
            .. (RangeEnd(base, len) \div PMM_FRAME_SIZE) - 1

\* The frames reserve_range walks: both bounds are rounded down.
ReservedFrames(base, len) ==
    IF len = 0 \/ base >= PMM_MAX_BYTES
    THEN {}
    ELSE (base \div PMM_FRAME_SIZE)
            .. (RangeEnd(base, len) \div PMM_FRAME_SIZE) - 1

\* The frames pmm_init clears for one usable entry: rounded inwards.
UsableFrames(base, len) ==
    IF len = 0 \/ base >= PMM_MAX_BYTES
    THEN {}
    ELSE ((base + PMM_FRAME_SIZE - 1) \div PMM_FRAME_SIZE)
            .. (RangeEnd(base, len) \div PMM_FRAME_SIZE) - 1

\* What the first pass clears for entry e, and what the second one sets.
Cleared(e) == IF e.type = E820_USABLE THEN UsableFrames(e.base, e.length)
                                      ELSE {}
Carved(e)  == IF e.type # E820_USABLE THEN ReservedFrames(e.base, e.length)
                                      ELSE {}

Count == IF Len(memmap) > E820_MAX THEN E820_MAX ELSE Len(memmap)

FreeFrames == Frames \ bitmap

-----------------------------------------------------------------------------
(* pmm_init                                                                *)

\* Start fully reserved, so that unknown memory is never handed out.
ClearBitmap ==
    /\ step = "clear"
    /\ bitmap' = Frames
    /\ g_usable' = 0
    /\ g_free' = 0
    /\ step' = "usable"
    /\ i' = 1
    /\ UNCHANGED <<memmap, owned>>

\* First pass: one usable entry.
UsableEntry ==
    /\ step = "usable"
    /\ i <= Count
    /\ LET fs == Cleared(memmap[i]) \cap bitmap
       IN  /\ bitmap' = bitmap \ fs
           /\ g_usable' = g_usable + Cardinality(fs)
           /\ g_free' = g_free + Cardinality(fs)
    /\ i' = i + 1
    /\ UNCHANGED <<memmap, step, owned>>

\* Mutant: reserving twice counts twice.
ReserveNotIdempotent(fs) ==
    /\ bitmap' = bitmap \cup fs
    /\ g_free' = g_free - Cardinality(fs)

\* The loop of reserve_range: already reserved frames are skipped.
Reserve(fs) ==
    /\ bitmap' = bitmap \cup fs
    /\ g_free' = g_free - Cardinality(fs \ bitmap)

\* Second pass: one entry that is not usable.
CarveEntry ==
    /\ step = "carve"
    /\ i <= Count
    /\ Reserve(Carved(memmap[i]))
    /\ i' = i + 1
    /\ UNCHANGED <<memmap, g_usable, step, owned>>

\* Low memory, kernel image, page tables, staging buffer, stack, VGA.
FixedRange ==
    /\ step = "fixed"
    /\ i <= Len(FixedRanges)
    /\ Reserve(ReservedFrames(FixedRanges[i].base, FixedRanges[i].length))
    /\ i' = i + 1
    /\ UNCHANGED <<memmap, g_usable, step, owned>>

\* A loop ends and the next one starts.
PassDone(from, limit, to) ==
    /\ step = from
    /\ i > limit
    /\ step' = to
    /\ i' = 1
    /\ UNCHANGED <<memmap, bitmap, g_usable, g_free, owned>>

pmm_init ==
    \/ ClearBitmap
    \/ UsableEntry
    \/ PassDone("usable", Count, "carve")
    \/ CarveEntry
    \/ PassDone("carve", Count, "fixed")
    \/ FixedRange
    \/ PassDone("fixed", Len(FixedRanges), "ready")

-----------------------------------------------------------------------------
(* pmm_alloc_frame and pmm_free_frame                                      *)

\* The first clear bit, scanning upwards from frame 0.
FirstFree == CHOOSE f \in FreeFrames : \A g \in FreeFrames : f <= g

\* ret is the physical base address of the frame, or 0 when there is none.
pmm_alloc_frame(ret) ==
    \/ /\ FreeFrames # {}
       /\ ret = FirstFree * PMM_FRAME_SIZE
       /\ bitmap' = bitmap \cup {FirstFree}
       /\ g_free' = g_free - 1
       /\ owned' = owned \cup {FirstFree}
       /\ UNCHANGED <<memmap, g_usable, step, i>>
    \/ /\ FreeFrames = {}
       /\ ret = 0
       /\ UNCHANGED pmmVars

\* Mutant: an unaligned address frees the frame it points into.
FreeableUnaligned(addr) ==
    /\ addr < PMM_MAX_BYTES
    /\ addr \div PMM_FRAME_SIZE \in bitmap

\* The checks of pmm_free_frame; a frame that is free already stays free.
Freeable(addr) ==
    /\ addr % PMM_FRAME_SIZE = 0
    /\ addr < PMM_MAX_BYTES
    /\ addr \div PMM_FRAME_SIZE \in bitmap

pmm_free_frame(addr) ==
    LET frame == addr \div PMM_FRAME_SIZE
    IN  \/ /\ Freeable(addr)
           /\ bitmap' = bitmap \ {frame}
           /\ g_free' = g_free + 1
           /\ owned' = owned \ {frame}
           /\ UNCHANGED <<memmap, g_usable, step, i>>
        \/ /\ ~ Freeable(addr)
           /\ UNCHANGED pmmVars

\* What callers may pass to pmm_free_frame: a frame they got from
\* pmm_alloc_frame, or one of the arguments it ignores; with FreesOOM also
\* the 0 they got when nothing was free.
MayFree(addr) ==
    \/ addr % PMM_FRAME_SIZE # 0
    \/ addr >= PMM_MAX_BYTES
    \/ addr \div PMM_FRAME_SIZE \in owned \cup FreeFrames
    \/ FreesOOM /\ FreeFrames = {} /\ addr = 0

AllocFrame ==
    /\ step = "ready"
    /\ \E ret \in {f * PMM_FRAME_SIZE : f \in Frames} : pmm_alloc_frame(ret)

FreeFrame ==
    /\ step = "ready"
    /\ \E addr \in Words : MayFree(addr) /\ pmm_free_frame(addr)

-----------------------------------------------------------------------------
Init ==
    /\ memmap \in MemMaps
    /\ bitmap = {}                          \* .bss is zeroed
    /\ g_usable = 0
    /\ g_free = 0
    /\ step = "clear"
    /\ i = 1
    /\ owned = {}

Next == pmm_init \/ AllocFrame \/ FreeFrame

Spec == Init /\ [][Next]_pmmVars

-----------------------------------------------------------------------------
(* Properties                                                              *)

\* Every variable keeps the type its C declaration gives it, and both
\* counters stay within the number of frames.
TypeOK ==
    /\ memmap \in MemMaps
    /\ bitmap \in SUBSET Frames
    /\ g_usable \in 0 .. PMM_MAX_FRAMES
    /\ g_free \in 0 .. PMM_MAX_FRAMES
    /\ step \in {"clear", "usable", "carve", "fixed", "ready"}
    /\ i \in Nat \ {0}
    /\ owned \in SUBSET Frames

\* What the first n entries make usable, what they carve out again, and
\* what the first n fixed ranges take: sets, so no order matters.
UsableUpTo(n) == UNION {Cleared(memmap[k]) : k \in 1 .. n}
CarvedUpTo(n) == UNION {Carved(memmap[k]) : k \in 1 .. n}
FixedUpTo(n)  ==
    UNION {ReservedFrames(FixedRanges[k].base, FixedRanges[k].length) :
               k \in 1 .. n}

BootFree ==
    UsableUpTo(Count) \ (CarvedUpTo(Count) \cup FixedUpTo(Len(FixedRanges)))

\* After pmm_init every frame that the map makes usable and nothing reserves
\* is either free or handed out, never both and never lost, whatever the
\* order the firmware lists its entries in (the claim at pmm.c:133-137).
FramesConserved ==
    step = "ready" => /\ FreeFrames \cap owned = {}
                      /\ FreeFrames \cup owned = BootFree

\* g_free counts the clear bits and g_usable the frames the first pass
\* cleared, so the unsigned difference that kmain prints cannot wrap.
CountersExact ==
    step # "clear" =>
        /\ g_free = Cardinality(FreeFrames)
        /\ g_free <= g_usable
        /\ step # "usable" => g_usable = Cardinality(UsableUpTo(Count))

\* Frame 0 is always reserved, so that the result 0 of pmm_alloc_frame can
\* only mean that memory ran out (pmm.c:164, pmm.h:38).
FrameZeroReserved == step = "ready" => 0 \in bitmap /\ 0 \notin owned

\* What each loop of pmm_init has done when it is about to look at entry i:
\* the clear bits are those of a closed form over the entries before i.
LoopInv ==
    /\ step \in {"usable", "carve"} => i <= Count + 1
    /\ step = "fixed" => i <= Len(FixedRanges) + 1
    /\ step # "ready" => owned = {}
    /\ step = "usable" => /\ FreeFrames = UsableUpTo(i - 1)
                          /\ g_usable = g_free
    /\ step = "carve" => FreeFrames = UsableUpTo(Count) \ CarvedUpTo(i - 1)
    /\ step = "fixed" =>
           FreeFrames =
               UsableUpTo(Count) \ (CarvedUpTo(Count) \cup FixedUpTo(i - 1))

\* The inductive invariant of the module: the loop invariants together with
\* what they establish once pmm_init has returned.
IndInv == TypeOK /\ LoopInv /\ CountersExact /\ FramesConserved

\* The bytes of frame f, and of a range below the window.
FrameBytes(f) == f * PMM_FRAME_SIZE .. (f + 1) * PMM_FRAME_SIZE - 1
RangeBytes(base, len) == base .. base + len - 1

\* No frame that holds a byte of a non-usable E820 entry is ever free or
\* handed out (pmm.c:53 and pmm.c:133: "Mark every frame in [base, base+len)
\* reserved", "carve out every non-usable E820 range").
CarvedOut ==
    step = "ready" =>
        \A f \in FreeFrames \cup owned, k \in 1 .. Count :
            memmap[k].type # E820_USABLE =>
                FrameBytes(f) \cap RangeBytes(memmap[k].base, memmap[k].length)
                    = {}

=============================================================================
