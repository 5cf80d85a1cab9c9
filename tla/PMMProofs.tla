----------------------------- MODULE PMMProofs -----------------------------
(***************************************************************************)
(* Proofs about the physical memory manager, for every frame size, window, *)
(* memory map and list of fixed ranges.                                    *)
(***************************************************************************)
EXTENDS PMM, FiniteSetTheorems, TLAPS

-----------------------------------------------------------------------------
(* Frames of a range                                                       *)

\* Quotients: the frame number of a byte at or below n frames is at most n.
LEMMA DivBound ==
    ASSUME NEW x \in Nat, NEW d \in Nat \ {0}, NEW n \in Nat, x <= d * n
    PROVE  x \div d \in Nat /\ x \div d <= n
<1>1. x \div d \in Nat /\ d * (x \div d) <= x
    BY SMT
<1>2. ASSUME x \div d >= n + 1
      PROVE  FALSE
    <2>1. d * (x \div d) >= d * (n + 1)
        BY <1>1, <1>2, SMT
    <2>2. d * (n + 1) = d * n + d
        BY SMT
    <2>3. QED
        BY <1>1, <2>1, <2>2, SMT
<1>3. QED
    BY <1>1, <1>2, SMT

\* The end that both loops of pmm_init compute lies inside the window.
LEMMA RangeEndInWindow ==
    ASSUME NEW base \in Words, NEW len \in Words
    PROVE  RangeEnd(base, len) \in Nat /\ RangeEnd(base, len) <= PMM_MAX_BYTES
<1>1. PMM_MAX_BYTES \in Nat
    BY SizesAssumption, SMT DEF PMM_MAX_BYTES
<1>2. (base + len) % U64 \in Nat
    BY SizesAssumption, <1>1, SMT DEF Words
<1>3. QED
    BY <1>1, <1>2, SizesAssumption, SMT DEF RangeEnd, Words

\* No range makes pmm_init touch a bit outside the bitmap.
LEMMA FramesInWindow ==
    ASSUME NEW base \in Words, NEW len \in Words
    PROVE  /\ UsableFrames(base, len) \in SUBSET Frames
           /\ ReservedFrames(base, len) \in SUBSET Frames
<1> DEFINE top == RangeEnd(base, len) \div PMM_FRAME_SIZE
<1>1. top \in Nat /\ top <= PMM_MAX_FRAMES
    BY RangeEndInWindow, DivBound, SizesAssumption, Zenon DEF PMM_MAX_BYTES
<1>2. base \in Nat /\ base + PMM_FRAME_SIZE - 1 \in Nat
    BY SizesAssumption, SMT DEF Words
<1>3. base \div PMM_FRAME_SIZE \in Nat
      /\ (base + PMM_FRAME_SIZE - 1) \div PMM_FRAME_SIZE \in Nat
    BY <1>2, SizesAssumption, SMT
<1> HIDE DEF top
<1>4. \A lo \in Nat : (lo .. top - 1) \in SUBSET Frames
    BY <1>1, SizesAssumption, SMT DEF Frames
<1>5. QED
    BY <1>3, <1>4 DEF UsableFrames, ReservedFrames, top

-----------------------------------------------------------------------------
(* Counting                                                                *)

\* Subsets of the window are finite and have at most PMM_MAX_FRAMES members.
LEMMA WindowFinite ==
    ASSUME NEW S \in SUBSET Frames
    PROVE  IsFiniteSet(S) /\ Cardinality(S) \in 0 .. PMM_MAX_FRAMES
<1>1. IsFiniteSet(Frames) /\ Cardinality(Frames) = PMM_MAX_FRAMES
    BY FS_Interval, SizesAssumption DEF Frames
<1>2. IsFiniteSet(S) /\ Cardinality(S) <= PMM_MAX_FRAMES
    BY <1>1, FS_Subset
<1>3. QED
    BY <1>2, FS_CardinalityType, SizesAssumption

\* Clearing the bits fs frees exactly the ones of fs that were set.
LEMMA CountCleared ==
    ASSUME NEW B \in SUBSET Frames, NEW fs \in SUBSET B
    PROVE  Cardinality(Frames \ (B \ fs))
               = Cardinality(Frames \ B) + Cardinality(fs)
<1>1. Frames \ (B \ fs) = (Frames \ B) \cup fs /\ (Frames \ B) \cap fs = {}
    OBVIOUS
<1>2. IsFiniteSet(Frames \ B) /\ IsFiniteSet(fs)
      /\ Cardinality(Frames \ B) \in Nat /\ Cardinality(fs) \in Nat
    BY WindowFinite, SizesAssumption
<1>3. QED
    BY <1>1, <1>2, FS_Union, FS_EmptySet

\* Setting the bits fs takes away exactly the ones of fs that were clear.
LEMMA CountReserved ==
    ASSUME NEW B \in SUBSET Frames, NEW fs \in SUBSET Frames
    PROVE  Cardinality(Frames \ (B \cup fs))
               = Cardinality(Frames \ B) - Cardinality(fs \ B)
<1>1. /\ Frames \ (B \cup fs) = (Frames \ B) \ (fs \ B)
      /\ (Frames \ B) \cap (fs \ B) = fs \ B
    OBVIOUS
<1>2. IsFiniteSet(Frames \ B)
    BY WindowFinite
<1>3. Cardinality((Frames \ B) \ (fs \ B))
          = Cardinality(Frames \ B) - Cardinality((Frames \ B) \cap (fs \ B))
    BY <1>2, FS_Difference, Zenon
<1>4. QED
    BY <1>1, <1>3, Zenon

\* A finite set has at most as many members as one that includes it.
LEMMA CountSubset ==
    ASSUME NEW T \in SUBSET Frames, NEW S \in SUBSET T
    PROVE  Cardinality(S) <= Cardinality(T)
BY WindowFinite, FS_Subset

-----------------------------------------------------------------------------
(* The entries of the map                                                  *)

\* Every entry pmm_init looks at is an E820 entry, and its frames are in
\* the window.
LEMMA EntryFrames ==
    ASSUME TypeOK, NEW k \in 1 .. Count
    PROVE  /\ Cleared(memmap[k]) \in SUBSET Frames
           /\ Carved(memmap[k]) \in SUBSET Frames
<1>1. memmap \in Seq(Entries)
    BY MapsAssumption DEF TypeOK
<1>2. k \in 1 .. Len(memmap)
    BY <1>1, SizesAssumption DEF Count
<1>3. memmap[k] \in Entries
    BY <1>1, <1>2
<1>4. memmap[k].base \in Words /\ memmap[k].length \in Words
    BY <1>3 DEF Entries
<1>5. QED
    BY <1>4, FramesInWindow DEF Cleared, Carved

\* The same of the fixed ranges.
LEMMA FixedFrames ==
    ASSUME NEW k \in 1 .. Len(FixedRanges)
    PROVE  ReservedFrames(FixedRanges[k].base, FixedRanges[k].length)
               \in SUBSET Frames
<1>1. FixedRanges[k] \in Ranges
    BY MapsAssumption
<1>2. FixedRanges[k].base \in Words /\ FixedRanges[k].length \in Words
    BY <1>1 DEF Ranges
<1>3. QED
    BY <1>2, FramesInWindow

\* The number of entries pmm_init looks at is a natural number.
LEMMA CountType ==
    ASSUME TypeOK
    PROVE  Count \in Nat /\ Len(FixedRanges) \in Nat
<1>1. memmap \in Seq(Entries)
    BY MapsAssumption DEF TypeOK
<1>2. QED
    BY <1>1, MapsAssumption, SizesAssumption DEF Count

\* All that the map makes usable lies in the window.
LEMMA UsableInWindow ==
    ASSUME TypeOK, NEW n \in Nat, n <= Count
    PROVE  UsableUpTo(n) \in SUBSET Frames
<1>1. \A k \in 1 .. n : k \in 1 .. Count
    BY CountType
<1>2. \A k \in 1 .. n : Cleared(memmap[k]) \in SUBSET Frames
    BY <1>1, EntryFrames
<1>3. QED
    BY <1>2 DEF UsableUpTo

-----------------------------------------------------------------------------
(* The inductive invariant                                                 *)

\* The states pmm_init starts from.
LEMMA InitIndInv == Init => IndInv
BY SizesAssumption DEF Init, IndInv, TypeOK, LoopInv, CountersExact,
                       FramesConserved

\* Filling the bitmap leaves nothing free.
LEMMA ClearBitmapInv == IndInv /\ ClearBitmap => IndInv'
<1> SUFFICES ASSUME IndInv, ClearBitmap PROVE IndInv'
    OBVIOUS
<1>1. TypeOK /\ TypeOK'
    BY SizesAssumption DEF IndInv, TypeOK, ClearBitmap
<1>2. Count \in Nat /\ Count' = Count
    BY <1>1, CountType DEF ClearBitmap, Count
<1>3. FreeFrames' = {} /\ UsableUpTo(0)' = {} /\ Cardinality({}) = 0
    BY FS_EmptySet DEF ClearBitmap, FreeFrames, UsableUpTo
<1>4. LoopInv'
    BY <1>1, <1>2, <1>3 DEF IndInv, LoopInv, ClearBitmap
<1>5. CountersExact' /\ FramesConserved'
    BY <1>3 DEF ClearBitmap, CountersExact, FramesConserved
<1>6. QED
    BY <1>1, <1>4, <1>5 DEF IndInv

\* One entry of the first pass.
LEMMA UsableEntryInv == IndInv /\ UsableEntry => IndInv'
<1> SUFFICES ASSUME IndInv, UsableEntry PROVE IndInv'
    OBVIOUS
<1> DEFINE fs == Cleared(memmap[i]) \cap bitmap
<1>1. TypeOK /\ i \in 1 .. Count /\ Count \in Nat /\ Count' = Count
    BY CountType DEF IndInv, TypeOK, UsableEntry, Count
<1>2. Cleared(memmap[i]) \in SUBSET Frames
    BY <1>1, EntryFrames
<1>3. FreeFrames = UsableUpTo(i - 1) /\ g_usable = g_free
      /\ g_free = Cardinality(FreeFrames) /\ owned = {}
    BY DEF IndInv, LoopInv, CountersExact, UsableEntry
<1>4. bitmap' = bitmap \ fs /\ i' = i + 1 /\ step' = "usable" /\ owned' = owned
      /\ memmap' = memmap
      /\ g_usable' = g_usable + Cardinality(fs)
      /\ g_free' = g_free + Cardinality(fs)
    BY DEF UsableEntry
<1>5. UsableUpTo(i) = UsableUpTo(i - 1) \cup Cleared(memmap[i])
    <2>1. 1 .. i = (1 .. i - 1) \cup {i}
        BY <1>1
    <2>2. QED
        BY <2>1 DEF UsableUpTo
<1>6. FreeFrames' = UsableUpTo(i)
    BY <1>1, <1>2, <1>3, <1>4, <1>5 DEF FreeFrames, TypeOK
<1>7. Cardinality(FreeFrames') = Cardinality(FreeFrames) + Cardinality(fs)
    BY <1>1, <1>4, CountCleared DEF FreeFrames, TypeOK
<1>8. FreeFrames' \in SUBSET Frames
    BY DEF FreeFrames
<1>9. Cardinality(FreeFrames') \in 0 .. PMM_MAX_FRAMES
    BY <1>8, WindowFinite
<1>10. TypeOK'
    BY <1>1, <1>3, <1>4, <1>7, <1>9, SizesAssumption DEF TypeOK
<1>11. UsableUpTo(i - 1)' = UsableUpTo(i)
    <2>1. i' - 1 = i
        BY <1>1, <1>4
    <2>2. QED
        BY <1>4, <2>1 DEF UsableUpTo
<1>12. LoopInv'
    BY <1>1, <1>3, <1>4, <1>6, <1>11 DEF LoopInv
<1>13. CountersExact' /\ FramesConserved'
    BY <1>3, <1>4, <1>7, <1>10 DEF CountersExact, FramesConserved, TypeOK
<1>14. QED
    BY <1>10, <1>12, <1>13 DEF IndInv

\* Reserving frames keeps the types and the counters, whatever the frames.
LEMMA ReserveInv ==
    ASSUME IndInv, NEW fs \in SUBSET Frames, Reserve(fs),
           step \in {"carve", "fixed"},
           UNCHANGED <<memmap, g_usable, step, owned>>, i' = i + 1
    PROVE  /\ TypeOK' /\ CountersExact'
           /\ FreeFrames' = FreeFrames \ fs
<1>1. TypeOK /\ g_free = Cardinality(FreeFrames) /\ g_free <= g_usable
      /\ g_usable = Cardinality(UsableUpTo(Count))
    BY DEF IndInv, CountersExact
<1>2. bitmap' = bitmap \cup fs /\ g_free' = g_free - Cardinality(fs \ bitmap)
    BY DEF Reserve
<1>3. Cardinality(FreeFrames') = g_free'
    BY <1>1, <1>2, CountReserved DEF FreeFrames, TypeOK
<1>4. FreeFrames' = FreeFrames \ fs /\ FreeFrames' \in SUBSET Frames
      /\ FreeFrames \in SUBSET Frames
    BY <1>2 DEF FreeFrames
<1>5. Cardinality(FreeFrames') \in 0 .. PMM_MAX_FRAMES
      /\ Cardinality(FreeFrames') <= Cardinality(FreeFrames)
    BY <1>4, WindowFinite, CountSubset
<1>6. TypeOK'
    BY <1>1, <1>2, <1>3, <1>5 DEF TypeOK
<1>7. UsableUpTo(Count)' = UsableUpTo(Count)
    BY DEF UsableUpTo, Count
<1>8. g_free' <= g_usable'
    BY <1>1, <1>3, <1>5, <1>6, SizesAssumption DEF TypeOK
<1>9. CountersExact'
    BY <1>1, <1>3, <1>7, <1>8 DEF CountersExact
<1>10. QED
    BY <1>4, <1>6, <1>9

\* One entry of the second pass.
LEMMA CarveEntryInv == IndInv /\ CarveEntry => IndInv'
<1> SUFFICES ASSUME IndInv, CarveEntry PROVE IndInv'
    OBVIOUS
<1>1. TypeOK /\ i \in 1 .. Count /\ Count \in Nat /\ Count' = Count
      /\ step = "carve"
    BY CountType DEF IndInv, TypeOK, CarveEntry, Count
<1>2. Carved(memmap[i]) \in SUBSET Frames
    BY <1>1, EntryFrames
<1>3. TypeOK' /\ CountersExact' /\ FreeFrames' = FreeFrames \ Carved(memmap[i])
    BY <1>1, <1>2, ReserveInv DEF CarveEntry
<1>4. i' = i + 1 /\ step' = "carve" /\ owned' = owned /\ memmap' = memmap
    BY DEF CarveEntry
<1>5. CarvedUpTo(i) = CarvedUpTo(i - 1) \cup Carved(memmap[i])
    <2>1. 1 .. i = (1 .. i - 1) \cup {i}
        BY <1>1
    <2>2. QED
        BY <2>1 DEF CarvedUpTo
<1>6. CarvedUpTo(i - 1)' = CarvedUpTo(i)
    <2>1. i' - 1 = i
        BY <1>1, <1>4
    <2>2. QED
        BY <1>4, <2>1 DEF CarvedUpTo
<1>7. UsableUpTo(Count)' = UsableUpTo(Count)
    BY <1>1, <1>4 DEF UsableUpTo
<1>8. FreeFrames = UsableUpTo(Count) \ CarvedUpTo(i - 1) /\ owned = {}
    BY <1>1 DEF IndInv, LoopInv
<1>9. FreeFrames' = UsableUpTo(Count)' \ CarvedUpTo(i - 1)'
    BY <1>3, <1>5, <1>6, <1>7, <1>8
<1>10. LoopInv'
    BY <1>1, <1>4, <1>8, <1>9 DEF LoopInv
<1>11. FramesConserved'
    BY <1>4 DEF FramesConserved
<1>12. QED
    BY <1>3, <1>10, <1>11 DEF IndInv

\* One fixed range.
LEMMA FixedRangeInv == IndInv /\ FixedRange => IndInv'
<1> SUFFICES ASSUME IndInv, FixedRange PROVE IndInv'
    OBVIOUS
<1> DEFINE fs == ReservedFrames(FixedRanges[i].base, FixedRanges[i].length)
<1>1. TypeOK /\ i \in 1 .. Len(FixedRanges) /\ Len(FixedRanges) \in Nat
      /\ Count' = Count /\ step = "fixed"
    BY CountType DEF IndInv, TypeOK, FixedRange, Count
<1>2. fs \in SUBSET Frames
    BY <1>1, FixedFrames
<1>3. TypeOK' /\ CountersExact' /\ FreeFrames' = FreeFrames \ fs
    BY <1>1, <1>2, ReserveInv DEF FixedRange
<1>4. i' = i + 1 /\ step' = "fixed" /\ owned' = owned /\ memmap' = memmap
    BY DEF FixedRange
<1>5. FixedUpTo(i) = FixedUpTo(i - 1) \cup fs
    <2>1. 1 .. i = (1 .. i - 1) \cup {i}
        BY <1>1
    <2>2. QED
        BY <2>1 DEF FixedUpTo
<1>6. FixedUpTo(i - 1)' = FixedUpTo(i)
    <2>1. i' - 1 = i
        BY <1>1, <1>4
    <2>2. QED
        BY <2>1 DEF FixedUpTo
<1>7. UsableUpTo(Count)' = UsableUpTo(Count)
      /\ CarvedUpTo(Count)' = CarvedUpTo(Count)
    BY <1>1, <1>4 DEF UsableUpTo, CarvedUpTo
<1>8. FreeFrames = UsableUpTo(Count) \ (CarvedUpTo(Count) \cup FixedUpTo(i - 1))
      /\ owned = {}
    BY <1>1 DEF IndInv, LoopInv
<1> HIDE DEF fs
<1>9. FreeFrames' =
          UsableUpTo(Count)' \ (CarvedUpTo(Count)' \cup FixedUpTo(i - 1)')
    BY <1>3, <1>5, <1>6, <1>7, <1>8
<1>10. LoopInv'
    BY <1>1, <1>4, <1>8, <1>9 DEF LoopInv
<1>11. FramesConserved'
    BY <1>4 DEF FramesConserved
<1>12. QED
    BY <1>3, <1>10, <1>11 DEF IndInv

\* The end of a pass: its loop invariant at the last index is the next one
\* at the first, and after the last pass it is FramesConserved.
LEMMA PassDoneInv ==
    ASSUME IndInv,
           \/ PassDone("usable", Count, "carve")
           \/ PassDone("carve", Count, "fixed")
           \/ PassDone("fixed", Len(FixedRanges), "ready")
    PROVE  IndInv'
<1>1. TypeOK /\ Count \in Nat /\ Len(FixedRanges) \in Nat /\ i \in Nat
    BY CountType DEF IndInv, TypeOK
<1>2. UNCHANGED <<memmap, bitmap, g_usable, g_free, owned>> /\ i' = 1
      /\ step \in {"usable", "carve", "fixed"}
      /\ step' \in {"carve", "fixed", "ready"}
    BY DEF PassDone
<1>3. TypeOK'
    BY <1>1, <1>2 DEF TypeOK
<1>4. Count' = Count /\ FreeFrames' = FreeFrames
    BY <1>2 DEF Count, FreeFrames
<1>5. UsableUpTo(Count)' = UsableUpTo(Count)
      /\ CarvedUpTo(Count)' = CarvedUpTo(Count)
    BY <1>2, <1>4 DEF UsableUpTo, CarvedUpTo
<1>6. CarvedUpTo(i - 1)' = {} /\ FixedUpTo(i - 1)' = {}
    <2>1. 1 .. i' - 1 = {}
        BY <1>2
    <2>2. QED
        BY <2>1 DEF CarvedUpTo, FixedUpTo
<1>7. owned = {} /\ owned' = {}
    BY <1>2 DEF IndInv, LoopInv
<1>8. g_free = Cardinality(FreeFrames) /\ g_free <= g_usable
    BY <1>2 DEF IndInv, CountersExact
<1>9. CASE PassDone("usable", Count, "carve")
    <2>1. i - 1 = Count /\ FreeFrames = UsableUpTo(i - 1)
          /\ g_usable = g_free /\ step = "usable" /\ step' = "carve"
        BY <1>1, <1>9 DEF IndInv, LoopInv, PassDone
    <2>2. g_usable = Cardinality(UsableUpTo(Count))
        BY <1>8, <2>1
    <2>3. LoopInv'
        BY <1>1, <1>2, <1>4, <1>5, <1>6, <1>7, <2>1 DEF LoopInv
    <2>4. CountersExact' /\ FramesConserved'
        BY <1>2, <1>4, <1>5, <1>8, <2>1, <2>2
        DEF CountersExact, FramesConserved
    <2>5. QED
        BY <1>3, <2>3, <2>4 DEF IndInv
<1>10. CASE PassDone("carve", Count, "fixed")
    <2>1. i - 1 = Count /\ step = "carve" /\ step' = "fixed"
          /\ FreeFrames = UsableUpTo(Count) \ CarvedUpTo(i - 1)
        BY <1>1, <1>10 DEF IndInv, LoopInv, PassDone
    <2>2. FreeFrames' =
              UsableUpTo(Count)' \ (CarvedUpTo(Count)' \cup FixedUpTo(i - 1)')
        BY <1>4, <1>5, <1>6, <2>1
    <2>3. LoopInv'
        BY <1>1, <1>2, <1>7, <2>1, <2>2 DEF LoopInv
    <2>4. CountersExact' /\ FramesConserved'
        BY <1>2, <1>4, <1>5, <1>8, <2>1
        DEF CountersExact, FramesConserved, IndInv
    <2>5. QED
        BY <1>3, <2>3, <2>4 DEF IndInv
<1>11. CASE PassDone("fixed", Len(FixedRanges), "ready")
    <2>1. i - 1 = Len(FixedRanges) /\ step = "fixed" /\ step' = "ready"
          /\ FreeFrames =
                 UsableUpTo(Count) \ (CarvedUpTo(Count) \cup FixedUpTo(i - 1))
        BY <1>1, <1>11 DEF IndInv, LoopInv, PassDone
    <2>2. FixedUpTo(Len(FixedRanges))' = FixedUpTo(Len(FixedRanges))
        BY DEF FixedUpTo
    <2>3. FramesConserved'
        BY <1>4, <1>5, <1>7, <2>1, <2>2 DEF FramesConserved, BootFree
    <2>4. LoopInv'
        BY <2>1 DEF LoopInv
    <2>5. CountersExact'
        BY <1>2, <1>4, <1>5, <1>8, <2>1 DEF CountersExact, IndInv
    <2>6. QED
        BY <1>3, <2>3, <2>4, <2>5 DEF IndInv
<1>12. QED
    BY <1>9, <1>10, <1>11

\* The frame that pmm_alloc_frame picks is free.
LEMMA FirstFreeIsFree ==
    ASSUME FreeFrames # {}
    PROVE  FirstFree \in FreeFrames
<1>1. FreeFrames \subseteq Nat
    BY SizesAssumption DEF FreeFrames, Frames
<1> DEFINE R == {ss \in Nat \X Nat : ss[1] < ss[2]}
<1>2. IsWellFoundedOn(R, Nat)
    <2>1. R = OpToRel(<, Nat)
        BY Zenon DEF OpToRel
    <2>2. QED
        BY <2>1, NatLessThanWellFounded, Zenon
<1>3. \E f \in FreeFrames : \A g \in FreeFrames : f <= g
    <2> HIDE DEF R
    <2>1. PICK f \in FreeFrames : \A g \in FreeFrames : ~ (<<g, f>> \in R)
        BY <1>1, <1>2, WFMin, Zenon
    <2> USE DEF R
    <2>2. \A g \in FreeFrames : ~ (g < f)
        BY <1>1, <2>1
    <2>3. \A g \in FreeFrames : f <= g
        BY <1>1, <2>2
    <2>4. QED
        BY <2>3
<1>4. QED
    BY <1>3, Zenon DEF FirstFree

\* A frame that moves from free to owned or back keeps the invariant.
LEMMA MoveInv ==
    ASSUME IndInv, step = "ready",
           UNCHANGED <<memmap, g_usable, step, i>>,
           bitmap' \in SUBSET Frames, owned' \in SUBSET Frames,
           g_free' = Cardinality(FreeFrames'),
           FreeFrames' \cap owned' = {},
           FreeFrames' \cup owned' = FreeFrames \cup owned
    PROVE  IndInv'
<1>1. TypeOK /\ g_usable = Cardinality(UsableUpTo(Count))
      /\ FreeFrames \cup owned = BootFree
    BY DEF IndInv, CountersExact, FramesConserved
<1>2. Count' = Count /\ UsableUpTo(Count)' = UsableUpTo(Count)
      /\ BootFree' = BootFree
    BY DEF Count, UsableUpTo, CarvedUpTo, FixedUpTo, BootFree
<1>3. UsableUpTo(Count) \in SUBSET Frames
    BY <1>1, CountType, UsableInWindow
<1>4. FreeFrames' \in SUBSET UsableUpTo(Count)
    BY <1>1 DEF BootFree
<1>5. Cardinality(FreeFrames') <= Cardinality(UsableUpTo(Count))
    BY <1>3, <1>4, CountSubset
<1>6. FreeFrames' \in SUBSET Frames
    BY DEF FreeFrames
<1>7. g_free' \in 0 .. PMM_MAX_FRAMES
    BY <1>6, WindowFinite
<1>8. TypeOK'
    BY <1>1, <1>7 DEF TypeOK
<1>9. CountersExact'
    BY <1>1, <1>2, <1>5 DEF CountersExact
<1>10. FramesConserved' /\ LoopInv'
    BY <1>1, <1>2 DEF FramesConserved, LoopInv
<1>11. QED
    BY <1>8, <1>9, <1>10 DEF IndInv

\* Stuttering and calls without effect.
LEMMA StutterInv == IndInv /\ UNCHANGED pmmVars => IndInv'
BY DEF IndInv, TypeOK, LoopInv, CountersExact, FramesConserved, pmmVars,
       Count, FreeFrames, BootFree, UsableUpTo, CarvedUpTo, FixedUpTo

\* pmm_alloc_frame takes a free frame.
LEMMA AllocInv ==
    ASSUME IndInv, step = "ready", NEW ret, pmm_alloc_frame(ret)
    PROVE  IndInv'
<1>1. CASE FreeFrames = {}
    BY <1>1, StutterInv DEF pmm_alloc_frame
<1>2. CASE FreeFrames # {}
    <2> DEFINE f == FirstFree
    <2>1. f \in FreeFrames
        BY <1>2, FirstFreeIsFree
    <2>2. bitmap' = bitmap \cup {f} /\ g_free' = g_free - 1
          /\ owned' = owned \cup {f}
          /\ UNCHANGED <<memmap, g_usable, step, i>>
        BY <1>2 DEF pmm_alloc_frame
    <2> HIDE DEF f
    <2>3. TypeOK /\ g_free = Cardinality(FreeFrames)
          /\ FreeFrames \cap owned = {}
        BY DEF IndInv, CountersExact, FramesConserved
    <2>4. FreeFrames' = FreeFrames \ {f} /\ f \in Frames
        BY <2>1, <2>2 DEF FreeFrames
    <2>5. IsFiniteSet(FreeFrames)
        BY WindowFinite DEF FreeFrames
    <2>6. Cardinality(FreeFrames \ {f}) = Cardinality(FreeFrames) - 1
        BY <2>1, <2>5, FS_RemoveElement, Zenon
    <2>7. bitmap' \in SUBSET Frames /\ owned' \in SUBSET Frames
        BY <2>2, <2>3, <2>4 DEF TypeOK
    <2>8. FreeFrames' \cap owned' = {}
          /\ FreeFrames' \cup owned' = FreeFrames \cup owned
        BY <2>1, <2>2, <2>3, <2>4
    <2>9. QED
        BY <2>2, <2>3, <2>4, <2>6, <2>7, <2>8, MoveInv
<1>3. QED
    BY <1>1, <1>2

\* pmm_free_frame gives an owned frame back, or ignores its argument.
LEMMA FreeInv ==
    ASSUME IndInv, step = "ready",
           NEW addr \in Words, MayFree(addr), pmm_free_frame(addr),
           ~ FreesOOM \/ addr \div PMM_FRAME_SIZE \in owned
    PROVE  IndInv'
<1> DEFINE f == addr \div PMM_FRAME_SIZE
<1>1. CASE UNCHANGED pmmVars
    BY <1>1, StutterInv
<1>2. CASE /\ addr % PMM_FRAME_SIZE = 0 /\ addr < PMM_MAX_BYTES
           /\ f \in bitmap /\ bitmap' = bitmap \ {f}
           /\ g_free' = g_free + 1 /\ owned' = owned \ {f}
           /\ UNCHANGED <<memmap, g_usable, step, i>>
    <2>1. PMM_MAX_BYTES \in Nat /\ addr \in Nat
        BY SizesAssumption, SMT DEF PMM_MAX_BYTES, Words
    <2>2. ~ (addr >= PMM_MAX_BYTES)
        BY <1>2, <2>1
    <2>3. f \in owned \/ f \in FreeFrames
        BY <1>2, <2>2 DEF MayFree
    <2> HIDE DEF f
    <2>4. f \in owned
        BY <1>2, <2>3 DEF FreeFrames
    <2>5. TypeOK /\ g_free = Cardinality(FreeFrames)
          /\ FreeFrames \cap owned = {}
        BY DEF IndInv, CountersExact, FramesConserved
    <2>6. f \in Frames /\ f \notin FreeFrames
        BY <2>4, <2>5 DEF TypeOK
    <2>7. FreeFrames' = FreeFrames \cup {f}
        BY <1>2, <2>6 DEF FreeFrames
    <2>8. IsFiniteSet(FreeFrames)
        BY WindowFinite DEF FreeFrames
    <2>9. Cardinality(FreeFrames \cup {f}) = Cardinality(FreeFrames) + 1
        BY <2>6, <2>8, FS_AddElement, Zenon
    <2>10. bitmap' \in SUBSET Frames /\ owned' \in SUBSET Frames
        BY <1>2, <2>5 DEF TypeOK
    <2>11. FreeFrames' \cap owned' = {}
           /\ FreeFrames' \cup owned' = FreeFrames \cup owned
        BY <1>2, <2>4, <2>5, <2>7
    <2>12. QED
        BY <1>2, <2>5, <2>7, <2>9, <2>10, <2>11, MoveInv
<1>3. QED
    BY <1>1, <1>2 DEF pmm_free_frame, Freeable

\* One step per action.
LEMMA NextInv == ~ FreesOOM /\ IndInv /\ [Next]_pmmVars => IndInv'
<1> SUFFICES ASSUME ~ FreesOOM, IndInv, [Next]_pmmVars PROVE IndInv'
    OBVIOUS
<1>1. CASE ClearBitmap
    BY <1>1, ClearBitmapInv
<1>2. CASE UsableEntry
    BY <1>2, UsableEntryInv
<1>3. CASE CarveEntry
    BY <1>3, CarveEntryInv
<1>4. CASE FixedRange
    BY <1>4, FixedRangeInv
<1>5. CASE \/ PassDone("usable", Count, "carve")
           \/ PassDone("carve", Count, "fixed")
           \/ PassDone("fixed", Len(FixedRanges), "ready")
    BY <1>5, PassDoneInv
<1>6. CASE AllocFrame
    BY <1>6, AllocInv DEF AllocFrame
<1>7. CASE FreeFrame
    BY <1>7, FreeInv DEF FreeFrame
<1>8. CASE UNCHANGED pmmVars
    BY <1>8, StutterInv
<1>9. QED
    BY <1>1, <1>2, <1>3, <1>4, <1>5, <1>6, <1>7, <1>8 DEF Next, pmm_init

\* The invariant holds in every reachable state, for every memory map.
THEOREM PMMIndInv == ~ FreesOOM => (Spec => []IndInv)
<1> SUFFICES ASSUME ~ FreesOOM PROVE Spec => []IndInv
    OBVIOUS
<1>1. IndInv /\ [Next]_pmmVars => IndInv'
    BY NextInv
<1>2. QED
    BY <1>1, InitIndInv, PTL DEF Spec

-----------------------------------------------------------------------------
(* What follows                                                            *)

\* Types of pmm.c: the bitmap never holds a bit outside the window, for any
\* E820 map, wrapping and zero-length entries included.
THEOREM PMMTypeOK == ~ FreesOOM => (Spec => []TypeOK)
<1> SUFFICES ASSUME ~ FreesOOM PROVE Spec => []TypeOK
    OBVIOUS
<1>1. IndInv => TypeOK
    BY DEF IndInv
<1>2. QED
    BY <1>1, PMMIndInv, PTL

\* No frame is ever both free and handed out, and none is lost.
THEOREM PMMFramesConserved == ~ FreesOOM => (Spec => []FramesConserved)
<1> SUFFICES ASSUME ~ FreesOOM PROVE Spec => []FramesConserved
    OBVIOUS
<1>1. IndInv => FramesConserved
    BY DEF IndInv
<1>2. QED
    BY <1>1, PMMIndInv, PTL

\* The counters that kmain prints are exact.
THEOREM PMMCountersExact == ~ FreesOOM => (Spec => []CountersExact)
<1> SUFFICES ASSUME ~ FreesOOM PROVE Spec => []CountersExact
    OBVIOUS
<1>1. IndInv => CountersExact
    BY DEF IndInv
<1>2. QED
    BY <1>1, PMMIndInv, PTL

\* As long as nobody frees the OOM result, 0 from pmm_alloc_frame means OOM.
THEOREM PMMFrameZero == ~ FreesOOM => (Spec => []FrameZeroReserved)
<1> SUFFICES ASSUME ~ FreesOOM PROVE Spec => []FrameZeroReserved
    OBVIOUS
<1>1. 0 \in ReservedFrames(FixedRanges[1].base, FixedRanges[1].length)
    <2> DEFINE L == FixedRanges[1].length
    <2>1. FixedRanges[1].base = 0 /\ L >= PMM_FRAME_SIZE
          /\ L < PMM_MAX_BYTES /\ L \in Nat /\ L # 0
        <3>1. FixedRanges[1] \in Ranges
            BY LowMemoryAssumption, MapsAssumption
        <3>2. L \in Words
            BY <3>1 DEF Ranges
        <3>3. L \in Nat
            BY <3>2, SizesAssumption DEF Words
        <3>4. QED
            BY <3>3, LowMemoryAssumption, SizesAssumption
    <2> HIDE DEF L
    <2>2. PMM_MAX_BYTES \in Nat /\ PMM_MAX_BYTES > 0
        BY <2>1, SizesAssumption, SMT DEF PMM_MAX_BYTES
    <2>3. (0 + L) % U64 = L
        BY <2>1, <2>2, SizesAssumption, SMT
    <2>4. RangeEnd(0, L) = L
        BY <2>1, <2>2, <2>3 DEF RangeEnd
    <2>5. L \div PMM_FRAME_SIZE >= 1 /\ L \div PMM_FRAME_SIZE \in Nat
        BY <2>1, SizesAssumption, SMT
    <2>6. 0 \div PMM_FRAME_SIZE = 0
        BY SizesAssumption, SMT
    <2>7. ReservedFrames(0, L) = 0 .. (L \div PMM_FRAME_SIZE) - 1
        BY <2>1, <2>2, <2>4, <2>6 DEF ReservedFrames
    <2>8. 0 \in ReservedFrames(0, L)
        BY <2>5, <2>7
    <2>9. QED
        BY <2>1, <2>8 DEF L
<1>2. 0 \in FixedUpTo(Len(FixedRanges))
    <2>1. 1 \in 1 .. Len(FixedRanges)
        BY LowMemoryAssumption, MapsAssumption
    <2>2. QED
        BY <1>1, <2>1 DEF FixedUpTo
<1>3. IndInv => FrameZeroReserved
    <2> SUFFICES ASSUME IndInv, step = "ready"
                 PROVE  0 \in bitmap /\ 0 \notin owned
        BY DEF FrameZeroReserved
    <2>1. FreeFrames \cup owned = BootFree
        BY DEF IndInv, FramesConserved
    <2>2. 0 \notin FreeFrames \cup owned
        BY <1>2, <2>1 DEF BootFree
    <2>3. 0 \in Frames
        BY SizesAssumption DEF Frames
    <2>4. QED
        BY <2>2, <2>3 DEF FreeFrames
<1>4. QED
    BY <1>3, PMMIndInv, PTL

=============================================================================
