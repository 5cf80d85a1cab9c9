-------------------------- MODULE BootChainProofs ---------------------------
(***************************************************************************)
(* Proofs about the boot chain, for every image size, floppy geometry,     *)
(* segment size, staging buffer and list of memory ranges.                 *)
(***************************************************************************)
EXTENDS BootChain, SequenceTheorems, TLAPS

-----------------------------------------------------------------------------
(* The CHS address                                                         *)

\* Quotient and remainder give the number back.
LEMMA DivMod ==
    ASSUME NEW n \in Nat, NEW d \in Nat \ {0}
    PROVE  /\ n \div d \in Nat
           /\ n % d \in 0 .. d - 1
           /\ (n \div d) * d + (n % d) = n
BY SMT

\* A quotient below a product bound.
LEMMA DivBelow ==
    ASSUME NEW n \in Nat, NEW d \in Nat \ {0}, NEW m \in Nat, n < m * d
    PROVE  n \div d < m
<1>1. n \div d \in Nat /\ (n \div d) * d + (n % d) = n /\ n % d \in Nat
    BY DivMod
<1>2. ASSUME n \div d >= m PROVE FALSE
    <2>1. (n \div d) * d >= m * d
        BY <1>1, <1>2, SMT
    <2>2. (n \div d) * d \in Nat /\ m * d \in Nat
        BY <1>1, SMT
    <2>3. QED
        BY <1>1, <2>1, <2>2, SMT
<1>3. QED
    BY <1>1, <1>2, SMT

\* The drive finds the sector that lba_to_chs was asked for, as long as the
\* number fits the ten bits of the cylinder.
LEMMA ChsRoundTrip ==
    ASSUME NEW n \in Nat, n < ((4 * CylLow) * heads) * spt
    PROVE  DriveSector(lba_to_chs(n)) = n
<1> DEFINE track == n \div spt
           cyl   == track \div heads
           high  == cyl \div CylLow
<1>1. track \in Nat /\ n % spt \in Nat /\ track * spt + (n % spt) = n
    BY DivMod, BootAssumption
<1>2. track < (4 * CylLow) * heads
    <2>1. (4 * CylLow) * heads \in Nat
        BY BootAssumption, SMT
    <2>2. QED
        BY <2>1, DivBelow, BootAssumption
<1>3. cyl \in Nat /\ track % heads \in Nat /\ cyl * heads + (track % heads) = track
    BY <1>1, DivMod, BootAssumption
<1>4. cyl < 4 * CylLow
    <2>1. 4 * CylLow \in Nat
        BY BootAssumption, SMT
    <2> HIDE DEF track
    <2>2. QED
        BY <1>1, <1>2, <2>1, DivBelow, BootAssumption
<1>5. high \in Nat /\ cyl % CylLow \in Nat /\ high * CylLow + (cyl % CylLow) = cyl
    <2>1. cyl \in Nat /\ CylLow \in Nat \ {0}
        BY <1>3, BootAssumption
    <2> HIDE DEF cyl
    <2>2. high \in Nat /\ cyl % CylLow \in 0 .. CylLow - 1
          /\ high * CylLow + (cyl % CylLow) = cyl
        BY <2>1, DivMod, Zenon
    <2> HIDE DEF high
    <2>3. QED
        BY <2>1, <2>2
<1>6. high % 4 = high
    <2> HIDE DEF cyl
    <2>1. high < 4
        BY <1>3, <1>4, DivBelow, BootAssumption
    <2>2. QED
        BY <1>5, <2>1, SMT
<1>7. DriveSector(lba_to_chs(n))
          = (((cyl % CylLow) + (high % 4) * CylLow) * heads + (track % heads)) * spt
            + ((n % spt) + 1) - 1
    BY DEF DriveSector, lba_to_chs
<1> HIDE DEF track, cyl, high
<1>8. (cyl % CylLow) + high * CylLow = cyl
    <2>1. high * CylLow \in Nat
        BY <1>5, BootAssumption, SMT
    <2>2. QED
        BY <1>5, <2>1, SMT
<1>9. DriveSector(lba_to_chs(n)) = track * spt + ((n % spt) + 1) - 1
    BY <1>3, <1>6, <1>7, <1>8
<1>10. track * spt \in Nat
    BY <1>1, BootAssumption, SMT
<1>11. QED
    BY <1>1, <1>9, <1>10, SMT

-----------------------------------------------------------------------------
(* The inductive invariant                                                 *)

\* What load_kernel has done when it is about to read sector lba: the buffer
\* pointer is where that sector goes, the sectors before it are placed, the
\* ones behind it untouched.
LoadInv ==
    /\ buf_seg \in Nat
    /\ lba = buf_seg * SegSectors + buf_off + 1
    /\ sectors_left = KERNEL_SECTORS + 1 - lba
    /\ tries = 3
    /\ at = "load_kernel" => lba <= KERNEL_SECTORS
    /\ at # "load_kernel" => lba = KERNEL_SECTORS + 1
    /\ at # "halt"
    /\ bad \subseteq 1 .. lba - 1
    /\ \A k \in 0 .. KERNEL_SECTORS - 1 :
           image[k] = IF k + 1 < lba /\ k + 1 \notin bad THEN k + 1 ELSE Unread

\* What query_e820 has staged: the counted entries are the answers of the
\* BIOS in order, or the fallback alone.
Delivered == IF answers = <<>> THEN <<Fallback>> ELSE answers

MapInv ==
    /\ at \in {"load_kernel", "query_e820", "fallback"} =>
           /\ count = Len(answers)
           /\ \A k \in 1 .. count :
                  k - 1 \in DOMAIN staged /\ staged[k - 1] = answers[k]
    /\ at \in {"boot32_entry", "zero_bss", "copy_map"} =>
           /\ count = Len(Delivered)
           /\ \A k \in 1 .. count : staged[k - 1] = Delivered[k]
    /\ MapDelivered

BootInv == BootTypeOK /\ LoadInv /\ MapInv

\* The state in which the BIOS starts the boot sector.
LEMMA InitBootInv == BootInit => BootInv
<1> SUFFICES ASSUME BootInit PROVE BootInv
    OBVIOUS
<1>1. BootTypeOK
    BY BootAssumption DEF BootInit, BootTypeOK
<1>2. 0 * SegSectors = 0
    BY BootAssumption, SMT
<1>3. LoadInv
    BY <1>2, BootAssumption DEF BootInit, LoadInv, Unread
<1>4. MapInv
    BY DEF BootInit, MapInv, MapDelivered
<1>5. QED
    BY <1>1, <1>3, <1>4 DEF BootInv

\* One read, good or bad.
LEMMA AttemptInv ==
    ASSUME BootInv, NEW failed \in BOOLEAN, Attempt(failed)
    PROVE  BootInv'
<1> DEFINE to == buf_seg * SegSectors + buf_off
<1>1. /\ at = "load_kernel"
      /\ image' = IF failed THEN image
                  ELSE [image EXCEPT ![to] = DriveSector(lba_to_chs(lba))]
      /\ bad' = IF failed THEN bad \cup {lba} ELSE bad
      /\ tries' = 3
      /\ lba' = lba + 1
      /\ buf_off' = (buf_off + 1) % SegSectors
      /\ buf_seg' = NextSeg
      /\ sectors_left' = sectors_left - 1
      /\ at' = IF sectors_left = 1 THEN "query_e820" ELSE "load_kernel"
      /\ UNCHANGED <<e820Vars, memmap>>
    BY Zenon DEF Attempt, CarryAt_jnc
<1>2. /\ BootTypeOK /\ LoadInv /\ MapInv
      /\ lba \in 1 .. KERNEL_SECTORS /\ KERNEL_SECTORS \in Nat \ {0}
      /\ to = lba - 1 /\ to \in 0 .. KERNEL_SECTORS - 1
      /\ SegSectors \in Nat \ {0} /\ buf_off \in 0 .. SegSectors - 1
    <2>1. buf_seg * SegSectors \in Nat
        BY BootAssumption, SMT DEF BootInv, LoadInv
    <2>2. QED
        BY <1>1, <2>1, BootAssumption DEF BootInv, LoadInv, BootTypeOK
<1> HIDE DEF to
<1>3. DriveSector(lba_to_chs(lba)) = lba
    <2>1. ((4 * CylLow) * heads) * spt \in Nat
        BY BootAssumption, SMT
    <2>2. lba \in Nat /\ lba < ((4 * CylLow) * heads) * spt
        BY <1>2, <2>1, GeometryAssumption
    <2>3. QED
        BY <2>2, ChsRoundTrip
<1>4. /\ buf_seg' \in Nat /\ buf_off' \in 0 .. SegSectors - 1
      /\ lba' = buf_seg' * SegSectors + buf_off' + 1
    <2>1. buf_seg \in Nat /\ lba = buf_seg * SegSectors + buf_off + 1
        BY <1>2 DEF LoadInv
    <2>2. CASE buf_off + 1 = SegSectors
        <3>1. buf_off' = 0 /\ buf_seg' = buf_seg + 1
            BY <1>1, <1>2, <2>2, SMT DEF NextSeg
        <3>2. (buf_seg + 1) * SegSectors = buf_seg * SegSectors + SegSectors
              /\ buf_seg * SegSectors \in Nat
            BY <1>2, <2>1, SMT
        <3>3. QED
            BY <1>1, <1>2, <2>1, <2>2, <3>1, <3>2, SMT
    <2>3. CASE buf_off + 1 # SegSectors
        <3>1. buf_off' = buf_off + 1 /\ buf_seg' = buf_seg
            BY <1>1, <1>2, <2>3, SMT DEF NextSeg
        <3>2. buf_seg * SegSectors \in Nat
            BY <1>2, <2>1, SMT
        <3>3. QED
            BY <1>1, <1>2, <2>1, <2>3, <3>1, <3>2, SMT
    <2>4. QED
        BY <2>2, <2>3
<1>5. \A k \in 0 .. KERNEL_SECTORS - 1 :
          image'[k] = IF k + 1 < lba' /\ k + 1 \notin bad' THEN k + 1 ELSE Unread
    <2> SUFFICES ASSUME NEW k \in 0 .. KERNEL_SECTORS - 1
                 PROVE  image'[k] = IF k + 1 < lba' /\ k + 1 \notin bad'
                                    THEN k + 1 ELSE Unread
        OBVIOUS
    <2>1. /\ image[k] = IF k + 1 < lba /\ k + 1 \notin bad THEN k + 1 ELSE Unread
          /\ bad \subseteq 1 .. lba - 1
          /\ DOMAIN image = 0 .. KERNEL_SECTORS - 1
        BY <1>2 DEF LoadInv, BootTypeOK
    <2>2. CASE failed
        BY <1>1, <1>2, <2>1, <2>2
    <2>3. CASE ~ failed /\ k = to
        BY <1>1, <1>2, <1>3, <2>1, <2>3
    <2>4. CASE ~ failed /\ k # to
        BY <1>1, <1>2, <2>1, <2>4
    <2>5. QED
        BY <2>2, <2>3, <2>4
<1>6. BootTypeOK'
    <2>1. DOMAIN image' = DOMAIN image
        BY <1>1
    <2>2. bad' \subseteq 1 .. KERNEL_SECTORS
        BY <1>1, <1>2 DEF BootTypeOK
    <2>3. QED
        BY <1>1, <1>2, <1>4, <2>1, <2>2 DEF BootTypeOK, LoadInv, e820Vars
<1>7. LoadInv'
    <2>1. bad' \subseteq 1 .. lba' - 1
        BY <1>1, <1>2 DEF LoadInv
    <2>2. QED
        BY <1>1, <1>2, <1>4, <1>5, <2>1 DEF LoadInv
<1>8. MapInv'
    BY <1>1, <1>2 DEF MapInv, MapDelivered, Delivered, e820Vars
<1>9. QED
    BY <1>6, <1>7, <1>8 DEF BootInv

\* The loader's variables do not change after load_kernel.
LEMMA LoadUnchanged ==
    ASSUME BootInv, UNCHANGED loadVars,
           at \notin {"load_kernel", "halt"}, at' \notin {"load_kernel", "halt"}
    PROVE  LoadInv'
BY DEF BootInv, LoadInv, loadVars

\* The BIOS answers, with room for the entry or without.
LEMMA QueryAnswerInv ==
    ASSUME BootInv, NEW e \in BiosEntries, NEW next \in {0, 1},
           QueryAnswer(e, next)
    PROVE  BootInv'
<1>1. BootTypeOK /\ LoadInv /\ MapInv /\ at = "query_e820"
      /\ UNCHANGED <<loadVars, memmap>>
      /\ E820_MAX \in Nat \ {0}
    BY BootAssumption DEF BootInv, QueryAnswer
<1>2. /\ count \in 0 .. E820_MAX /\ answers \in Seq(BiosEntries)
      /\ count = Len(answers)
      /\ \A k \in 1 .. count :
             k - 1 \in DOMAIN staged /\ staged[k - 1] = answers[k]
    BY <1>1 DEF BootTypeOK, MapInv
<1>3. /\ DOMAIN staged' = DOMAIN staged \cup {count}
      /\ staged'[count] = e
      /\ \A k \in DOMAIN staged : k # count => staged'[k] = staged[k]
    BY DEF QueryAnswer
<1>4. DOMAIN staged' \subseteq Nat
    BY <1>1, <1>2, <1>3 DEF BootTypeOK
<1>5. CASE BufferFull
    <2>1. at' = "fallback" /\ UNCHANGED <<count, e820_next, answers>>
        BY <1>5 DEF QueryAnswer, FullBuffer
    <2>2. BootTypeOK'
        BY <1>1, <1>4, <2>1 DEF BootTypeOK, loadVars
    <2>3. LoadInv'
        BY <1>1, <2>1, LoadUnchanged
    <2>4. MapInv'
        BY <1>2, <1>3, <2>1 DEF MapInv, MapDelivered
    <2>5. QED
        BY <2>2, <2>3, <2>4 DEF BootInv
<1>6. CASE ~ BufferFull
    <2>1. /\ count' = count + 1
          /\ answers' = Append(answers, e)
          /\ at' = IF next = 0 THEN "fallback" ELSE "query_e820"
        BY <1>6 DEF QueryAnswer
    <2>2. count' \in 0 .. E820_MAX /\ answers' \in Seq(BiosEntries)
        BY <1>1, <1>2, <1>6, <2>1 DEF BufferFull
    <2>3. BootTypeOK'
        BY <1>1, <1>4, <2>1, <2>2 DEF BootTypeOK, loadVars
    <2>4. LoadInv'
        BY <1>1, <2>1, LoadUnchanged
    <2>5. /\ count' = Len(answers')
          /\ \A k \in 1 .. count' :
                 k - 1 \in DOMAIN staged' /\ staged'[k - 1] = answers'[k]
        <3>1. Len(answers') = Len(answers) + 1 /\ answers'[Len(answers) + 1] = e
              /\ \A k \in 1 .. Len(answers) : answers'[k] = answers[k]
            BY <1>2, <2>1
        <3>2. QED
            BY <1>2, <1>3, <2>1, <3>1
    <2>6. MapInv'
        BY <2>1, <2>5 DEF MapInv, MapDelivered
    <2>7. QED
        BY <2>3, <2>4, <2>6 DEF BootInv
<1>7. QED
    BY <1>5, <1>6

\* The list ends: the fallback entry if it was empty.
LEMMA UseFallbackInv == BootInv /\ UseFallback => BootInv'
<1> SUFFICES ASSUME BootInv, UseFallback PROVE BootInv'
    OBVIOUS
<1>1. /\ BootTypeOK /\ LoadInv /\ MapInv /\ at = "fallback"
      /\ at' = "boot32_entry" /\ E820_MAX \in Nat \ {0}
      /\ UNCHANGED <<loadVars, e820_next, answers, memmap>>
      /\ count' = IF count = 0 THEN 1 ELSE count
      /\ staged' = IF count # 0 THEN staged
                   ELSE [k \in DOMAIN staged \cup {0} |->
                            IF k = 0 THEN Fallback ELSE staged[k]]
    BY BootAssumption DEF BootInv, UseFallback
<1>2. /\ count \in 0 .. E820_MAX /\ answers \in Seq(BiosEntries)
      /\ count = Len(answers)
      /\ \A k \in 1 .. count :
             k - 1 \in DOMAIN staged /\ staged[k - 1] = answers[k]
    BY <1>1 DEF BootTypeOK, MapInv
<1>3. BootTypeOK'
    BY <1>1, <1>2 DEF BootTypeOK, loadVars
<1>4. LoadInv'
    BY <1>1, LoadUnchanged
<1>5. /\ count' = Len(Delivered')
      /\ \A k \in 1 .. count' : staged'[k - 1] = Delivered'[k]
    <2>1. CASE count = 0
        <3>1. answers = <<>> /\ Delivered' = <<Fallback>>
            BY <1>1, <1>2, <2>1, EmptySeq DEF Delivered
        <3>2. staged'[0] = Fallback /\ count' = 1
            BY <1>1, <2>1
        <3>3. QED
            BY <3>1, <3>2
    <2>2. CASE count # 0
        <3>1. answers # <<>> /\ Delivered' = answers
            BY <1>1, <1>2, <2>2 DEF Delivered
        <3>2. QED
            BY <1>1, <1>2, <2>2, <3>1
    <2>3. QED
        BY <2>1, <2>2
<1>6. MapInv'
    BY <1>1, <1>5 DEF MapInv, MapDelivered
<1>7. QED
    BY <1>3, <1>4, <1>6 DEF BootInv

\* The copy of the map.
LEMMA CopyMapInv == BootInv /\ CopyMap => BootInv'
<1> SUFFICES ASSUME BootInv, CopyMap PROVE BootInv'
    OBVIOUS
<1>1. /\ BootTypeOK /\ LoadInv /\ MapInv /\ at = "copy_map"
      /\ at' = "kmain" /\ E820_MAX \in Nat \ {0}
      /\ UNCHANGED <<loadVars, e820Vars>>
    BY BootAssumption DEF BootInv, CopyMap
<1>2. /\ count \in 0 .. E820_MAX /\ answers \in Seq(BiosEntries)
      /\ count = Len(Delivered)
      /\ \A k \in 1 .. count : staged[k - 1] = Delivered[k]
    BY <1>1 DEF BootTypeOK, MapInv
<1>3. memmap' = [k \in 1 .. count |-> staged[k - 1]]
    <2>1. (IF count > E820_MAX THEN E820_MAX ELSE count) = count
        BY <1>1, <1>2
    <2>2. QED
        BY <2>1, Zenon DEF CopyMap, Staged
<1>4. Delivered \in Seq(BiosEntries \cup {Fallback})
    <2>1. answers \in Seq(BiosEntries \cup {Fallback})
        BY <1>2, SeqMonotonic
    <2>2. <<Fallback>> \in Seq(BiosEntries \cup {Fallback})
        OBVIOUS
    <2>3. QED
        BY <2>1, <2>2 DEF Delivered
<1>5. Delivered = [k \in 1 .. Len(Delivered) |-> Delivered[k]]
    BY <1>4
<1>6. memmap' = Delivered
    BY <1>2, <1>3, <1>5
<1>7. MapInv'
    BY <1>1, <1>6 DEF MapInv, MapDelivered, Delivered, e820Vars
<1>8. BootTypeOK'
    BY <1>1 DEF BootTypeOK, loadVars, e820Vars
<1>9. LoadInv'
    BY <1>1, LoadUnchanged
<1>10. QED
    BY <1>7, <1>8, <1>9 DEF BootInv

\* The steps that only move on.
LEMMA MoveOnInv ==
    BootInv /\ (QueryFail \/ CheckLongMode \/ ZeroBss) => BootInv'
<1> SUFFICES ASSUME BootInv, QueryFail \/ CheckLongMode \/ ZeroBss
             PROVE  BootInv'
    OBVIOUS
<1>1. /\ BootTypeOK /\ LoadInv /\ MapInv
      /\ UNCHANGED <<loadVars, e820Vars>>
      /\ \/ at = "query_e820" /\ at' = "fallback"
         \/ at = "boot32_entry" /\ at' \in {"no_longmode", "zero_bss"}
         \/ at = "zero_bss" /\ at' = "copy_map"
    BY DEF BootInv, QueryFail, CheckLongMode, ZeroBss
<1>2. BootTypeOK'
    BY <1>1 DEF BootTypeOK, loadVars, e820Vars
<1>3. LoadInv'
    BY <1>1, LoadUnchanged
<1>4. MapInv'
    BY <1>1 DEF MapInv, MapDelivered, Delivered, e820Vars
<1>5. QED
    BY <1>2, <1>3, <1>4 DEF BootInv

\* The invariant of the whole chain.
LEMMA BootInvHolds == BootSpec => []BootInv
<1>1. BootInit => BootInv
    BY InitBootInv
<1>2. BootInv /\ [BootNext]_bootVars => BootInv'
    <2> SUFFICES ASSUME BootInv, [BootNext]_bootVars PROVE BootInv'
        OBVIOUS
    <2>1. CASE BootNext
        <3>1. CASE Attempt(FALSE) \/ Attempt(TRUE)
            BY <3>1, AttemptInv
        <3>2. CASE \E e \in BiosEntries, next \in {0, 1} : QueryAnswer(e, next)
            BY <3>2, QueryAnswerInv
        <3>3. CASE UseFallback
            BY <3>3, UseFallbackInv
        <3>4. CASE CopyMap
            BY <3>4, CopyMapInv
        <3>5. CASE QueryFail \/ CheckLongMode \/ ZeroBss
            BY <3>5, MoveOnInv
        <3>6. QED
            BY <2>1, <3>1, <3>2, <3>3, <3>4, <3>5 DEF BootNext
    <2>2. CASE UNCHANGED bootVars
        BY <2>2 DEF bootVars, loadVars, e820Vars, BootInv, BootTypeOK, LoadInv,
                    MapInv, MapDelivered, Delivered
    <2>3. QED
        BY <2>1, <2>2
<1>3. QED
    BY <1>1, <1>2, PTL DEF BootSpec

-----------------------------------------------------------------------------
(* The theorems                                                            *)

\* Types, and no write of the loader or of the BIOS outside the image area
\* and, but for one entry, the staging buffer.
THEOREM BootTypes == BootSpec => []BootTypeOK
<1>1. BootInv => BootTypeOK
    BY DEF BootInv
<1>2. QED
    BY <1>1, BootInvHolds, PTL

\* Every sector that could be read is in its place, on every floppy geometry
\* whose cylinders reach the image.
THEOREM BootSectorsPlaced == BootSpec => []SectorsPlaced
<1>1. BootInv => SectorsPlaced
    <2> SUFFICES ASSUME BootInv, at \notin {"load_kernel", "halt"},
                        NEW k \in DOMAIN image
                 PROVE  image[k] = IF k + 1 \in bad THEN Unread ELSE k + 1
        BY DEF SectorsPlaced
    <2>1. k \in 0 .. KERNEL_SECTORS - 1 /\ lba = KERNEL_SECTORS + 1
        BY DEF BootInv, LoadInv, BootTypeOK
    <2>2. image[k] = IF k + 1 < lba /\ k + 1 \notin bad THEN k + 1 ELSE Unread
        BY <2>1 DEF BootInv, LoadInv
    <2>3. QED
        BY <2>1, <2>2, BootAssumption
<1>2. QED
    BY <1>1, BootInvHolds, PTL

\* kmain gets what the BIOS reported, or the fallback.
THEOREM BootMapDelivered == BootSpec => []MapDelivered
<1>1. BootInv => MapDelivered
    BY DEF BootInv, MapInv
<1>2. QED
    BY <1>1, BootInvHolds, PTL

=============================================================================
