----------------------------- MODULE BootChain -----------------------------
(***************************************************************************)
(* The way from the BIOS to kmain: the boot sector (boot.asm) loads the    *)
(* kernel image sector by sector and stages the BIOS memory map, stage 2   *)
(* (entry.asm) checks for long mode, zeroes .bss and copies the map there. *)
(*                                                                         *)
(* Memory is the image area, in sectors from 0x10000, the staging buffer   *)
(* and the two globals.  An image sector holds the LBA whose data it is.   *)
(* BIOS calls are external: a read or a query may fail, and the list of    *)
(* memory ranges may be empty, short or endless.                           *)
(***************************************************************************)
EXTENDS Integers, Sequences, FiniteSets

CONSTANTS
    KERNEL_SECTORS,   \* sectors of the kernel image
    spt, heads,       \* sectors per track and heads of the floppy (18, 2)
    SegSectors,       \* sectors in a 64K segment (128)
    CylLow,           \* values of the low cylinder byte in CH (256)
    E820_MAX,         \* entries of the staging buffer (64)
    BiosEntries,      \* memory ranges that the BIOS may report
    Fallback,         \* the range that is synthesized: 1MB, 127MB, usable
    DiskFails         \* may a sector read fail?

ASSUME BootAssumption ==
    /\ KERNEL_SECTORS \in Nat \ {0}
    /\ spt \in Nat \ {0} /\ heads \in Nat \ {0}
    /\ SegSectors \in Nat \ {0} /\ CylLow \in Nat \ {0}
    /\ E820_MAX \in Nat \ {0}
    /\ DiskFails \in BOOLEAN

\* The ten bits of a cylinder number reach every sector of the image.
ASSUME GeometryAssumption == KERNEL_SECTORS < ((4 * CylLow) * heads) * spt

Unread  == 0                     \* LBA 0 is the boot sector, never loaded
Garbage == "garbage"             \* what .bss holds before it is zeroed

ASSUME EntriesAssumption ==
    /\ Fallback \notin BiosEntries
    /\ Garbage \notin BiosEntries \cup {Fallback}

VARIABLES
    at,             \* the routine that runs
    image,          \* memory from 0x10000 on, in sectors
    lba, buf_seg, buf_off, sectors_left, tries,
    bad,            \* history: the LBAs of which a read failed
    staged,         \* index -> entry of the staging buffer
    count,          \* E820_COUNT
    e820_next,      \* continuation; 0 starts or ends the list
    answers,        \* history: the entries that the BIOS reported
    memmap          \* the first memmap_count entries of memmap_entries

loadVars == <<image, lba, buf_seg, buf_off, sectors_left, tries, bad>>
e820Vars == <<staged, count, e820_next, answers>>
bootVars == <<at, loadVars, e820Vars, memmap>>

-----------------------------------------------------------------------------
(* load_kernel                                                             *)

\* CHS address: the cylinder's low byte in CH, two more bits in CL[7:6].
lba_to_chs(n) ==
    LET cyl == (n \div spt) \div heads
    IN  [sector |-> (n % spt) + 1, head |-> (n \div spt) % heads,
         ch |-> cyl % CylLow, high |-> (cyl \div CylLow) % 4]

\* The sector the drive finds at a CHS address (external).
DriveSector(chs) ==
    ((chs.ch + chs.high * CylLow) * heads + chs.head) * spt + chs.sector - 1

\* int 0x13 returns its error in the carry flag, and the `xor ax, ax` before
\* the `jnc` clears it.
CarryAt_jnc(carry) == FALSE

\* Mutant: the segment is not advanced when the offset wraps.
NextSegStuck == buf_seg

\* buf_off wraps to 0 after 64K, and the segment moves on.
NextSeg == IF buf_off + 1 = SegSectors THEN buf_seg + 1 ELSE buf_seg

\* One attempt to read a sector, and what follows it: on to the next sector,
\* or reset and retry, or give up after the third failure.
Attempt(failed) ==
    LET carry == CarryAt_jnc(failed)
        to    == buf_seg * SegSectors + buf_off
    IN  /\ at = "load_kernel"
        /\ failed => DiskFails
        /\ image' = IF failed THEN image
                    ELSE [image EXCEPT ![to] = DriveSector(lba_to_chs(lba))]
        /\ bad' = IF failed THEN bad \cup {lba} ELSE bad
        /\ tries' = IF carry THEN tries - 1 ELSE 3
        /\ lba' = IF carry THEN lba ELSE lba + 1
        /\ buf_off' = IF carry THEN buf_off ELSE (buf_off + 1) % SegSectors
        /\ buf_seg' = IF carry THEN buf_seg ELSE NextSeg
        /\ sectors_left' = IF carry THEN sectors_left ELSE sectors_left - 1
        /\ at' = IF carry
                 THEN IF tries = 1 THEN "halt" ELSE "load_kernel"
                 ELSE IF sectors_left = 1 THEN "query_e820" ELSE "load_kernel"
        /\ UNCHANGED <<e820Vars, memmap>>

-----------------------------------------------------------------------------
(* query_e820                                                              *)

\* Mutant: the list is followed as long as the BIOS goes on.
BufferFullNever == FALSE

BufferFull == count >= E820_MAX

\* Mutant: an entry without room is skipped, and the list followed.
FullBufferSkips == "query_e820"

\* Where the loop goes once the buffer is full.
FullBuffer == "fallback"

\* The BIOS answers with entry e, which it writes to the buffer itself, and a
\* continuation; a full buffer is noticed only now.
QueryAnswer(e, next) ==
    /\ at = "query_e820"
    /\ staged' = [k \in DOMAIN staged \cup {count} |->
                     IF k = count THEN e ELSE staged[k]]
    /\ \/ /\ BufferFull
          /\ at' = FullBuffer
          /\ UNCHANGED <<count, e820_next, answers>>
       \/ /\ ~ BufferFull
          /\ count' = count + 1
          /\ e820_next' = next
          /\ answers' = Append(answers, e)
          /\ at' = IF next = 0 THEN "fallback" ELSE "query_e820"
    /\ UNCHANGED <<loadVars, memmap>>

\* Carry, or no 'SMAP': the list ends here.
QueryFail ==
    /\ at = "query_e820"
    /\ at' = "fallback"
    /\ UNCHANGED <<loadVars, e820Vars, memmap>>

\* With no entry at all, one is made up.
UseFallback ==
    /\ at = "fallback"
    /\ staged' = IF count # 0 THEN staged
                 ELSE [k \in DOMAIN staged \cup {0} |->
                          IF k = 0 THEN Fallback ELSE staged[k]]
    /\ count' = IF count = 0 THEN 1 ELSE count
    /\ at' = "boot32_entry"
    /\ UNCHANGED <<loadVars, e820_next, answers, memmap>>

-----------------------------------------------------------------------------
(* Stage 2                                                                 *)

\* A CPU without long mode stops here; otherwise paging goes on.
CheckLongMode ==
    /\ at = "boot32_entry"
    /\ at' \in {"no_longmode", "zero_bss"}
    /\ UNCHANGED <<loadVars, e820Vars, memmap>>

ZeroBss ==
    /\ at = "zero_bss"
    /\ memmap' = <<>>
    /\ at' = "copy_map"
    /\ UNCHANGED <<loadVars, e820Vars>>

\* Mutant: the copy starts at the second entry.
StagedShifted(k) == IF k \in DOMAIN staged THEN staged[k] ELSE Garbage

\* The k-th entry copied.
Staged(k) == staged[k - 1]

\* The count, cut at E820_MAX, and the entries.
CopyMap ==
    /\ at = "copy_map"
    /\ memmap' = [k \in 1 .. IF count > E820_MAX THEN E820_MAX ELSE count |->
                     Staged(k)]
    /\ at' = "kmain"
    /\ UNCHANGED <<loadVars, e820Vars>>

-----------------------------------------------------------------------------
BootInit ==
    /\ at = "load_kernel"
    /\ image = [k \in 0 .. KERNEL_SECTORS - 1 |-> Unread]
    /\ lba = 1
    /\ buf_seg = 0 /\ buf_off = 0
    /\ sectors_left = KERNEL_SECTORS
    /\ tries = 3
    /\ bad = {}
    /\ staged = [k \in {} |-> Garbage]
    /\ count = 0
    /\ e820_next = 0
    /\ answers = <<>>
    /\ memmap = <<Garbage>>

BootNext ==
    \/ Attempt(FALSE)
    \/ Attempt(TRUE)
    \/ \E e \in BiosEntries, next \in {0, 1} : QueryAnswer(e, next)
    \/ QueryFail
    \/ UseFallback
    \/ CheckLongMode
    \/ ZeroBss
    \/ CopyMap

\* Straight-line code with interrupts of no consequence: it keeps going.
BootSpec == BootInit /\ [][BootNext]_bootVars /\ WF_bootVars(BootNext)

-----------------------------------------------------------------------------
(* Properties                                                              *)

\* The variables of the boot sector stay in range, at most E820_MAX entries
\* are counted, and no read goes outside the image area.
BootTypeOK ==
    /\ at \in {"load_kernel", "query_e820", "fallback", "boot32_entry",
               "no_longmode", "zero_bss", "copy_map", "kmain", "halt"}
    /\ DOMAIN image = 0 .. KERNEL_SECTORS - 1
    /\ lba \in 1 .. KERNEL_SECTORS + 1
    /\ buf_off \in 0 .. SegSectors - 1
    /\ sectors_left \in 0 .. KERNEL_SECTORS
    /\ tries \in 0 .. 3
    /\ count \in 0 .. E820_MAX
    /\ bad \subseteq 1 .. KERNEL_SECTORS
    /\ DOMAIN staged \subseteq Nat
    /\ answers \in Seq(BiosEntries)

\* No entry is written outside the staging buffer, however many ranges the
\* BIOS reports (boot.asm:14 and 35: "64 max = 1536 bytes, ends 0x5620",
\* boot.asm:193: "index < 64").
MapInBuffer == DOMAIN staged \subseteq 0 .. E820_MAX - 1

\* When the boot sector moves on, every sector that was read is in its place,
\* across track, head, cylinder byte and 64K segment boundaries, whatever
\* other reads failed.
SectorsPlaced ==
    at \notin {"load_kernel", "halt"} =>
        \A k \in DOMAIN image :
            image[k] = IF k + 1 \in bad THEN Unread ELSE k + 1

\* When the boot sector moves on, the whole image is there: a read that keeps
\* failing halts instead (boot.asm:5-6, 129).
KernelLoaded ==
    at \notin {"load_kernel", "halt"} =>
        \A k \in DOMAIN image : image[k] = k + 1

\* kmain finds exactly what the BIOS reported before it failed or ended, in
\* order and cut at E820_MAX, or the fallback entry when that is nothing
\* (boot.asm:196-202): the PMM never gets an empty map or old .bss.
MapDelivered ==
    at = "kmain" => memmap = (IF answers = <<>> THEN <<Fallback>> ELSE answers)

\* The boot chain ends, also when the BIOS never ends its list.
BootEnds == <>(at \in {"kmain", "no_longmode", "halt"})

=============================================================================
