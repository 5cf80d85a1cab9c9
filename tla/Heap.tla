-------------------------------- MODULE Heap --------------------------------
(***************************************************************************)
(* The kernel heap, kernel/mm/kmalloc.c, on top of the frames that the     *)
(* physical memory manager hands out.                                      *)
(*                                                                         *)
(* The allocator keeps all of its state but three globals in the first 16  *)
(* bytes of the frames it manages: two words that are a header (magic,     *)
(* frames) while the run is allocated and a list node (next, frames) while *)
(* it is free.  The model keeps those two words for every frame, w0 and    *)
(* w1.  A pointer to a run is the number of its first frame, and frame 0   *)
(* is the null pointer.  The walk over the free list is one node per step  *)
(* and reads nothing but these words; the sets of runs are history         *)
(* variables that only the properties look at.                             *)
(***************************************************************************)
EXTENDS PMM

CONSTANTS
    KMALLOC_INIT_FRAMES,  \* frames the heap starts with (64)
    KMALLOC_MAGIC,        \* the word that marks a header
    HEADER,               \* sizeof(struct kmalloc_header) (16)
    Sizes,                \* the sizes that callers ask for
    OutsideFrees,         \* do callers free pointers outside the window?
    ClientFrames          \* frames that other PMM clients hold, at most

NULL == 0

ASSUME HeapAssumption ==
    /\ KMALLOC_INIT_FRAMES \in Nat \ {0}
    /\ KMALLOC_MAGIC \in Nat \ Frames
    /\ HEADER \in Nat \ {0}
    /\ Sizes \subseteq Words
    /\ OutsideFrees \in BOOLEAN
    /\ ClientFrames \in Nat

VARIABLES
    mem,            \* the first two words of every frame
    g_free_list,
    g_free_frames,
    g_used_frames,
    hpc,            \* "boot", "init", "seed", "idle", "walk" or "fault"
    addr, hi,       \* the locals addr and i of kmalloc_init
    need, link,     \* the locals of kmalloc; link = NULL is &g_free_list
    size,           \* the argument of the kmalloc under way
    taken,          \* history: the frames that kmalloc_init pulled
    pool,           \* history: the frames it put on the free list
    free, live,     \* history: first frames of the free and allocated runs
    asked,          \* history: the size each allocated run was asked for
    returned        \* history: every pointer kmalloc ever returned

listVars == <<mem, g_free_list, g_free_frames, g_used_frames>>
bootVars == <<addr, hi, taken, pool>>
runVars  == <<free, live, asked, returned>>
callVars == <<need, link, size>>
heapVars == <<listVars, hpc, bootVars, callVars, runVars>>
vars     == <<pmmVars, heapVars>>

\* The frames of the run that starts at h.
Run(h) == h .. h + mem[h].w1 - 1

\* *link: the pointer stored in the link field of node l, or in the head.
Slot(l) == IF l = NULL THEN g_free_list ELSE mem[l].w0

-----------------------------------------------------------------------------
(* The rest of the kernel as a client of the PMM                           *)

Clients == owned \ taken

BootPMM == pmm_init /\ UNCHANGED heapVars

ClientAlloc ==
    /\ step = "ready" /\ hpc = "idle"
    /\ Cardinality(Clients) < ClientFrames
    /\ \E ret \in {f * PMM_FRAME_SIZE : f \in Frames} : pmm_alloc_frame(ret)
    /\ UNCHANGED heapVars

ClientFree ==
    /\ step = "ready" /\ hpc = "idle"
    /\ \E f \in Clients : pmm_free_frame(f * PMM_FRAME_SIZE)
    /\ UNCHANGED heapVars

-----------------------------------------------------------------------------
(* kmalloc_init                                                            *)

StartInit ==
    /\ step = "ready" /\ hpc = "boot"
    /\ g_free_list' = NULL
    /\ g_free_frames' = 0
    /\ g_used_frames' = 0
    /\ addr' = 0
    /\ hi' = 0
    /\ hpc' = "init"
    /\ UNCHANGED <<pmmVars, mem, taken, pool, callVars, runVars>>

\* Mutant: a hole before the frame goes unnoticed.
ContiguousUpwards(next) == addr # 0 => next >= addr + hi

\* The frame follows the ones pulled so far, or is the first.
Contiguous(next) == addr # 0 => next = addr + hi

\* Mutant: the loop runs once too often.
MorePast == hi <= KMALLOC_INIT_FRAMES

\* The condition of the loop.
More == hi < KMALLOC_INIT_FRAMES

\* One iteration of the loop that pulls frames; a break leads to "seed".
PullFrame(next) ==
    /\ hpc = "init"
    /\ More
    /\ pmm_alloc_frame(next * PMM_FRAME_SIZE)
    /\ taken' = IF next = 0 THEN taken ELSE taken \cup {next}
    /\ \/ /\ next = 0 \/ ~ Contiguous(next)
          /\ hpc' = "seed"
          /\ UNCHANGED <<addr, hi>>
       \/ /\ next # 0 /\ Contiguous(next)
          /\ addr' = IF addr = 0 THEN next ELSE addr
          /\ hi' = hi + 1
          /\ UNCHANGED hpc
    /\ UNCHANGED <<listVars, pool, callVars, runVars>>

\* The frames pulled become the one free run.
SeedPool ==
    /\ hpc = "seed" \/ (hpc = "init" /\ ~ More)
    /\ hpc' = "idle"
    /\ \/ /\ addr # 0
          /\ mem' = [mem EXCEPT ![addr] = [w0 |-> NULL, w1 |-> hi]]
          /\ g_free_list' = addr
          /\ g_free_frames' = hi
          /\ pool' = addr .. addr + hi - 1
          /\ free' = {addr}
       \/ /\ addr = 0
          /\ UNCHANGED <<mem, g_free_list, g_free_frames, pool, free>>
    /\ UNCHANGED <<pmmVars, g_used_frames, addr, hi, taken, live, asked,
                   returned, callVars>>

-----------------------------------------------------------------------------
(* kmalloc                                                                 *)

\* Mutant: the header is not counted.
frames_forBare(s) ==
    LET bytes == IF s = 0 THEN 1 ELSE s
    IN  ((bytes + PMM_FRAME_SIZE - 1) % U64) \div PMM_FRAME_SIZE

\* Bytes to whole frames, header included, in 64-bit arithmetic.
frames_for(s) ==
    LET bytes == ((IF s = 0 THEN 1 ELSE s) + HEADER) % U64
    IN  ((bytes + PMM_FRAME_SIZE - 1) % U64) \div PMM_FRAME_SIZE

kmalloc(s) ==
    /\ hpc = "idle"
    /\ size' = s
    /\ need' = frames_for(s)
    /\ link' = NULL
    /\ hpc' = "walk"
    /\ UNCHANGED <<pmmVars, listVars, bootVars, runVars>>

\* Mutant: the walk goes past every second node.
NextLinkSkip ==
    IF mem[Slot(link)].w0 \in Frames \ {NULL} THEN mem[Slot(link)].w0
                                              ELSE Slot(link)

\* link = &run->next
NextLink == Slot(link)

\* The run is too small: follow its next pointer.
WalkNext ==
    /\ hpc = "walk"
    /\ Slot(link) \in Frames \ {NULL}
    /\ mem[Slot(link)].w1 < need
    /\ link' = NextLink
    /\ UNCHANGED <<pmmVars, listVars, hpc, bootVars, need, size, runVars>>

\* *link = p, on memory m.
Store(m, p) ==
    /\ g_free_list' = IF link = NULL THEN p ELSE g_free_list
    /\ mem' = IF link = NULL THEN m ELSE [m EXCEPT ![link].w0 = p]

\* Mutant: the tail starts one frame too far.
SplitAtPast(run) == run + need + 1

\* Where the tail of a split run starts.
SplitAt(run) == run + need

\* Mutant: the tail keeps the length of the whole run.
TailNodeLong(run) == mem[run]

\* The list node of the tail.
TailNode(run) == [w0 |-> mem[run].w0, w1 |-> mem[run].w1 - need]

\* Mutant: the magic is not stamped.
HeaderBlank(frames) == [w0 |-> NULL, w1 |-> frames]

Header(frames) == [w0 |-> KMALLOC_MAGIC, w1 |-> frames]

\* Mutant: run_frames stays the length of the whole run after a split.
ChargeWhole(run) == mem[run].w1

\* run_frames: what the allocation takes out of the run.
Charge(run) == IF mem[run].w1 > need THEN need ELSE mem[run].w1

\* The writes of a successful kmalloc: the tail's node, *link, the header.
\* The link field is never in the run itself, so their order shows only when
\* need = 0 puts node and header into the same frame: the header stays.
TakeRun(run) ==
    LET split == mem[run].w1 > need
    IN  /\ IF split
           THEN Store([mem EXCEPT ![SplitAt(run)] = TailNode(run),
                                  ![run] = Header(Charge(run))], SplitAt(run))
           ELSE Store([mem EXCEPT ![run] = Header(Charge(run))], mem[run].w0)
        /\ g_free_frames' = (g_free_frames - Charge(run)) % U64
        /\ g_used_frames' = (g_used_frames + Charge(run)) % U64
        /\ free' = (free \ {run}) \cup (IF split THEN {SplitAt(run)} ELSE {})

\* The first run that fits: split it or take it whole, and return it.
WalkTake ==
    /\ hpc = "walk"
    /\ Slot(link) \in Frames \ {NULL}
    /\ mem[Slot(link)].w1 >= need
    /\ TakeRun(Slot(link))
    /\ live' = live \cup {Slot(link)}
    /\ asked' = [asked EXCEPT ![Slot(link)] = size]
    /\ returned' = returned \cup {Slot(link)}
    /\ hpc' = "idle"
    /\ UNCHANGED <<pmmVars, bootVars, callVars>>

\* The loop stops at NULL and kmalloc returns NULL.  Any other word that is
\* no frame of the identity map makes the load of run->frames fault, and the
\* exception handler halts the machine.
WalkEnd ==
    /\ hpc = "walk"
    /\ Slot(link) \notin Frames \ {NULL}
    /\ hpc' = IF Slot(link) = NULL THEN "idle" ELSE "fault"
    /\ UNCHANGED <<pmmVars, listVars, bootVars, callVars, runVars>>

-----------------------------------------------------------------------------
(* kfree                                                                   *)

\* Pointers a caller may pass: NULL, one that kmalloc returned at any time
\* (so stale ones too), or a wild one that does not point at a magic word.
MayKfree(p) == p = NULL \/ p \in returned \/ mem[p].w0 # KMALLOC_MAGIC

\* Mutant: the magic word is not looked at.
HeaderUnchecked(p) == mem[p].w1 # 0

\* The two checks on the header.
HeaderValid(p) == mem[p].w0 = KMALLOC_MAGIC /\ mem[p].w1 # 0

\* A valid header becomes the head of the free list; anything else is
\* ignored.
kfree(p) ==
    \/ /\ p # NULL
       /\ HeaderValid(p)
       /\ mem' = [mem EXCEPT ![p].w0 = g_free_list]
       /\ g_free_list' = p
       /\ g_free_frames' = (g_free_frames + mem[p].w1) % U64
       /\ g_used_frames' = (g_used_frames - mem[p].w1) % U64
       /\ free' = free \cup {p}
       /\ live' = live \ {p}
       /\ asked' = [asked EXCEPT ![p] = 0]
       /\ UNCHANGED returned
    \/ /\ p = NULL \/ ~ HeaderValid(p)
       /\ UNCHANGED <<listVars, runVars>>

Kfree ==
    /\ hpc = "idle"
    /\ \E p \in Frames : MayKfree(p) /\ kfree(p)
    /\ UNCHANGED <<pmmVars, hpc, bootVars, callVars>>

\* The header of a pointer outside the identity map cannot be read: the
\* load of hdr->magic faults.
KfreeOutside ==
    /\ OutsideFrees
    /\ hpc = "idle"
    /\ hpc' = "fault"
    /\ UNCHANGED <<pmmVars, listVars, bootVars, callVars, runVars>>

-----------------------------------------------------------------------------
\* The owner of an allocated run writes into a frame of its payload; the
\* worst it can leave there is something that looks like a header.
ClientWrite ==
    /\ hpc = "idle"
    /\ \E h \in live : \E f \in Run(h) \ {h} :
           mem' = [mem EXCEPT ![f] = [w0 |-> KMALLOC_MAGIC, w1 |-> 1]]
    /\ UNCHANGED <<pmmVars, g_free_list, g_free_frames, g_used_frames, hpc,
                   bootVars, callVars, runVars>>

HeapInit ==
    /\ Init
    /\ mem = [f \in Frames |-> [w0 |-> 0, w1 |-> 0]]
    /\ g_free_list = NULL
    /\ g_free_frames = 0
    /\ g_used_frames = 0
    /\ hpc = "boot"
    /\ addr = 0
    /\ hi = 0
    /\ need = 0
    /\ link = NULL
    /\ size = 0
    /\ taken = {}
    /\ pool = {}
    /\ free = {}
    /\ live = {}
    /\ asked = [f \in Frames |-> 0]
    /\ returned = {}

Walk == WalkNext \/ WalkTake \/ WalkEnd

HeapNext ==
    \/ BootPMM
    \/ StartInit
    \/ \E next \in Frames : PullFrame(next)
    \/ SeedPool
    \/ \E s \in Sizes : kmalloc(s)
    \/ Walk
    \/ Kfree
    \/ KfreeOutside
    \/ ClientWrite
    \/ ClientAlloc
    \/ ClientFree

\* kmalloc runs to its end once called: nothing else runs meanwhile.
HeapSpec == HeapInit /\ [][HeapNext]_vars /\ WF_vars(Walk)

-----------------------------------------------------------------------------
(* Properties                                                              *)

Heads == free \cup live

\* The types of the C declarations; counters stay within a uint64_t.
HeapTypeOK ==
    /\ mem \in [Frames -> [w0 : Frames \cup {KMALLOC_MAGIC}, w1 : Words]]
    /\ g_free_list \in Frames \cup {KMALLOC_MAGIC}
    /\ g_free_frames \in Words
    /\ g_used_frames \in Words
    /\ hpc \in {"boot", "init", "seed", "idle", "walk", "fault"}
    /\ addr \in Frames /\ hi \in 0 .. KMALLOC_INIT_FRAMES
    /\ need \in Words /\ size \in Words /\ link \in Frames
    /\ taken \in SUBSET Frames /\ pool \in SUBSET Frames
    /\ free \in SUBSET Frames /\ live \in SUBSET Frames
    /\ returned \in SUBSET Frames
    /\ asked \in [Frames -> Words]

\* Splitting and freeing in any order keeps the runs non-empty, disjoint and
\* together exactly the pool: no frame is in two blocks, in a block and on
\* the free list, or in neither.
RunsPartition ==
    /\ free \cap live = {}
    /\ \A h \in Heads : mem[h].w1 > 0 /\ Run(h) \subseteq pool
    /\ \A f \in pool : \E h \in Heads : f \in Run(h)
    /\ \A g, h \in Heads : g # h => Run(g) \cap Run(h) = {}

\* Every pointer that kmalloc ever returned still points at the start of a
\* run, however often its frames were freed and split again, and the word
\* there is the magic exactly while that run is allocated.  So kfree never
\* reads payload through a stale pointer, and catches every double free
\* (kmalloc.c:37-38) of a block that was not handed out again.
MagicExact ==
    /\ returned \subseteq Heads
    /\ \A h \in Heads : mem[h].w0 = KMALLOC_MAGIC <=> h \in live

\* The n runs of order are the free ones, linked in that order.
Linked(order, n) ==
    /\ {order[k] : k \in 1 .. n} = free
    /\ g_free_list = IF n = 0 THEN NULL ELSE order[1]
    /\ \A k \in 1 .. n : mem[order[k]].w0 = IF k = n THEN NULL ELSE order[k + 1]

\* The free list runs through every free run once and then ends: no cycle,
\* no node lost, no allocated run on it.
FreeListExact ==
    LET n == Cardinality(free)
    IN  \E order \in [1 .. n -> free] : Linked(order, n)

\* The two counters of the boot self-test are the frames of the free and of
\* the allocated runs.
HeapCounters ==
    /\ g_free_frames = Cardinality(UNION {Run(h) : h \in free})
    /\ g_used_frames = Cardinality(UNION {Run(h) : h \in live})

\* An allocated run is long enough for its header and all the bytes asked
\* for (kmalloc.h:32).
BlockHoldsRequest ==
    \A h \in live : mem[h].w1 * PMM_FRAME_SIZE >= HEADER + asked[h]

\* The frames of the heap are never free in the PMM, whatever callers do to
\* the heap (kmalloc.c:19-25), and the PMM's own accounting stays right.  Of
\* the frames it pulled at most one, behind a hole, is not in its pool.
HeapOwnsPool ==
    /\ pool \subseteq taken
    /\ taken \subseteq owned
    /\ hpc \notin {"boot", "init", "seed"} => Cardinality(taken \ pool) <= 1
    /\ FramesConserved

\* The heap writes only to frames of its pool, and only while the PMM counts
\* them as handed out.  That holds also when a size that wraps has emptied a
\* free run and left the magic word as its next pointer, and for the stale and
\* wild pointers of MayKfree: a walk along a broken list faults, it never writes
\* to frames of others (kmalloc.c:14-25).
WritesInPool ==
    [][\A f \in Frames : mem'[f] # mem[f] => f \in pool' \cap owned]_vars

\* A request that rounds up to zero frames returns NULL, so no allocated run
\* is empty (kmalloc.h:21-22).
NoEmptyBlock == \A h \in live : mem[h].w1 # 0

\* A block is never grown, cut or moved while it is allocated: its length
\* word changes only after it was freed, whatever its owner writes into its
\* payload and whatever others allocate.
BlocksStable ==
    [][\A h \in live \cap live' : mem'[h] = mem[h]]_vars

\* The heap implements the abstract allocator: kmalloc takes the front of
\* some run that fits, answers NULL only when none does, and always answers.
Abstract == INSTANCE BlockAllocator WITH
    avail  <- {Run(h) : h \in free},
    blocks <- {Run(h) : h \in live},
    pend   <- IF hpc = "walk" THEN need ELSE 0

ImplementsBlockAllocator == Abstract!ASpec

=============================================================================
