----------------------------- MODULE HeapProofs -----------------------------
(***************************************************************************)
(* Proofs about the kernel heap, for every number of frames, every map,    *)
(* every sequence of kmalloc, kfree, stale and double frees, payload       *)
(* writes and calls of other clients of the PMM.                           *)
(***************************************************************************)
EXTENDS Heap, PMMProofs

-----------------------------------------------------------------------------
(* The frames of the heap, whatever callers ask for                        *)

\* The frames that kmalloc_init accepted.
Pulled == IF addr = 0 THEN {} ELSE addr .. addr + hi - 1

Booting == hpc \in {"boot", "init", "seed"}

\* kmalloc_init's loop, and what stays of it.
PoolInv ==
    /\ IndInv
    /\ hpc \in {"boot", "init", "seed", "idle", "walk", "fault"}
    /\ hpc # "boot" => step = "ready"
    /\ addr \in Frames /\ hi \in 0 .. KMALLOC_INIT_FRAMES
    /\ addr = 0 => hi = 0
    /\ addr # 0 => hi > 0
    /\ Pulled \subseteq taken
    /\ taken \subseteq owned
    /\ hpc \in {"boot", "init"} => taken = Pulled
    /\ hpc = "boot" => addr = 0
    /\ Cardinality(taken \ Pulled) <= 1
    /\ pool = IF Booting THEN {} ELSE Pulled

\* A frame is found back from its address.
LEMMA FrameOfAddress ==
    ASSUME NEW f \in Nat
    PROVE  /\ f * PMM_FRAME_SIZE \in Nat
           /\ (f * PMM_FRAME_SIZE) \div PMM_FRAME_SIZE = f
           /\ \A g \in Nat : f * PMM_FRAME_SIZE = g * PMM_FRAME_SIZE => f = g
<1>1. PMM_FRAME_SIZE \in Nat /\ PMM_FRAME_SIZE > 0
    BY SizesAssumption
<1> DEFINE F == PMM_FRAME_SIZE
<1> HIDE DEF F
<1>2. F \in Nat /\ F > 0
    BY <1>1 DEF F
<1>3. f * F \in Nat
    BY <1>2, SMT
<1>4. \A g \in Nat : (g * F) \div F = g
    BY <1>2, SMT
<1>5. QED
    BY <1>3, <1>4 DEF F

\* The window has less frames than a word has values.
LEMMA WindowWords ==
    /\ PMM_MAX_FRAMES \in Nat \ {0} /\ U64 \in Nat /\ PMM_MAX_FRAMES < U64
    /\ Frames \subseteq Words /\ Frames \subseteq Nat /\ 0 \in Frames
    /\ \A f \in Frames : f * PMM_FRAME_SIZE \in Words
<1> DEFINE F == PMM_FRAME_SIZE
           M == PMM_MAX_FRAMES
<1>1. F \in Nat /\ F > 0 /\ M \in Nat /\ M > 0 /\ U64 \in Nat /\ F * M < U64
    BY SizesAssumption DEF PMM_MAX_BYTES
<1> HIDE DEF F, M
<1>2. M <= F * M
    BY <1>1, SMT
<1>3. ASSUME NEW f \in 0 .. M - 1 PROVE f * F \in Nat /\ f * F <= F * M
    BY <1>1, SMT
<1>4. F * M \in Nat
    BY <1>1, SMT
<1>5. M < U64
    BY <1>1, <1>2, <1>4
<1>6. QED
    BY <1>1, <1>3, <1>4, <1>5 DEF F, M, Frames, Words

\* Initially nothing was pulled.
LEMMA PoolInvInit == HeapInit => PoolInv
<1> SUFFICES ASSUME HeapInit PROVE PoolInv
    OBVIOUS
<1>1. IndInv
    BY InitIndInv DEF HeapInit
<1>2. addr = 0 /\ hi = 0 /\ taken = {} /\ pool = {} /\ hpc = "boot"
    BY DEF HeapInit
<1>3. Pulled = {}
    BY <1>2 DEF Pulled
<1>4. Cardinality(taken \ Pulled) <= 1
    <2>1. taken \ Pulled = {}
        BY <1>2
    <2>2. QED
        BY <2>1, FS_EmptySet
<1>5. 0 \in Frames /\ 0 \in 0 .. KMALLOC_INIT_FRAMES
    BY WindowWords, HeapAssumption
<1>6. QED
    BY <1>1, <1>2, <1>3, <1>4, <1>5 DEF PoolInv, Booting

\* A step that leaves the loop of kmalloc_init and the PMM's state alone.
LEMMA PoolKeeps ==
    ASSUME PoolInv, IndInv', UNCHANGED <<addr, hi, taken, pool, hpc>>,
           step' = step \/ step' = "ready", taken \subseteq owned'
    PROVE  PoolInv'
<1>1. Pulled' = Pulled
    BY DEF Pulled
<1>2. QED
    BY <1>1 DEF PoolInv, Booting

\* kmalloc, kfree and payload writes.
LEMMA PoolLater ==
    ASSUME PoolInv, UNCHANGED <<pmmVars, bootVars>>, ~ Booting,
           hpc' \in {"idle", "walk", "fault"}
    PROVE  PoolInv'
<1>1. IndInv'
    BY StutterInv DEF PoolInv
<1>2. Pulled' = Pulled /\ taken' = taken /\ pool' = pool /\ owned' = owned
      /\ addr' = addr /\ hi' = hi /\ step' = step
    BY DEF Pulled, bootVars, pmmVars
<1>3. QED
    BY <1>1, <1>2 DEF PoolInv, Booting

\* pmm_alloc_frame answers with a free frame or 0, and touches no other.
LEMMA AllocTakes ==
    ASSUME NEW next \in Frames, pmm_alloc_frame(next * PMM_FRAME_SIZE)
    PROVE  /\ step' = step
           /\ owned' = owned \cup {next} \/ (owned' = owned /\ next = 0)
<1>1. next \in Nat
    BY WindowWords
<1>2. CASE FreeFrames # {}
    <2>1. FirstFree \in Nat
        BY <1>2, FirstFreeIsFree, WindowWords DEF FreeFrames
    <2>2. next = FirstFree
        BY <1>1, <1>2, <2>1, FrameOfAddress DEF pmm_alloc_frame
    <2>3. QED
        BY <1>2, <2>2 DEF pmm_alloc_frame
<1>3. CASE FreeFrames = {}
    <2>1. next * PMM_FRAME_SIZE = 0 /\ UNCHANGED pmmVars
        BY <1>3 DEF pmm_alloc_frame
    <2>2. 0 * PMM_FRAME_SIZE = 0
        BY SizesAssumption
    <2>3. next = 0
        BY <1>1, <2>1, <2>2, FrameOfAddress
    <2>4. QED
        BY <2>1, <2>3 DEF pmmVars
<1>4. QED
    BY <1>2, <1>3

\* One iteration of kmalloc_init's loop.
LEMMA PoolPull ==
    ASSUME PoolInv, NEW next \in Frames, PullFrame(next)
    PROVE  PoolInv'
<1>1. hpc = "init" /\ step = "ready" /\ pool = {} /\ pool' = pool /\ taken = Pulled
      /\ hi < KMALLOC_INIT_FRAMES
    BY DEF PoolInv, PullFrame, Booting, More
<1>2. IndInv'
    BY <1>1, AllocInv DEF PoolInv, PullFrame
<1>3. step' = step
      /\ (owned' = owned \cup {next} \/ (owned' = owned /\ next = 0))
    BY AllocTakes DEF PullFrame
<1>4. next \in Nat /\ addr \in Nat /\ hi \in Nat
    BY WindowWords, HeapAssumption DEF PoolInv
<1>5. CASE next = 0 \/ ~ Contiguous(next)
    <2>1. hpc' = "seed" /\ UNCHANGED <<addr, hi>>
        BY <1>5 DEF PullFrame
    <2>2. taken' = IF next = 0 THEN taken ELSE taken \cup {next}
        BY DEF PullFrame
    <2>3. Pulled' = Pulled
        BY <2>1 DEF Pulled
    <2>4. Cardinality(taken' \ Pulled') <= 1
        <3>1. taken' \ Pulled' = {} \/ taken' \ Pulled' = {next}
            BY <1>1, <2>2, <2>3
        <3>2. Cardinality({}) = 0 /\ Cardinality({next}) = 1
            BY FS_EmptySet, FS_Singleton
        <3>3. QED
            BY <3>1, <3>2
    <2>5. QED
        BY <1>1, <1>2, <1>3, <2>1, <2>2, <2>3, <2>4 DEF PoolInv, Booting
<1>6. CASE next # 0 /\ Contiguous(next)
    <2>1. hpc' = hpc /\ addr' = (IF addr = 0 THEN next ELSE addr) /\ hi' = hi + 1
        BY <1>6 DEF PullFrame
    <2>2. taken' = taken \cup {next}
        BY <1>6 DEF PullFrame
    <2>3. Pulled' = Pulled \cup {next}
        <3>1. CASE addr = 0
            <4>1. addr' = next /\ hi' = 1 /\ Pulled = {}
                BY <2>1, <3>1 DEF PoolInv, Pulled
            <4>2. Pulled' = next .. next
                BY <1>4, <1>6, <4>1 DEF Pulled
            <4>3. QED
                BY <1>4, <4>1, <4>2
        <3>2. CASE addr # 0
            <4>1. next = addr + hi /\ addr' = addr
                BY <1>6, <2>1, <3>2 DEF Contiguous
            <4>2. Pulled' = addr .. addr + (hi + 1) - 1 /\ Pulled = addr .. addr + hi - 1
                BY <2>1, <3>2, <4>1 DEF Pulled
            <4>3. QED
                BY <1>4, <4>1, <4>2
        <3>3. QED
            BY <3>1, <3>2
    <2>4. taken' \ Pulled' = {}
        BY <1>1, <2>2, <2>3
    <2>5. Cardinality(taken' \ Pulled') <= 1
        BY <2>4, FS_EmptySet
    <2>6. addr' \in Frames /\ addr' # 0 /\ hi' > 0 /\ hi' \in 0 .. KMALLOC_INIT_FRAMES
        BY <1>1, <1>4, <1>6, <2>1, HeapAssumption DEF PoolInv
    <2>7. taken' = Pulled' /\ taken' \subseteq owned'
        BY <1>1, <1>3, <1>6, <2>2, <2>3 DEF PoolInv
    <2>8. QED
        BY <1>1, <1>2, <1>3, <2>1, <2>5, <2>6, <2>7 DEF PoolInv, Booting
<1>7. QED
    BY <1>5, <1>6

\* Every step keeps PoolInv.
LEMMA PoolInvStep == PoolInv /\ [HeapNext]_vars => PoolInv'
<1> SUFFICES ASSUME PoolInv, [HeapNext]_vars PROVE PoolInv'
    OBVIOUS
<1>1. CASE BootPMM
    <2>1. step # "ready"
        BY <1>1 DEF BootPMM, pmm_init, ClearBitmap, UsableEntry, CarveEntry, FixedRange,
                    PassDone
    <2>2. hpc = "boot" /\ taken = {}
        BY <2>1 DEF PoolInv, Pulled
    <2>3. IndInv'
        BY <1>1, ClearBitmapInv, UsableEntryInv, CarveEntryInv, FixedRangeInv,
           PassDoneInv DEF BootPMM, pmm_init, PoolInv
    <2>4. UNCHANGED <<addr, hi, taken, pool, hpc>>
        BY <1>1 DEF BootPMM, heapVars, bootVars
    <2>5. Pulled' = Pulled
        BY <2>4 DEF Pulled
    <2>6. QED
        BY <2>2, <2>3, <2>4, <2>5 DEF PoolInv, Booting
<1>2. CASE StartInit
    <2>1. /\ hpc = "boot" /\ hpc' = "init" /\ step = "ready" /\ addr' = 0 /\ hi' = 0
          /\ UNCHANGED <<pmmVars, taken, pool>> /\ addr = 0 /\ hi = 0
        BY <1>2 DEF StartInit, PoolInv
    <2>2. IndInv'
        BY <2>1, StutterInv DEF PoolInv
    <2>3. Pulled' = Pulled
        BY <2>1 DEF Pulled
    <2>4. step' = step /\ owned' = owned
        BY <2>1 DEF pmmVars
    <2>5. QED
        BY <2>1, <2>2, <2>3, <2>4 DEF PoolInv, Booting
<1>3. ASSUME NEW next \in Frames, PullFrame(next) PROVE PoolInv'
    BY <1>3, PoolPull
<1>4. CASE SeedPool
    <2>1. /\ Booting /\ hpc' = "idle" /\ UNCHANGED <<pmmVars, addr, hi, taken>>
          /\ step = "ready"
        BY <1>4 DEF SeedPool, Booting, PoolInv
    <2>2. IndInv' /\ step' = step /\ owned' = owned
        BY <2>1, StutterInv DEF PoolInv, pmmVars
    <2>3. Pulled' = Pulled
        BY <2>1 DEF Pulled
    <2>4. pool' = Pulled'
        BY <1>4, <2>1, <2>3 DEF SeedPool, Pulled, PoolInv
    <2>5. QED
        BY <2>1, <2>2, <2>3, <2>4 DEF PoolInv, Booting
<1>5. ASSUME NEW s \in Sizes, kmalloc(s) PROVE PoolInv'
    BY <1>5, PoolLater DEF kmalloc, Booting
<1>6. CASE Walk
    <2>1. UNCHANGED <<pmmVars, bootVars>> /\ hpc = "walk"
          /\ hpc' \in {"idle", "walk", "fault"}
        BY <1>6 DEF Walk, WalkNext, WalkTake, WalkEnd
    <2>2. QED
        BY <2>1, PoolLater DEF Booting
<1>7. CASE Kfree
    BY <1>7, PoolLater DEF Kfree, Booting
<1>8. CASE KfreeOutside
    BY <1>8, PoolLater DEF KfreeOutside, Booting
<1>9. CASE ClientWrite
    BY <1>9, PoolLater DEF ClientWrite, Booting
<1>10. CASE ClientAlloc
    <2>1. PICK next \in Frames : pmm_alloc_frame(next * PMM_FRAME_SIZE)
        BY <1>10 DEF ClientAlloc
    <2>2. IndInv'
        BY <1>10, <2>1, AllocInv DEF ClientAlloc, PoolInv
    <2>3. step' = step /\ owned \subseteq owned'
        BY <2>1, AllocTakes
    <2>4. UNCHANGED <<addr, hi, taken, pool, hpc>>
        BY <1>10 DEF ClientAlloc, heapVars, bootVars
    <2>5. QED
        BY <2>2, <2>3, <2>4, PoolKeeps DEF PoolInv
<1>11. CASE ClientFree
    <2>1. PICK f \in Clients : pmm_free_frame(f * PMM_FRAME_SIZE)
        BY <1>11 DEF ClientFree
    <2>2. f \in owned /\ f \notin taken /\ f \in Frames /\ f \in Nat
        BY <2>1, WindowWords DEF Clients, PoolInv, IndInv, TypeOK
    <2> DEFINE a == f * PMM_FRAME_SIZE
    <2>3. a \in Words /\ a \div PMM_FRAME_SIZE = f
        BY <2>2, WindowWords, FrameOfAddress
    <2> HIDE DEF a
    <2>4. pmm_free_frame(a)
        BY <2>1 DEF a
    <2>5. IndInv'
        <3>1. MayFree(a)
            BY <2>2, <2>3 DEF MayFree
        <3>2. QED
            BY <1>11, <2>2, <2>3, <2>4, <3>1, FreeInv DEF ClientFree, PoolInv
    <2>6. step' = step /\ owned \ {f} \subseteq owned'
        BY <2>3, <2>4 DEF pmm_free_frame, pmmVars
    <2>7. UNCHANGED <<addr, hi, taken, pool, hpc>>
        BY <1>11 DEF ClientFree, heapVars, bootVars
    <2>8. taken \subseteq owned'
        BY <2>2, <2>6 DEF PoolInv
    <2>9. QED
        BY <2>5, <2>6, <2>7, <2>8, PoolKeeps
<1>12. CASE UNCHANGED vars
    <2>1. UNCHANGED <<pmmVars, addr, hi, taken, pool, hpc>>
        BY <1>12 DEF vars, heapVars, bootVars
    <2>2. IndInv' /\ step' = step /\ owned' = owned
        BY <2>1, StutterInv DEF PoolInv, pmmVars
    <2>3. QED
        BY <2>1, <2>2, PoolKeeps DEF PoolInv
<1>13. QED
    BY <1>1, <1>2, <1>3, <1>4, <1>5, <1>6, <1>7, <1>8, <1>9, <1>10, <1>11, <1>12
       DEF HeapNext

\* So it always holds.
LEMMA PoolInvAlways == HeapSpec => []PoolInv
BY PoolInvInit, PoolInvStep, PTL DEF HeapSpec

\* The heap's frames are never free in the PMM and no other client gets
\* them, whatever sizes callers ask for and whatever they free, sizes that
\* wrap and pointers outside the window included (kmalloc.c:19-25).
THEOREM HeapKeepsPool == HeapSpec => []HeapOwnsPool
<1>1. PoolInv => HeapOwnsPool
    <2> SUFFICES ASSUME PoolInv PROVE HeapOwnsPool
        OBVIOUS
    <2>1. FramesConserved
        BY DEF PoolInv, IndInv
    <2>2. pool \subseteq taken /\ taken \subseteq owned
        BY DEF PoolInv
    <2>3. ~ Booting => pool = Pulled
        BY DEF PoolInv
    <2>4. QED
        BY <2>1, <2>2, <2>3 DEF PoolInv, HeapOwnsPool, Booting
<1>2. QED
    BY <1>1, PoolInvAlways, PTL

-----------------------------------------------------------------------------
(* What the heap writes, whatever callers ask for                          *)

\* What a link may hold, on an intact list or a broken one.
Links == pool \cup {NULL, KMALLOC_MAGIC}

\* Every length word of the pool ends inside the pool, on the list or not,
\* and nothing outside the pool looks like a header or a node.
SpanInv ==
    /\ mem \in [Frames -> [w0 : Frames \cup {KMALLOC_MAGIC}, w1 : Nat]]
    /\ need \in Nat
    /\ live \subseteq pool
    /\ g_free_list \in Links /\ link \in pool \cup {NULL}
    /\ \A f \in pool : mem[f].w0 \in Links /\ f + mem[f].w1 <= addr + hi
    /\ \A f \in Frames \ pool : mem[f] = [w0 |-> NULL, w1 |-> 0]

\* A step writes to the pool only, and not while it changes the PMM.
Confined ==
    /\ \A f \in Frames : mem'[f] # mem[f] => f \in pool'
    /\ mem' = mem \/ owned' = owned

\* The pool is one interval of frames, without frame 0.
LEMMA PoolInterval ==
    ASSUME PoolInv
    PROVE  /\ pool \subseteq Frames /\ NULL \notin pool
           /\ addr \in Nat /\ hi \in Nat /\ Frames \subseteq Nat
           /\ \A f \in Nat : f \in pool => addr <= f /\ f < addr + hi
           /\ \A f, g \in Nat : f \in pool /\ f <= g /\ g < addr + hi => g \in pool
           /\ pool \subseteq owned
           /\ NULL \in Frames /\ KMALLOC_MAGIC \notin Frames
<1>1. addr \in Nat /\ hi \in Nat /\ Frames \subseteq Nat /\ 0 \in Frames
    BY WindowWords, HeapAssumption DEF PoolInv
<1>2. pool = {} \/ (pool = addr .. addr + hi - 1 /\ addr # 0)
    BY DEF PoolInv, Pulled
<1>3. pool \subseteq owned /\ owned \subseteq Frames
    BY DEF PoolInv, IndInv, TypeOK
<1>4. QED
    BY <1>1, <1>2, <1>3, HeapAssumption DEF NULL

\* A request needs some number of frames, whether the rounding wraps or not.
LEMMA FramesForNat ==
    ASSUME NEW s \in Sizes
    PROVE  frames_for(s) \in Nat
<1> DEFINE F == PMM_FRAME_SIZE
           b == ((IF s = 0 THEN 1 ELSE s) + HEADER) % U64
           r == (b + F - 1) % U64
<1>1. F \in Nat /\ F > 0 /\ U64 \in Nat /\ U64 > 0 /\ HEADER \in Nat /\ s \in Nat
    BY SizesAssumption, WindowWords, HeapAssumption DEF Words
<1>2. frames_for(s) = r \div F
    BY DEF frames_for
<1> HIDE DEF F
<1>3. b \in Nat
    BY <1>1
<1> HIDE DEF b
<1>4. r \in Nat
    BY <1>1, <1>3
<1> HIDE DEF r
<1>5. r \div F \in Nat
    BY <1>1, <1>4, SMT
<1>6. QED
    BY <1>2, <1>5

\* Initially there is no pool and nothing is written.
LEMMA SpanInvInit == HeapInit => SpanInv
<1> SUFFICES ASSUME HeapInit PROVE SpanInv
    OBVIOUS
<1>1. 0 \in Frames
    BY WindowWords
<1>2. QED
    BY <1>1 DEF HeapInit, SpanInv, Links, NULL

\* A step that neither writes nor moves along the list.
LEMMA SpanKeeps ==
    ASSUME SpanInv, UNCHANGED <<mem, g_free_list, live, pool, addr, hi>>,
           need' \in Nat, link' \in pool \cup {NULL}
    PROVE  SpanInv' /\ Confined
BY DEF SpanInv, Links, Confined

\* kmalloc_init puts its frames on the list.
LEMMA SpanSeed ==
    ASSUME SpanInv, PoolInv, PoolInv', SeedPool
    PROVE  SpanInv' /\ Confined
<1>1. /\ pool = {} /\ live = {} /\ UNCHANGED <<addr, hi, live, need, link, owned>>
      /\ link = NULL
    BY DEF SeedPool, PoolInv, Booting, SpanInv, callVars, pmmVars
<1>2. /\ addr \in Nat /\ addr \in Frames /\ hi \in Nat /\ Frames \subseteq Nat
      /\ NULL \in Frames
    BY PoolInterval DEF PoolInv
<1>3. \A f \in Frames : mem[f] = [w0 |-> NULL, w1 |-> 0]
    BY <1>1 DEF SpanInv
<1>4. CASE addr # 0
    <2>1. /\ mem' = [mem EXCEPT ![addr] = [w0 |-> NULL, w1 |-> hi]]
          /\ g_free_list' = addr /\ pool' = addr .. addr + hi - 1
        BY <1>4 DEF SeedPool
    <2>2. hi > 0
        BY <1>4 DEF PoolInv
    <2>3. addr \in pool'
        BY <1>2, <2>1, <2>2
    <2>4. \A f \in Frames : mem'[f] = IF f = addr THEN [w0 |-> NULL, w1 |-> hi]
                                                  ELSE [w0 |-> NULL, w1 |-> 0]
        BY <1>2, <1>3, <2>1 DEF SpanInv
    <2>5. mem' \in [Frames -> [w0 : Frames \cup {KMALLOC_MAGIC}, w1 : Nat]]
        BY <1>2, <2>1 DEF SpanInv
    <2>6. \A f \in pool' : f \in Frames /\ f \in Nat /\ f < addr + hi
        <3>1. pool' \subseteq Frames
            BY PoolInv' DEF PoolInv, IndInv, TypeOK
        <3>2. QED
            BY <1>2, <2>1, <3>1
    <2>7. \A f \in pool' : mem'[f].w0 \in Links' /\ f + mem'[f].w1 <= addr' + hi'
        BY <1>1, <1>2, <2>4, <2>6 DEF Links
    <2>8. \A f \in Frames \ pool' : mem'[f] = [w0 |-> NULL, w1 |-> 0]
        BY <2>3, <2>4
    <2>9. Confined
        BY <1>1, <1>3, <2>3, <2>4 DEF Confined
    <2>10. QED
        BY <1>1, <2>1, <2>3, <2>5, <2>7, <2>8, <2>9 DEF SpanInv, Links
<1>5. CASE addr = 0
    <2>1. UNCHANGED <<mem, g_free_list, pool>>
        BY <1>5 DEF SeedPool
    <2>2. QED
        BY <1>1, <2>1, SpanKeeps DEF SpanInv
<1>6. QED
    BY <1>4, <1>5

\* A successful kmalloc, on a list in any state.
LEMMA SpanTake ==
    ASSUME SpanInv, PoolInv, WalkTake
    PROVE  SpanInv' /\ Confined
<1> DEFINE run == Slot(link)
           split == mem[run].w1 > need
           to == IF split THEN SplitAt(run) ELSE mem[run].w0
           m == IF split THEN [mem EXCEPT ![SplitAt(run)] = TailNode(run),
                                          ![run] = Header(Charge(run))]
                         ELSE [mem EXCEPT ![run] = Header(Charge(run))]
           Fine(w) == /\ w \in [Frames -> [w0 : Frames \cup {KMALLOC_MAGIC}, w1 : Nat]]
                      /\ \A f \in pool : w[f].w0 \in Links /\ f + w[f].w1 <= addr + hi
                      /\ \A f \in Frames \ pool : w[f] = mem[f]
<1>1. /\ pool \subseteq Frames /\ NULL \notin pool /\ addr \in Nat /\ hi \in Nat
      /\ Frames \subseteq Nat /\ NULL \in Frames /\ KMALLOC_MAGIC \notin Frames
      /\ \A f \in Nat : f \in pool => addr <= f /\ f < addr + hi
      /\ \A f, g \in Nat : f \in pool /\ f <= g /\ g < addr + hi => g \in pool
    BY PoolInterval
<1>2. run \in pool
    BY <1>1 DEF WalkTake, Slot, SpanInv, Links
<1>3. /\ UNCHANGED <<pool, addr, hi, need, link, owned>>
      /\ live' = live \cup {run} /\ mem[run].w1 >= need
    BY DEF WalkTake, bootVars, callVars, pmmVars
<1>4. /\ mem[run].w1 \in Nat /\ need \in Nat /\ run + mem[run].w1 <= addr + hi
      /\ mem[run].w0 \in Links /\ run \in Nat /\ run \in Frames
    BY <1>1, <1>2 DEF SpanInv
<1>5. /\ g_free_list' = IF link = NULL THEN to ELSE g_free_list
      /\ mem' = IF link = NULL THEN m ELSE [m EXCEPT ![link].w0 = to]
    BY DEF WalkTake, TakeRun, Store
<1> HIDE DEF run
<1>6. split => SplitAt(run) \in pool /\ SplitAt(run) \in Nat
    BY <1>1, <1>2, <1>4 DEF SplitAt
<1>7. to \in Links
    BY <1>4, <1>6 DEF Links
<1>8. Header(Charge(run)) \in [w0 : Frames \cup {KMALLOC_MAGIC}, w1 : Nat]
      /\ Header(Charge(run)).w0 \in Links
      /\ run + Header(Charge(run)).w1 <= addr + hi
    BY <1>1, <1>3, <1>4 DEF Header, Charge, Links
<1>9. split => /\ TailNode(run) \in [w0 : Frames \cup {KMALLOC_MAGIC}, w1 : Nat]
               /\ TailNode(run).w0 \in Links
               /\ SplitAt(run) + TailNode(run).w1 <= addr + hi
    <2> SUFFICES ASSUME split
                 PROVE  /\ TailNode(run) \in [w0 : Frames \cup {KMALLOC_MAGIC}, w1 : Nat]
                        /\ TailNode(run).w0 \in Links
                        /\ SplitAt(run) + TailNode(run).w1 <= addr + hi
        OBVIOUS
    <2>1. mem[run].w1 - need \in Nat
          /\ (run + need) + (mem[run].w1 - need) <= addr + hi
        BY <1>1, <1>4
    <2>2. mem[run].w0 \in Frames \cup {KMALLOC_MAGIC}
        BY <1>1, <1>4 DEF Links
    <2> HIDE DEF split
    <2>3. TailNode(run).w0 = mem[run].w0 /\ TailNode(run).w1 = mem[run].w1 - need
          /\ TailNode(run) \in [w0 : Frames \cup {KMALLOC_MAGIC}, w1 : Nat]
        BY <2>1, <2>2 DEF TailNode
    <2>4. QED
        BY <1>4, <2>1, <2>3 DEF SplitAt
<1>10. Fine(m)
    <2>1. CASE split
        <3>1. m = [mem EXCEPT ![SplitAt(run)] = TailNode(run), ![run] = Header(Charge(run))]
            BY <2>1
        <3> HIDE DEF m, split
        <3> USE DEF SpanInv
        <3>2. m \in [Frames -> [w0 : Frames \cup {KMALLOC_MAGIC}, w1 : Nat]]
            BY <1>8, <1>9, <2>1, <3>1
        <3>3. \A f \in Frames : m[f] = IF f = run THEN Header(Charge(run))
                                       ELSE IF f = SplitAt(run) THEN TailNode(run)
                                       ELSE mem[f]
            BY <3>1
        <3>4. QED
            BY <1>1, <1>2, <1>6, <1>8, <1>9, <2>1, <3>2, <3>3
    <2>2. CASE ~ split
        <3>1. m = [mem EXCEPT ![run] = Header(Charge(run))]
            BY <2>2
        <3> HIDE DEF m, split
        <3> USE DEF SpanInv
        <3>2. m \in [Frames -> [w0 : Frames \cup {KMALLOC_MAGIC}, w1 : Nat]]
            BY <1>8, <3>1
        <3>3. \A f \in Frames : m[f] = IF f = run THEN Header(Charge(run)) ELSE mem[f]
            BY <3>1
        <3>4. QED
            BY <1>1, <1>2, <1>8, <3>2, <3>3
    <2>3. QED
        BY <2>1, <2>2
<1> HIDE DEF m, to, split
<1>11. Fine(mem')
    <2>1. CASE link = NULL
        BY <1>5, <1>10, <2>1
    <2>2. CASE link # NULL
        <3>1. link \in pool /\ link \in Frames
            BY <1>1, <2>2 DEF SpanInv
        <3>2. mem' = [m EXCEPT ![link].w0 = to]
            BY <1>5, <2>2
        <3>3. to \in Frames \cup {KMALLOC_MAGIC}
            BY <1>1, <1>7 DEF Links
        <3>4. mem' \in [Frames -> [w0 : Frames \cup {KMALLOC_MAGIC}, w1 : Nat]]
            BY <1>10, <3>1, <3>2, <3>3
        <3>5. /\ \A f \in Frames : f # link => mem'[f] = m[f]
              /\ mem'[link].w0 = to /\ mem'[link].w1 = m[link].w1
            BY <1>10, <3>1, <3>2
        <3>6. QED
            BY <1>1, <1>7, <1>10, <3>1, <3>4, <3>5
    <2>3. QED
        BY <2>1, <2>2
<1>12. Links' = Links
    BY <1>3 DEF Links
<1>13. g_free_list' \in Links
    BY <1>5, <1>7 DEF SpanInv
<1>14. SpanInv'
    BY <1>2, <1>3, <1>4, <1>11, <1>12, <1>13 DEF SpanInv
<1>15. QED
    BY <1>3, <1>11, <1>14 DEF Confined

\* kfree: only a frame of the pool can look like a header.
LEMMA SpanFree ==
    ASSUME SpanInv, PoolInv, Kfree
    PROVE  SpanInv' /\ Confined
<1>1. /\ pool \subseteq Frames /\ NULL \in Frames /\ KMALLOC_MAGIC \notin Frames
    BY PoolInterval
<1>2. PICK p \in Frames : kfree(p)
    BY DEF Kfree
<1>3. UNCHANGED <<pool, addr, hi, need, link, owned>>
    BY DEF Kfree, bootVars, callVars, pmmVars
<1>4. CASE p # NULL /\ HeaderValid(p)
    <2>1. /\ mem' = [mem EXCEPT ![p].w0 = g_free_list]
          /\ g_free_list' = p /\ live' = live \ {p}
        BY <1>2, <1>4 DEF kfree
    <2>2. p \in pool
        <3>1. mem[p].w0 = KMALLOC_MAGIC
            BY <1>4 DEF HeaderValid
        <3>2. QED
            BY <1>1, <1>2, <3>1 DEF SpanInv
    <2>3. g_free_list \in Links /\ g_free_list \in Frames \cup {KMALLOC_MAGIC}
        BY <1>1 DEF SpanInv, Links
    <2>4. mem' \in [Frames -> [w0 : Frames \cup {KMALLOC_MAGIC}, w1 : Nat]]
        BY <2>1, <2>3 DEF SpanInv
    <2>5. /\ \A f \in Frames : f # p => mem'[f] = mem[f]
          /\ mem'[p].w0 = g_free_list /\ mem'[p].w1 = mem[p].w1
        BY <1>2, <2>1 DEF SpanInv
    <2>6. Links' = Links
        BY <1>3 DEF Links
    <2>7. /\ \A f \in pool : mem'[f].w0 \in Links /\ f + mem'[f].w1 <= addr + hi
          /\ \A f \in Frames \ pool : mem'[f] = mem[f]
        BY <1>1, <2>2, <2>3, <2>5 DEF SpanInv
    <2>8. g_free_list' \in Links /\ live' \subseteq pool
        BY <2>1, <2>2 DEF SpanInv, Links
    <2>9. SpanInv'
        BY <1>3, <2>4, <2>6, <2>7, <2>8 DEF SpanInv
    <2>10. QED
        BY <1>3, <2>7, <2>9 DEF Confined
<1>5. CASE ~ (p # NULL /\ HeaderValid(p))
    <2>1. UNCHANGED <<mem, g_free_list, live>>
        BY <1>2, <1>5 DEF kfree, listVars, runVars
    <2>2. QED
        BY <1>3, <2>1, SpanKeeps DEF SpanInv
<1>6. QED
    BY <1>4, <1>5

\* The owner of a block writes inside it.
LEMMA SpanWrite ==
    ASSUME SpanInv, PoolInv, ClientWrite
    PROVE  SpanInv' /\ Confined
<1>1. /\ pool \subseteq Frames /\ Frames \subseteq Nat /\ addr \in Nat /\ hi \in Nat
      /\ \A f \in Nat : f \in pool => addr <= f /\ f < addr + hi
      /\ \A f, g \in Nat : f \in pool /\ f <= g /\ g < addr + hi => g \in pool
    BY PoolInterval
<1>2. PICK h \in live : \E f \in Run(h) \ {h} :
          mem' = [mem EXCEPT ![f] = [w0 |-> KMALLOC_MAGIC, w1 |-> 1]]
    BY DEF ClientWrite
<1>3. PICK f \in Run(h) : mem' = [mem EXCEPT ![f] = [w0 |-> KMALLOC_MAGIC, w1 |-> 1]]
    BY <1>2
<1>4. UNCHANGED <<pool, addr, hi, need, link, owned, g_free_list, live>>
    BY DEF ClientWrite, bootVars, callVars, runVars, pmmVars
<1>5. h \in pool /\ h \in Nat /\ mem[h].w1 \in Nat /\ h + mem[h].w1 <= addr + hi
    BY <1>1 DEF SpanInv
<1>6. f \in pool /\ f \in Nat /\ f + 1 <= addr + hi
    BY <1>1, <1>5 DEF Run
<1>7. mem' \in [Frames -> [w0 : Frames \cup {KMALLOC_MAGIC}, w1 : Nat]]
    BY <1>3 DEF SpanInv
<1>8. \A g \in Frames : mem'[g] = IF g = f THEN [w0 |-> KMALLOC_MAGIC, w1 |-> 1]
                                           ELSE mem[g]
    BY <1>3 DEF SpanInv
<1>9. /\ \A g \in pool : mem'[g].w0 \in Links /\ g + mem'[g].w1 <= addr + hi
      /\ \A g \in Frames \ pool : mem'[g] = mem[g]
    BY <1>1, <1>6, <1>8 DEF SpanInv, Links
<1>10. Links' = Links
    BY <1>4 DEF Links
<1>11. SpanInv'
    BY <1>4, <1>7, <1>9, <1>10 DEF SpanInv
<1>12. QED
    BY <1>4, <1>9, <1>11 DEF Confined

\* No step writes outside the pool.
LEMMA SpanInvStep ==
    PoolInv /\ PoolInv' /\ SpanInv /\ [HeapNext]_vars => SpanInv' /\ Confined
<1> SUFFICES ASSUME PoolInv, PoolInv', SpanInv, [HeapNext]_vars
             PROVE  SpanInv' /\ Confined
    OBVIOUS
<1>1. CASE BootPMM \/ ClientAlloc \/ ClientFree \/ UNCHANGED vars
    <2>1. UNCHANGED <<mem, g_free_list, live, pool, addr, hi, need, link>>
        BY <1>1 DEF BootPMM, ClientAlloc, ClientFree, vars, heapVars, listVars,
                    bootVars, callVars, runVars
    <2>2. QED
        BY <2>1, SpanKeeps DEF SpanInv
<1>2. CASE StartInit
    <2>1. /\ g_free_list' = NULL /\ addr' = 0 /\ hi' = 0 /\ pool = {}
          /\ UNCHANGED <<mem, live, pool, need, link>>
        BY <1>2 DEF StartInit, callVars, runVars, PoolInv, Booting
    <2>2. QED
        BY <2>1 DEF SpanInv, Links, Confined
<1>3. ASSUME NEW next \in Frames, PullFrame(next) PROVE SpanInv' /\ Confined
    <2>1. /\ pool = {} /\ UNCHANGED <<mem, g_free_list, live, pool, need, link>>
        BY <1>3 DEF PullFrame, listVars, callVars, runVars, PoolInv, Booting
    <2>2. QED
        BY <2>1 DEF SpanInv, Links, Confined
<1>4. CASE SeedPool
    BY <1>4, SpanSeed
<1>5. ASSUME NEW s \in Sizes, kmalloc(s) PROVE SpanInv' /\ Confined
    <2>1. /\ UNCHANGED <<mem, g_free_list, live, pool, addr, hi>>
          /\ need' = frames_for(s) /\ link' = NULL
        BY <1>5 DEF kmalloc, listVars, bootVars, runVars
    <2>2. need' \in Nat
        BY <2>1, FramesForNat
    <2>3. QED
        BY <2>1, <2>2, SpanKeeps
<1>6. CASE WalkNext
    <2>1. /\ UNCHANGED <<mem, g_free_list, live, pool, addr, hi, need>>
          /\ link' = Slot(link) /\ Slot(link) \in Frames
        BY <1>6 DEF WalkNext, NextLink, listVars, bootVars, runVars
    <2>2. Slot(link) \in Links
        BY DEF Slot, SpanInv
    <2>3. link' \in pool \cup {NULL}
        BY <2>1, <2>2, PoolInterval DEF Links
    <2>4. QED
        BY <2>1, <2>3, SpanKeeps DEF SpanInv
<1>7. CASE WalkTake
    BY <1>7, SpanTake
<1>8. CASE WalkEnd \/ KfreeOutside
    <2>1. UNCHANGED <<mem, g_free_list, live, pool, addr, hi, need, link>>
        BY <1>8 DEF WalkEnd, KfreeOutside, listVars, bootVars, callVars, runVars
    <2>2. QED
        BY <2>1, SpanKeeps DEF SpanInv
<1>9. CASE Kfree
    BY <1>9, SpanFree
<1>10. CASE ClientWrite
    BY <1>10, SpanWrite
<1>11. QED
    BY <1>1, <1>2, <1>3, <1>4, <1>5, <1>6, <1>7, <1>8, <1>9, <1>10 DEF HeapNext, Walk

\* The heap writes only to frames that it pulled and that the PMM counts as
\* handed out, for all sizes and all sequences of calls, those included that
\* break its list (kmalloc.c:14-25).
THEOREM HeapWrites == HeapSpec => WritesInPool
<1>1. PoolInv /\ PoolInv' /\ SpanInv /\ [HeapNext]_vars =>
          [\A f \in Frames : mem'[f] # mem[f] => f \in pool' \cap owned]_vars
    <2> SUFFICES ASSUME PoolInv, PoolInv', Confined
                 PROVE  \A f \in Frames : mem'[f] # mem[f] => f \in pool' \cap owned
        BY SpanInvStep
    <2>1. pool' \subseteq owned'
        BY PoolInv' DEF PoolInv
    <2>2. QED
        BY <2>1 DEF Confined
<1>2. PoolInv /\ PoolInv' /\ SpanInv /\ [HeapNext]_vars => SpanInv'
    BY SpanInvStep
<1>3. QED
    BY <1>1, <1>2, SpanInvInit, PoolInvAlways, PTL DEF HeapSpec, WritesInPool

-----------------------------------------------------------------------------
(* Runs                                                                    *)

\* No request is so large that frames_for wraps (the heap_zero run shows
\* what happens otherwise).
SizesFit ==
    \A s \in Sizes : (IF s = 0 THEN 1 ELSE s) + HEADER + PMM_FRAME_SIZE <= U64

\* The free list: n free runs, each once, and how far the walk has come.
Chain(order, n) ==
    /\ \A j, k \in 1 .. n : order[j] = order[k] => j = k
    /\ Linked(order, n)
    /\ hpc = "walk" =>
           \E j \in 0 .. n : /\ link = IF j = 0 THEN NULL ELSE order[j]
                             /\ \A k \in 1 .. j : mem[order[k]].w1 < need

RunTypes ==
    /\ mem \in [Frames -> [w0 : Frames \cup {KMALLOC_MAGIC}, w1 : Words]]
    /\ free \in SUBSET Frames /\ live \in SUBSET Frames
    /\ returned \in SUBSET Frames /\ asked \in [Frames -> Words]
    /\ g_free_list \in Frames
    /\ g_free_frames \in Words /\ g_used_frames \in Words
    /\ need \in Words /\ size \in Words /\ link \in Frames

\* Nothing is on the heap before kmalloc_init is done.
EmptyInv ==
    Booting => /\ free = {} /\ live = {} /\ returned = {}
               /\ g_free_list = NULL /\ g_free_frames = 0 /\ g_used_frames = 0

\* The call under way asks for what it was asked for.
CallInv == hpc = "walk" => size \in Sizes /\ need = frames_for(size)

ChainInv == \E n \in Nat : \E order \in [1 .. n -> free] : Chain(order, n)

RunInv ==
    /\ RunTypes /\ EmptyInv /\ CallInv
    /\ RunsPartition /\ MagicExact /\ ChainInv
    /\ HeapCounters /\ BlockHoldsRequest

HeapInv == PoolInv /\ RunInv

\* The frames that a request of s bytes needs: at least one, and room for
\* the header and all bytes.
LEMMA FramesFor ==
    ASSUME SizesFit, NEW s \in Sizes
    PROVE  /\ frames_for(s) \in Words /\ frames_for(s) > 0
           /\ frames_for(s) * PMM_FRAME_SIZE >= HEADER + s
<1> DEFINE F == PMM_FRAME_SIZE
           b == (IF s = 0 THEN 1 ELSE s) + HEADER
           x == b + F - 1
           q == x \div F
<1>1. /\ F \in Nat /\ F > 0 /\ U64 \in Nat /\ s \in Nat /\ HEADER \in Nat
      /\ HEADER > 0
    BY SizesAssumption, HeapAssumption DEF Words
<1>2. b \in Nat /\ b >= HEADER + s /\ b >= 1 /\ b + F <= U64
    BY <1>1 DEF SizesFit
<1> HIDE DEF b, F
<1>3. x \in Nat /\ x < U64 /\ b < U64
    BY <1>1, <1>2
<1>4. b % U64 = b /\ x % U64 = x
    BY <1>1, <1>2, <1>3, SMT
<1>5. frames_for(s) = (((b % U64) + F - 1) % U64) \div F
    BY DEF frames_for, b, F
<1>6. frames_for(s) = q
    BY <1>4, <1>5
<1> HIDE DEF x
<1>7. q \in Nat /\ q * F \in Nat /\ x < q * F + F /\ q <= x
    BY <1>1, <1>3, SMT
<1> HIDE DEF q
<1>8. q * F >= b
    <2> DEFINE m == q * F
    <2>1. m \in Nat /\ x < m + F
        BY <1>7
    <2> HIDE DEF m
    <2>2. m >= b
        BY <1>1, <1>2, <2>1 DEF x
    <2>3. QED
        BY <2>2 DEF m
<1>9. q > 0
    <2>1. q = 0 => q * F = 0
        BY <1>1, SMT
    <2>2. QED
        BY <1>2, <1>7, <1>8, <2>1
<1>10. q * F >= HEADER + s
    <2> DEFINE m == q * F
    <2>1. m \in Nat /\ m >= b
        BY <1>7, <1>8
    <2> HIDE DEF m
    <2>2. m >= HEADER + s
        BY <1>1, <1>2, <2>1
    <2>3. QED
        BY <2>2 DEF m
<1>11. QED
    BY <1>1, <1>3, <1>6, <1>7, <1>9, <1>10 DEF F, Words

\* The pool lies in the window and has no frame 0.
LEMMA PoolFacts ==
    ASSUME PoolInv
    PROVE  pool \subseteq Frames /\ NULL \notin pool
<1>1. pool \subseteq Frames
    BY DEF PoolInv, IndInv, TypeOK
<1>2. NULL \notin pool
    BY WindowWords DEF PoolInv, Pulled, NULL
<1>3. QED
    BY <1>1, <1>2

\* The first frame of a run is in it, so it is no other's.
LEMMA HeadFacts ==
    ASSUME PoolInv, RunTypes, RunsPartition
    PROVE  /\ \A h \in Heads : /\ h \in Frames /\ h \in Nat /\ h # NULL
                               /\ mem[h].w1 \in Nat /\ mem[h].w1 > 0
                               /\ h \in Run(h) /\ Run(h) \subseteq Frames
           /\ \A g, h \in Heads : g \in Run(h) => g = h
<1>1. ASSUME NEW h \in Heads
      PROVE  /\ h \in Frames /\ h \in Nat /\ h # NULL
             /\ mem[h].w1 \in Nat /\ mem[h].w1 > 0
             /\ h \in Run(h) /\ Run(h) \subseteq Frames
    <2>1. h \in Frames /\ h \in Nat
        BY WindowWords DEF Heads, RunTypes
    <2>2. mem[h].w1 \in Nat /\ mem[h].w1 > 0
        BY <2>1, WindowWords DEF RunTypes, RunsPartition, Words
    <2>3. h \in Run(h)
        BY <2>1, <2>2 DEF Run
    <2>4. Run(h) \subseteq pool
        BY DEF RunsPartition
    <2>5. QED
        BY <2>1, <2>2, <2>3, <2>4, PoolFacts
<1>2. \A g, h \in Heads : g \in Run(h) => g = h
    BY <1>1 DEF RunsPartition
<1>3. QED
    BY <1>1, <1>2

\* A run of n frames, from the first to the last.
LEMMA IntervalSize ==
    ASSUME NEW first \in Nat, NEW last \in Int, NEW n \in Nat,
           last = first + n - 1, n > 0
    PROVE  Cardinality(first .. last) = n
<1>1. first \in Int /\ ~ (first > last) /\ last - first + 1 = n
    OBVIOUS
<1>2. Cardinality(first .. last) = IF first > last THEN 0 ELSE last - first + 1
    BY <1>1, FS_Interval, Zenon
<1>3. QED
    BY <1>1, <1>2

\* The words of a run's head.
LEMMA RecordFacts ==
    ASSUME RunTypes, NEW f \in Frames
    PROVE  mem[f] = [w0 |-> mem[f].w0, w1 |-> mem[f].w1]
BY DEF RunTypes

-----------------------------------------------------------------------------
(* kmalloc takes a run                                                     *)

\* What the walk has found when it takes a run: a free run that is long
\* enough, and the slot that points to it, which is not in the run.
LEMMA Found ==
    ASSUME SizesFit, HeapInv, hpc = "walk", Slot(link) \in Frames \ {NULL},
           NEW n \in Nat, NEW order \in [1 .. n -> free], Chain(order, n)
    PROVE  \E j \in 0 .. n - 1 :
               /\ link = IF j = 0 THEN NULL ELSE order[j]
               /\ Slot(link) = order[j + 1]
               /\ \A k \in 1 .. j : mem[order[k]].w1 < need
<1>1. PICK j \in 0 .. n : /\ link = IF j = 0 THEN NULL ELSE order[j]
                          /\ \A k \in 1 .. j : mem[order[k]].w1 < need
    BY DEF Chain
<1>2. CASE j = 0
    <2>1. link = NULL /\ Slot(link) = g_free_list
        BY <1>1, <1>2 DEF Slot
    <2>2. n # 0 /\ g_free_list = order[1]
        BY <2>1 DEF Chain, Linked
    <2>3. QED
        BY <1>1, <1>2, <2>1, <2>2
<1>3. CASE j > 0
    <2>1. link = order[j] /\ link \in free
        BY <1>1, <1>3
    <2>2. link # NULL
        BY <2>1, HeadFacts DEF HeapInv, RunInv, Heads
    <2>3. Slot(link) = mem[order[j]].w0
        BY <2>1, <2>2 DEF Slot
    <2>4. mem[order[j]].w0 = IF j = n THEN NULL ELSE order[j + 1]
        BY <1>3 DEF Chain, Linked
    <2>5. QED
        BY <1>1, <1>3, <2>3, <2>4
<1>4. QED
    BY <1>1, <1>2, <1>3

\* The free runs are exactly the ones on the list.
LEMMA Surjective ==
    ASSUME NEW n \in Nat, NEW order \in [1 .. n -> free], Chain(order, n),
           NEW h \in free
    PROVE  \E k \in 1 .. n : order[k] = h
BY DEF Chain, Linked

\* What a successful kmalloc has written when it takes the run, with t the
\* start of the tail if there is one.
Taken(run, t) ==
    /\ run \in free /\ run \notin live
    /\ link # run /\ (link = NULL \/ link \in free)
    /\ need \in Nat /\ need > 0 /\ mem[run].w1 >= need /\ t = run + need
    /\ mem[run].w1 > need => t \in Run(run) /\ t \notin Heads
    /\ mem' = [f \in Frames |-> mem'[f]]
    /\ mem'[run] = [w0 |-> KMALLOC_MAGIC, w1 |-> need]
    /\ mem[run].w1 > need =>
           mem'[t] = [w0 |-> mem[run].w0, w1 |-> mem[run].w1 - need]
    /\ g_free_list' = IF link # NULL THEN g_free_list
                      ELSE IF mem[run].w1 > need THEN t ELSE mem[run].w0
    /\ link # NULL =>
           mem'[link] = [w0 |-> IF mem[run].w1 > need THEN t ELSE mem[run].w0,
                         w1 |-> mem[link].w1]
    /\ \A f \in Frames :
           /\ f # run
           /\ f = link => link = NULL
           /\ mem[run].w1 > need => f # t
           => mem'[f] = mem[f]
    /\ free' = (free \ {run}) \cup (IF mem[run].w1 > need THEN {t} ELSE {})
    /\ live' = live \cup {run}
    /\ g_free_frames' = (g_free_frames - need) % U64
    /\ g_used_frames' = (g_used_frames + need) % U64

\* kmalloc writes nothing else.
LEMMA TakeWrites ==
    ASSUME SizesFit, HeapInv, WalkTake
    PROVE  Taken(Slot(link), Slot(link) + need)
<1> DEFINE run == Slot(link)
           t == run + need
           w == mem[run].w1
           to == IF w > need THEN t ELSE mem[run].w0
<1>1. hpc = "walk" /\ run \in Frames \ {NULL} /\ w >= need /\ TakeRun(run)
      /\ live' = live \cup {run}
    BY DEF WalkTake
<1>2. PICK n \in Nat : \E order \in [1 .. n -> free] : Chain(order, n)
    BY DEF HeapInv, RunInv, ChainInv
<1>3. PICK order \in [1 .. n -> free] : Chain(order, n)
    BY <1>2
<1>4. PICK j \in 0 .. n - 1 : /\ link = IF j = 0 THEN NULL ELSE order[j]
                              /\ run = order[j + 1]
    BY <1>1, <1>3, Found
<1> HIDE DEF run
<1>5. run \in free /\ run \notin live /\ run \in Heads
    BY <1>4 DEF HeapInv, RunInv, RunsPartition, Heads
<1>6. link # run /\ (link = NULL \/ link \in free)
    <2>1. j > 0 => order[j] # order[j + 1]
        BY <1>3 DEF Chain
    <2>2. QED
        BY <1>1, <1>4, <2>1
<1>7. need \in Nat /\ need > 0
    BY <1>1, FramesFor, WindowWords DEF HeapInv, RunInv, CallInv, RunTypes, Words
<1>8. w \in Nat /\ run \in Nat /\ Run(run) \subseteq Frames
    BY <1>5, HeadFacts DEF HeapInv, RunInv
<1>9. w > need => t \in Run(run) /\ t \notin Heads /\ t # run
    <2>1. w > need => t \in Run(run) /\ t # run
        BY <1>7, <1>8 DEF Run
    <2>2. QED
        BY <1>5, <2>1, HeadFacts DEF HeapInv, RunInv
<1>10. mem \in [Frames -> [w0 : Frames \cup {KMALLOC_MAGIC}, w1 : Words]]
    BY DEF HeapInv, RunInv, RunTypes
<1>11. Charge(run) = need /\ Header(Charge(run)) = [w0 |-> KMALLOC_MAGIC, w1 |-> need]
    BY <1>1, <1>7, <1>8 DEF Charge, Header
<1>12. link \in free => link \in Heads /\ link \in Frames /\ link # NULL
    BY HeadFacts DEF HeapInv, RunInv, Heads
<1> DEFINE m == IF w > need
                THEN [mem EXCEPT ![t] = [w0 |-> mem[run].w0, w1 |-> w - need],
                                 ![run] = [w0 |-> KMALLOC_MAGIC, w1 |-> need]]
                ELSE [mem EXCEPT ![run] = [w0 |-> KMALLOC_MAGIC, w1 |-> need]]
<1>13. Store(m, to)
    BY <1>1, <1>11 DEF TakeRun, SplitAt, TailNode
<1>14. /\ m = [f \in Frames |-> m[f]]
       /\ m[run] = [w0 |-> KMALLOC_MAGIC, w1 |-> need]
       /\ w > need => m[t] = [w0 |-> mem[run].w0, w1 |-> w - need]
       /\ \A f \in Frames : f # run /\ (w > need => f # t) => m[f] = mem[f]
    BY <1>1, <1>8, <1>9, <1>10
<1> HIDE DEF m
<1>15. g_free_list' = IF link # NULL THEN g_free_list ELSE to
    BY <1>13 DEF Store
<1>16. link = NULL => mem' = m
    BY <1>13 DEF Store
<1>17. link # NULL => mem' = [m EXCEPT ![link].w0 = to]
    BY <1>13 DEF Store
<1>18. link # NULL => m[link] = [w0 |-> mem[link].w0, w1 |-> mem[link].w1]
    BY <1>6, <1>9, <1>12, <1>14, RecordFacts DEF HeapInv, RunInv
<1> HIDE DEF to, t, w
<1>19. link # NULL => mem'[link] = [w0 |-> to, w1 |-> mem[link].w1]
    BY <1>6, <1>12, <1>14, <1>17, <1>18
<1>20. mem' = [f \in Frames |-> mem'[f]] /\ \A f \in Frames : f # link => mem'[f] = m[f]
    BY <1>12, <1>14, <1>16, <1>17
<1>21. mem'[run] = m[run] /\ (w > need => mem'[t] = m[t])
    BY <1>1, <1>6, <1>8, <1>9, <1>12, <1>16, <1>20
<1>22. /\ free' = (free \ {run}) \cup (IF w > need THEN {t} ELSE {})
       /\ g_free_frames' = (g_free_frames - need) % U64
       /\ g_used_frames' = (g_used_frames + need) % U64
    BY <1>1, <1>11 DEF TakeRun, SplitAt, t, w
<1>23. Taken(run, t)
    <2> USE DEF w
    <2>1. ASSUME NEW f \in Frames, f # run, f = link => link = NULL,
                 mem[run].w1 > need => f # t
          PROVE  mem'[f] = mem[f]
        BY <1>14, <1>16, <1>20, <2>1
    <2>2. QED
        BY <1>1, <1>5, <1>6, <1>7, <1>9, <1>14, <1>15, <1>19, <1>20, <1>21, <1>22, <2>1
           DEF Taken, to, t
<1>24. QED
    BY <1>23 DEF run, t

\* The other runs stay as they are.
LEMMA OtherRuns ==
    ASSUME HeapInv, NEW run, NEW t, Taken(run, t)
    PROVE  /\ Run(run)' = run .. t - 1
           /\ mem[run].w1 > need => Run(t)' = t .. run + mem[run].w1 - 1
           /\ \A h \in Heads : h # run => mem'[h].w1 = mem[h].w1 /\ Run(h)' = Run(h)
           /\ \A h \in Heads : h # run /\ h # link => mem'[h] = mem[h]
           /\ \A h \in live : mem'[h] = mem[h]
<1>1. run \in Nat /\ need \in Nat /\ mem[run].w1 \in Nat /\ t = run + need
      /\ run \in Heads
    BY HeadFacts DEF HeapInv, RunInv, Taken, Heads
<1>2. mem'[run].w1 = need
    BY DEF Taken
<1>3. Run(run)' = run .. t - 1
    BY <1>1, <1>2 DEF Run
<1>4. mem[run].w1 > need => Run(t)' = t .. run + mem[run].w1 - 1
    <2>1. mem[run].w1 > need => mem'[t].w1 = mem[run].w1 - need
        BY DEF Taken
    <2>2. PICK w \in Nat : w = mem[run].w1
        BY <1>1
    <2>3. w > need => t + (w - need) - 1 = run + w - 1
        BY <1>1
    <2>4. Run(t)' = t .. t + mem'[t].w1 - 1
        BY DEF Run
    <2>5. QED
        BY <2>1, <2>2, <2>3, <2>4
<1>5. ASSUME NEW h \in Heads, h # run, h # link PROVE mem'[h] = mem[h]
    <2>1. h \in Frames
        BY DEF HeapInv, RunInv, RunTypes, Heads
    <2>2. QED
        BY <1>5, <2>1 DEF Taken
<1>6. ASSUME NEW h \in Heads, h # run PROVE mem'[h].w1 = mem[h].w1
    <2>1. CASE h = link
        <3>1. h # NULL
            BY HeadFacts DEF HeapInv, RunInv
        <3>2. QED
            BY <2>1, <3>1 DEF Taken
    <2>2. QED
        BY <1>5, <1>6, <2>1
<1>7. ASSUME NEW h \in live PROVE mem'[h] = mem[h]
    <2>1. h \in Heads /\ h \notin free /\ h # NULL
        BY HeadFacts DEF HeapInv, RunInv, RunsPartition, Heads
    <2>2. h # run /\ h # link
        BY <2>1 DEF Taken
    <2>3. QED
        BY <1>5, <2>1, <2>2
<1>8. QED
    BY <1>3, <1>4, <1>5, <1>6, <1>7 DEF Run

\* The runs still are a partition of the pool.
LEMMA TakePartition ==
    ASSUME HeapInv, NEW run, NEW t, Taken(run, t), pool' = pool
    PROVE  RunsPartition'
<1> DEFINE w == mem[run].w1
<1>1. /\ run \in Nat /\ need \in Nat /\ need > 0 /\ w \in Nat /\ w >= need
      /\ t = run + need /\ run \in Heads
    BY HeadFacts DEF HeapInv, RunInv, Taken, Heads
<1>2. /\ \A h \in Heads : h # run => mem'[h].w1 = mem[h].w1 /\ Run(h)' = Run(h)
      /\ Run(run)' = run .. t - 1
      /\ w > need => Run(t)' = t .. run + w - 1
    BY OtherRuns
<1>3. Heads' = Heads \cup (IF w > need THEN {t} ELSE {})
    BY DEF Heads, Taken
<1>4. w > need => t \in Run(run) /\ t \notin Heads
    BY DEF Taken
<1>5. Run(run) = run .. run + w - 1
    BY DEF Run
<1>6. free' \cap live' = {}
    <2>1. free \cap live = {}
        BY DEF HeapInv, RunInv, RunsPartition
    <2>2. QED
        BY <2>1, <1>4, <1>1 DEF Taken, Heads
<1>7. /\ mem'[run].w1 > 0
      /\ w > need => mem'[t].w1 > 0
    BY <1>1 DEF Taken
<1>v. PICK v \in Nat : v = w /\ v >= need
    BY <1>1
<1>i. /\ run .. t - 1 \subseteq run .. run + v - 1
      /\ t .. run + v - 1 \subseteq run .. run + v - 1
      /\ run .. run + v - 1 = (run .. t - 1) \cup (t .. run + v - 1)
      /\ (run .. t - 1) \cap (t .. run + v - 1) = {}
    <2>1. run \in Nat /\ need \in Nat /\ t = run + need /\ v >= need
        BY <1>1, <1>v
    <2>2. QED
        BY <2>1
<1>8. Run(run)' \subseteq Run(run) /\ (w > need => Run(t)' \subseteq Run(run))
    BY <1>2, <1>5, <1>v, <1>i, Zenon
<1>9. w > need => /\ Run(run) = Run(run)' \cup Run(t)'
                  /\ Run(run)' \cap Run(t)' = {}
    BY <1>2, <1>5, <1>v, <1>i, Zenon
<1>10. w = need => Run(run)' = Run(run)
    BY <1>1, <1>2, <1>5
<1> HIDE DEF w
<1>11. ASSUME NEW h \in Heads'
       PROVE  mem'[h].w1 > 0 /\ Run(h)' \subseteq pool
    <2>1. Run(run) \subseteq pool
        BY <1>1 DEF HeapInv, RunInv, RunsPartition
    <2>2. CASE h \in Heads /\ h # run
        BY <1>2, <2>2 DEF HeapInv, RunInv, RunsPartition
    <2>3. CASE h = run
        BY <1>7, <1>8, <2>1, <2>3
    <2>4. CASE w > need /\ h = t
        BY <1>7, <1>8, <2>1, <2>4
    <2>5. QED
        BY <1>3, <2>2, <2>3, <2>4
<1>12. ASSUME NEW f \in pool PROVE \E h \in Heads' : f \in Run(h)'
    <2>1. PICK h \in Heads : f \in Run(h)
        BY DEF HeapInv, RunInv, RunsPartition
    <2>2. CASE h # run
        BY <1>2, <1>3, <2>1, <2>2
    <2>3. CASE h = run /\ w > need
        BY <1>1, <1>3, <1>9, <2>1, <2>3
    <2>4. CASE h = run /\ w = need
        BY <1>1, <1>3, <1>10, <2>1, <2>4
    <2>5. QED
        BY <1>1, <2>2, <2>3, <2>4
<1>13. ASSUME NEW g \in Heads', NEW h \in Heads', g # h
       PROVE  Run(g)' \cap Run(h)' = {}
    <2>1. ASSUME NEW a \in Heads, a # run PROVE Run(a) \cap Run(run) = {}
        BY <1>1, <2>1 DEF HeapInv, RunInv, RunsPartition
    <2>2. CASE g \in Heads \ {run} /\ h \in Heads \ {run}
        BY <1>2, <1>13, <2>2 DEF HeapInv, RunInv, RunsPartition
    <2>3. CASE g \in Heads \ {run} /\ h \in {run, t} /\ (h = t => w > need)
        BY <1>2, <1>8, <2>1, <2>3
    <2>4. CASE h \in Heads \ {run} /\ g \in {run, t} /\ (g = t => w > need)
        BY <1>2, <1>8, <2>1, <2>4
    <2>5. CASE ((g = run /\ h = t) \/ (g = t /\ h = run)) /\ w > need
        BY <1>9, <2>5
    <2>6. ASSUME NEW a \in Heads'
          PROVE  a \in Heads \ {run} \/ a = run \/ (a = t /\ w > need)
        BY <1>3
    <2>7. /\ g \in Heads \ {run} \/ g = run \/ (g = t /\ w > need)
          /\ h \in Heads \ {run} \/ h = run \/ (h = t /\ w > need)
        BY <2>6
    <2>8. t # run
        BY <1>1
    <2>9. QED
        BY <1>13, <2>2, <2>3, <2>4, <2>5, <2>7, <2>8
<1>14. QED
    BY <1>6, <1>11, <1>12, <1>13 DEF RunsPartition

\* The magic marks the allocated runs, the new one included.
LEMMA TakeMagic ==
    ASSUME HeapInv, NEW run, NEW t, Taken(run, t), returned' = returned \cup {run}
    PROVE  MagicExact'
<1>1. Heads' = Heads \cup (IF mem[run].w1 > need THEN {t} ELSE {})
      /\ run \in Heads
    BY DEF Heads, Taken
<1>2. \A h \in Heads : mem[h].w0 = KMALLOC_MAGIC <=> h \in live
    BY DEF HeapInv, RunInv, MagicExact
<1>3. mem[run].w0 # KMALLOC_MAGIC
    BY <1>1, <1>2 DEF Taken
<1>4. mem[run].w1 > need => t \in Frames /\ t # KMALLOC_MAGIC /\ t \notin live'
    <2>1. Run(run) \subseteq Frames
        BY <1>1, HeadFacts DEF HeapInv, RunInv
    <2>2. QED
        BY <1>1, <2>1, HeapAssumption DEF Taken, Heads
<1>5. ASSUME NEW h \in Heads' PROVE mem'[h].w0 = KMALLOC_MAGIC <=> h \in live'
    <2>1. CASE h = run
        BY <2>1 DEF Taken
    <2>2. CASE mem[run].w1 > need /\ h = t
        BY <1>3, <1>4, <2>2 DEF Taken
    <2>3. CASE h \in Heads /\ h = link
        <3>1. link # NULL /\ link \in free /\ h \notin live'
            BY <2>3, HeadFacts DEF HeapInv, RunInv, RunsPartition, Taken
        <3>2. mem'[link].w0 # KMALLOC_MAGIC
            BY <1>3, <1>4, <3>1 DEF Taken
        <3>3. QED
            BY <2>3, <3>1, <3>2
    <2>4. CASE h \in Heads /\ h # run /\ h # link
        BY <1>2, <2>4, OtherRuns DEF Taken
    <2>5. QED
        BY <1>1, <2>1, <2>2, <2>3, <2>4
<1>6. returned' \subseteq Heads'
    BY <1>1 DEF HeapInv, RunInv, MagicExact
<1>7. QED
    BY <1>5, <1>6 DEF MagicExact

\* The free list is a list again once a step has left one.
LEMMA ChainAgain ==
    ASSUME NEW m \in Nat, NEW o \in [1 .. m -> free'],
           \A j, k \in 1 .. m : o[j] = o[k] => j = k,
           \A h \in free' : \E k \in 1 .. m : o[k] = h,
           g_free_list' = IF m = 0 THEN NULL ELSE o[1],
           \A k \in 1 .. m : mem'[o[k]].w0 = IF k = m THEN NULL ELSE o[k + 1],
           hpc' # "walk"
    PROVE  ChainInv'
<1>1. {o[k] : k \in 1 .. m} = free'
    OBVIOUS
<1>2. Linked(o, m)'
    BY <1>1 DEF Linked
<1>3. Chain(o, m)'
    BY <1>2 DEF Chain
<1>4. QED
    BY <1>3 DEF ChainInv

\* The tail takes the place of the run that was split.
LEMMA SplitChain ==
    ASSUME SizesFit, HeapInv, NEW run, NEW t, Taken(run, t), run = Slot(link),
           hpc = "walk", hpc' = "idle", mem[run].w1 > need
    PROVE  ChainInv'
<1>1. PICK n \in Nat : \E order \in [1 .. n -> free] : Chain(order, n)
    BY DEF HeapInv, RunInv, ChainInv
<1>2. PICK order \in [1 .. n -> free] : Chain(order, n)
    BY <1>1
<1>3. run \in Heads /\ run \in Frames \ {NULL}
    BY HeadFacts DEF HeapInv, RunInv, Taken, Heads
<1>4. PICK j \in 0 .. n - 1 : /\ link = IF j = 0 THEN NULL ELSE order[j]
                              /\ run = order[j + 1]
    BY <1>2, <1>3, Found
<1>5. /\ \A k \in 1 .. n : order[k] \in free
      /\ \A k \in 1 .. n : order[k] \in Heads /\ order[k] # NULL
      /\ \A k \in 1 .. n : order[k] # t
    BY HeadFacts DEF HeapInv, RunInv, Heads, Taken
<1>6. \A a, b \in 1 .. n : order[a] = order[b] => a = b
    BY <1>2 DEF Chain
<1>7. \A k \in 1 .. n : mem[order[k]].w0 = IF k = n THEN NULL ELSE order[k + 1]
    BY <1>2 DEF Chain, Linked
<1>8. j + 1 \in 1 .. n /\ (link = NULL <=> j = 0) /\ (j > 0 => j \in 1 .. n)
    BY <1>4, <1>5
<1>9. free' = (free \ {run}) \cup {t}
    BY DEF Taken
<1>10. PICK o \in [1 .. n -> free'] : /\ o[j + 1] = t
                                     /\ \A k \in 1 .. n : k # j + 1 => o[k] = order[k]
    <2> DEFINE o == [k \in 1 .. n |-> IF k = j + 1 THEN t ELSE order[k]]
    <2>1. \A k \in 1 .. n : o[k] \in free'
        BY <1>4, <1>5, <1>6, <1>8, <1>9
    <2>2. o \in [1 .. n -> free']
        BY <2>1
    <2>3. o[j + 1] = t /\ \A k \in 1 .. n : k # j + 1 => o[k] = order[k]
        BY <1>8
    <2> HIDE DEF o
    <2>4. QED
        BY <2>2, <2>3
<1>11. \A a, b \in 1 .. n : o[a] = o[b] => a = b
    BY <1>5, <1>6, <1>8, <1>10
<1>12. ASSUME NEW h \in free' PROVE \E k \in 1 .. n : o[k] = h
    <2>1. CASE h = t
        BY <1>8, <1>10, <2>1
    <2>2. CASE h \in free /\ h # run
        <3>1. PICK k \in 1 .. n : order[k] = h
            BY <1>2, <2>2, Surjective
        <3>2. k # j + 1
            BY <1>4, <2>2, <3>1
        <3>3. QED
            BY <1>10, <3>1, <3>2
    <2>3. QED
        BY <1>9, <2>1, <2>2
<1>13. g_free_list' = IF n = 0 THEN NULL ELSE o[1]
    <2>1. n # 0 /\ 1 \in 1 .. n
        BY <1>8
    <2>2. CASE j = 0
        BY <1>8, <1>10, <2>1, <2>2 DEF Taken
    <2>3. CASE j > 0
        <3>1. g_free_list' = g_free_list /\ g_free_list = order[1]
            BY <1>2, <1>8, <2>1, <2>3 DEF Taken, Chain, Linked
        <3>2. o[1] = order[1]
            BY <1>10, <2>1, <2>3
        <3>3. QED
            BY <2>1, <3>1, <3>2
    <2>4. QED
        BY <2>2, <2>3
<1>14. ASSUME NEW k \in 1 .. n
       PROVE  mem'[o[k]].w0 = IF k = n THEN NULL ELSE o[k + 1]
    <2>1. CASE k = j + 1
        <3>1. mem'[t].w0 = mem[run].w0
            BY DEF Taken
        <3>2. k # n => o[k + 1] = order[k + 1]
            BY <1>10, <2>1
        <3>3. QED
            BY <1>4, <1>7, <1>8, <1>10, <2>1, <3>1, <3>2
    <2>2. CASE k = j
        <3>1. link # NULL /\ o[k] = link /\ k # n
            BY <1>4, <1>8, <1>10, <2>2
        <3>2. mem'[link].w0 = t
            BY <3>1 DEF Taken
        <3>3. QED
            BY <1>10, <2>2, <3>1, <3>2
    <2>3. CASE k # j /\ k # j + 1
        <3>1. o[k] = order[k] /\ (k # n => o[k + 1] = order[k + 1])
            BY <1>10, <2>3
        <3>2. order[k] # run /\ order[k] # link
            BY <1>4, <1>5, <1>6, <1>8, <2>3
        <3>3. mem'[order[k]] = mem[order[k]]
            BY <1>5, <3>2, OtherRuns
        <3>4. QED
            BY <1>7, <3>1, <3>3
    <2>4. QED
        BY <2>1, <2>2, <2>3
<1>15. QED
    BY <1>10, <1>11, <1>12, <1>13, <1>14, ChainAgain

\* A run that is taken whole leaves the list.
LEMMA WholeChain ==
    ASSUME SizesFit, HeapInv, NEW run, NEW t, Taken(run, t), run = Slot(link),
           hpc = "walk", hpc' = "idle", ~ (mem[run].w1 > need)
    PROVE  ChainInv'
<1>1. PICK n \in Nat : \E order \in [1 .. n -> free] : Chain(order, n)
    BY DEF HeapInv, RunInv, ChainInv
<1>2. PICK order \in [1 .. n -> free] : Chain(order, n)
    BY <1>1
<1>3. run \in Heads /\ run \in Frames \ {NULL}
    BY HeadFacts DEF HeapInv, RunInv, Taken, Heads
<1>4. PICK j \in 0 .. n - 1 : /\ link = IF j = 0 THEN NULL ELSE order[j]
                              /\ run = order[j + 1]
    BY <1>2, <1>3, Found
<1>5. \A k \in 1 .. n : order[k] \in free /\ order[k] \in Heads /\ order[k] # NULL
    BY HeadFacts DEF HeapInv, RunInv, Heads
<1>6. \A a, b \in 1 .. n : order[a] = order[b] => a = b
    BY <1>2 DEF Chain
<1>7. \A k \in 1 .. n : mem[order[k]].w0 = IF k = n THEN NULL ELSE order[k + 1]
    BY <1>2 DEF Chain, Linked
<1>8. j + 1 \in 1 .. n /\ (link = NULL <=> j = 0) /\ (j > 0 => j \in 1 .. n)
    BY <1>4, <1>5
<1>9. free' = free \ {run}
    BY DEF Taken
<1>10. PICK m \in Nat : m = n - 1
    BY <1>8
<1>11. PICK o \in [1 .. m -> free'] :
           \A k \in 1 .. m : o[k] = IF k <= j THEN order[k] ELSE order[k + 1]
    <2> DEFINE o == [k \in 1 .. m |-> IF k <= j THEN order[k] ELSE order[k + 1]]
    <2>1. ASSUME NEW k \in 1 .. m PROVE o[k] \in free'
        <3>1. k \in 1 .. n /\ k + 1 \in 1 .. n
            BY <1>10
        <3>2. k <= j => order[k] # run
            BY <1>4, <1>6, <1>8, <3>1
        <3>3. ~ (k <= j) => order[k + 1] # run
            BY <1>4, <1>6, <1>8, <3>1
        <3>4. QED
            BY <1>5, <1>9, <3>1, <3>2, <3>3
    <2>2. o \in [1 .. m -> free']
        BY <2>1
    <2>3. \A k \in 1 .. m : o[k] = IF k <= j THEN order[k] ELSE order[k + 1]
        OBVIOUS
    <2> HIDE DEF o
    <2>4. QED
        BY <2>2, <2>3
<1>12. ASSUME NEW a \in 1 .. m, NEW b \in 1 .. m, o[a] = o[b] PROVE a = b
    <2>1. PICK x \in 1 .. n : x = IF a <= j THEN a ELSE a + 1
        BY <1>10
    <2>2. PICK y \in 1 .. n : y = IF b <= j THEN b ELSE b + 1
        BY <1>10
    <2>3. o[a] = order[x] /\ o[b] = order[y]
        BY <1>11, <2>1, <2>2
    <2>4. x = y
        BY <1>6, <1>12, <2>3
    <2>5. QED
        BY <2>1, <2>2, <2>4
<1>13. ASSUME NEW h \in free' PROVE \E k \in 1 .. m : o[k] = h
    <2>1. PICK k \in 1 .. n : order[k] = h
        BY <1>2, <1>9, Surjective
    <2>2. k # j + 1
        BY <1>4, <1>9, <2>1
    <2>3. CASE k <= j
        <3>1. k \in 1 .. m
            BY <1>8, <1>10, <2>3
        <3>2. QED
            BY <1>11, <2>1, <2>3, <3>1
    <2>4. CASE k > j + 1
        <3>1. k - 1 \in 1 .. m /\ ~ (k - 1 <= j) /\ (k - 1) + 1 = k
            BY <1>8, <1>10, <2>4
        <3>2. o[k - 1] = order[k]
            BY <1>11, <3>1
        <3>3. QED
            BY <2>1, <3>1, <3>2
    <2>5. QED
        BY <2>2, <2>3, <2>4
<1>14. mem[run].w0 = IF j + 1 = n THEN NULL ELSE order[(j + 1) + 1]
    BY <1>4, <1>7, <1>8
<1>15. g_free_list' = IF m = 0 THEN NULL ELSE o[1]
    <2>1. CASE j = 0
        <3>1. g_free_list' = mem[run].w0
            BY <1>8, <2>1 DEF Taken
        <3>2. m # 0 => o[1] = order[2]
            BY <1>10, <1>11, <2>1
        <3>3. QED
            BY <1>10, <1>14, <2>1, <3>1, <3>2
    <2>2. CASE j > 0
        <3>1. g_free_list' = g_free_list /\ g_free_list = order[1]
            BY <1>2, <1>8, <2>2 DEF Taken, Chain, Linked
        <3>2. m # 0 /\ o[1] = order[1]
            BY <1>8, <1>10, <1>11, <2>2
        <3>3. QED
            BY <3>1, <3>2
    <2>3. QED
        BY <2>1, <2>2
<1>16. ASSUME NEW k \in 1 .. m
       PROVE  mem'[o[k]].w0 = IF k = m THEN NULL ELSE o[k + 1]
    <2>1. CASE k = j
        <3>1. link # NULL /\ o[k] = link
            BY <1>4, <1>8, <1>10, <1>11, <2>1
        <3>2. mem'[link].w0 = mem[run].w0
            BY <3>1 DEF Taken
        <3>3. k # m => o[k + 1] = order[(j + 1) + 1]
            BY <1>10, <1>11, <2>1
        <3>4. QED
            BY <1>10, <1>14, <2>1, <3>1, <3>2, <3>3
    <2>2. CASE k < j
        <3>1. o[k] = order[k] /\ k # m /\ o[k + 1] = order[k + 1] /\ k \in 1 .. n
              /\ k # n
            BY <1>8, <1>10, <1>11, <2>2
        <3>2. order[k] # run /\ order[k] # link
            BY <1>4, <1>5, <1>6, <1>8, <2>2, <3>1
        <3>3. mem'[order[k]] = mem[order[k]]
            BY <1>5, <3>1, <3>2, OtherRuns
        <3>4. QED
            BY <1>7, <3>1, <3>3
    <2>3. CASE k > j
        <3>1. /\ o[k] = order[k + 1] /\ k + 1 \in 1 .. n
              /\ k # m => o[k + 1] = order[(k + 1) + 1]
              /\ k = m <=> k + 1 = n
            BY <1>8, <1>10, <1>11, <2>3
        <3>2. order[k + 1] # run /\ order[k + 1] # link
            BY <1>4, <1>5, <1>6, <1>8, <2>3, <3>1
        <3>3. mem'[order[k + 1]] = mem[order[k + 1]]
            BY <1>5, <3>1, <3>2, OtherRuns
        <3>4. QED
            BY <1>7, <3>1, <3>3
    <2>4. QED
        BY <2>1, <2>2, <2>3
<1>17. /\ \A a, b \in 1 .. m : o[a] = o[b] => a = b
       /\ \A h \in free' : \E k \in 1 .. m : o[k] = h
    BY <1>12, <1>13, Zenon
<1>18. \A k \in 1 .. m : mem'[o[k]].w0 = IF k = m THEN NULL ELSE o[k + 1]
    BY <1>16, Zenon
<1>19. hpc' # "walk"
    OBVIOUS
<1>20. {o[k] : k \in 1 .. m} = free'
    BY <1>17
<1>21. Chain(o, m)'
    BY <1>15, <1>17, <1>18, <1>19, <1>20 DEF Chain, Linked
<1>22. QED
    BY <1>21 DEF ChainInv

-----------------------------------------------------------------------------
(* The counters                                                            *)

\* The frames of the free and of the allocated runs.
FreeSet == UNION {Run(h) : h \in free}
LiveSet == UNION {Run(h) : h \in live}

\* Frames that move from one set to another: the 64-bit counters follow.
LEMMA Moved ==
    ASSUME NEW A \in SUBSET Frames, NEW B \in SUBSET Frames, NEW R \in SUBSET A,
           R \cap B = {}
    PROVE  /\ (Cardinality(A) - Cardinality(R)) % U64 = Cardinality(A \ R)
           /\ (Cardinality(B) + Cardinality(R)) % U64 = Cardinality(B \cup R)
           /\ Cardinality(A \ R) \in Words /\ Cardinality(B \cup R) \in Words
<1>1. IsFiniteSet(A) /\ IsFiniteSet(B) /\ IsFiniteSet(R)
      /\ Cardinality(A) \in Nat /\ Cardinality(B) \in Nat /\ Cardinality(R) \in Nat
    BY WindowFinite, WindowWords
<1>2. Cardinality(A \ R) \in 0 .. PMM_MAX_FRAMES
      /\ Cardinality(B \cup R) \in 0 .. PMM_MAX_FRAMES
    <2>1. A \ R \in SUBSET Frames /\ B \cup R \in SUBSET Frames
        OBVIOUS
    <2>2. QED
        BY <2>1, WindowFinite
<1>3. Cardinality(A \ R) = Cardinality(A) - Cardinality(R)
    <2>1. A \cap R = R
        OBVIOUS
    <2>2. QED
        BY <1>1, <2>1, FS_Difference
<1>4. Cardinality(B \cup R) = Cardinality(B) + Cardinality(R)
    <2>1. B \cap R = {}
        OBVIOUS
    <2>2. Cardinality(B \cup R)
              = Cardinality(B) + Cardinality(R) - Cardinality(B \cap R)
        BY <1>1, FS_Union
    <2>3. Cardinality(B \cap R) = 0
        BY <2>1, FS_EmptySet
    <2>4. QED
        BY <1>1, <2>2, <2>3
<1>5. \A x \in 0 .. PMM_MAX_FRAMES : x % U64 = x /\ x \in Words
    BY WindowWords, SMT DEF Words
<1>6. QED
    BY <1>2, <1>3, <1>4, <1>5

\* The frames of the two kinds of runs lie in the window, apart.
LEMMA SetFacts ==
    ASSUME HeapInv
    PROVE  /\ FreeSet \in SUBSET Frames /\ LiveSet \in SUBSET Frames
           /\ FreeSet \cap LiveSet = {}
           /\ \A h \in free : Run(h) \subseteq FreeSet /\ Run(h) \cap LiveSet = {}
           /\ \A h \in live : Run(h) \subseteq LiveSet /\ Run(h) \cap FreeSet = {}
           /\ g_free_frames = Cardinality(FreeSet)
           /\ g_used_frames = Cardinality(LiveSet)
<1>1. \A h \in Heads : Run(h) \subseteq Frames
    BY HeadFacts DEF HeapInv, RunInv
<1>2. \A g, h \in Heads : g # h => Run(g) \cap Run(h) = {}
    BY DEF HeapInv, RunInv, RunsPartition
<1>3. free \cap live = {}
    BY DEF HeapInv, RunInv, RunsPartition
<1>4. \A g \in free, h \in live : Run(g) \cap Run(h) = {}
    BY <1>2, <1>3 DEF Heads
<1>5. FreeSet \in SUBSET Frames /\ LiveSet \in SUBSET Frames
    BY <1>1 DEF FreeSet, LiveSet, Heads
<1>6. \A h \in free : Run(h) \subseteq FreeSet /\ Run(h) \cap LiveSet = {}
    BY <1>4 DEF FreeSet, LiveSet
<1>7. \A h \in live : Run(h) \subseteq LiveSet /\ Run(h) \cap FreeSet = {}
    BY <1>4 DEF FreeSet, LiveSet
<1>8. FreeSet \cap LiveSet = {}
    BY <1>6 DEF FreeSet
<1>9. g_free_frames = Cardinality(FreeSet) /\ g_used_frames = Cardinality(LiveSet)
    BY DEF HeapInv, RunInv, HeapCounters, FreeSet, LiveSet
<1>10. QED
    BY <1>5, <1>6, <1>7, <1>8, <1>9

\* kmalloc's counters.
LEMMA TakeCounts ==
    ASSUME HeapInv, NEW run, NEW t, Taken(run, t)
    PROVE  /\ HeapCounters'
           /\ g_free_frames' \in Words /\ g_used_frames' \in Words
<1> DEFINE w == mem[run].w1
           Block == run .. t - 1
<1>1. /\ run \in Nat /\ need \in Nat /\ need > 0 /\ w \in Nat /\ w >= need
      /\ t = run + need /\ run \in Heads /\ run \in free
      /\ Run(run) = run .. run + w - 1
    BY HeadFacts DEF HeapInv, RunInv, Taken, Heads, Run
<1>2. Block \subseteq Run(run) /\ Cardinality(Block) = need
    <2>1. t - 1 \in Int /\ t - 1 = run + need - 1
        BY <1>1
    <2>2. Cardinality(run .. t - 1) = need
        BY <1>1, <2>1, IntervalSize
    <2>3. QED
        BY <1>1, <2>2
<1>3. /\ \A h \in Heads : h # run => Run(h)' = Run(h)
      /\ Run(run)' = Block
      /\ w > need => Run(t)' = t .. run + w - 1
    BY OtherRuns
<1>4. /\ w > need => Run(t)' = Run(run) \ Block
      /\ w = need => Run(run) = Block
    BY <1>1, <1>3
<1>5. /\ free' = (free \ {run}) \cup (IF w > need THEN {t} ELSE {})
      /\ live' = live \cup {run}
      /\ run \notin live
    BY DEF Taken
<1>6. /\ FreeSet \in SUBSET Frames /\ LiveSet \in SUBSET Frames
      /\ Run(run) \subseteq FreeSet /\ Run(run) \cap LiveSet = {}
    BY <1>1, SetFacts
<1>7. \A h \in free : h # run => Run(h) \cap Run(run) = {}
    BY <1>1 DEF HeapInv, RunInv, RunsPartition, Heads
<1>8. \A h \in free : h # run => Run(h)' = Run(h)
    BY <1>3 DEF Heads
<1>9. \A h \in live : Run(h)' = Run(h)
    BY <1>3, <1>5 DEF Heads
<1> HIDE DEF w, Block
<1>10. UNION {Run(h)' : h \in live'} = LiveSet \cup Block
    <2>1. ASSUME NEW f, f \in UNION {Run(h)' : h \in live'} PROVE f \in LiveSet \cup Block
        <3>1. PICK h \in live' : f \in Run(h)'
            BY <2>1
        <3>2. QED
            BY <1>3, <1>5, <1>9, <3>1 DEF LiveSet
    <2>2. ASSUME NEW f, f \in LiveSet PROVE f \in UNION {Run(h)' : h \in live'}
        <3>1. PICK h \in live : f \in Run(h)
            BY <2>2 DEF LiveSet
        <3>2. QED
            BY <1>5, <1>9, <3>1
    <2>3. ASSUME NEW f, f \in Block PROVE f \in UNION {Run(h)' : h \in live'}
        BY <1>3, <1>5, <2>3
    <2>4. QED
        BY <2>1, <2>2, <2>3
<1>11. UNION {Run(h)' : h \in free'} = FreeSet \ Block
    <2>1. ASSUME NEW f, f \in UNION {Run(h)' : h \in free'} PROVE f \in FreeSet \ Block
        <3>1. PICK h \in free' : f \in Run(h)'
            BY <2>1
        <3>2. CASE h \in free /\ h # run
            BY <1>2, <1>7, <1>8, <3>1, <3>2 DEF FreeSet
        <3>3. CASE w > need /\ h = t
            BY <1>4, <1>6, <3>1, <3>3
        <3>4. QED
            BY <1>5, <3>2, <3>3
    <2>2. ASSUME NEW f, f \in FreeSet \ Block PROVE f \in UNION {Run(h)' : h \in free'}
        <3>1. PICK h \in free : f \in Run(h)
            BY <2>2 DEF FreeSet
        <3>2. CASE h # run
            BY <1>5, <1>8, <3>1, <3>2
        <3>3. CASE h = run
            <4>1. w > need
                BY <1>1, <1>4, <2>2, <3>1, <3>3
            <4>2. t \in free' /\ f \in Run(t)'
                BY <1>4, <1>5, <2>2, <3>1, <3>3, <4>1
            <4>3. QED
                BY <4>2
        <3>4. QED
            BY <3>2, <3>3
    <2>3. QED
        BY <2>1, <2>2
<1>12. Block \in SUBSET FreeSet /\ Block \cap LiveSet = {}
    BY <1>2, <1>6
<1>13. /\ (Cardinality(FreeSet) - need) % U64 = Cardinality(FreeSet \ Block)
       /\ (Cardinality(LiveSet) + need) % U64 = Cardinality(LiveSet \cup Block)
       /\ Cardinality(FreeSet \ Block) \in Words
       /\ Cardinality(LiveSet \cup Block) \in Words
    <2>1. /\ (Cardinality(FreeSet) - Cardinality(Block)) % U64
                 = Cardinality(FreeSet \ Block)
          /\ (Cardinality(LiveSet) + Cardinality(Block)) % U64
                 = Cardinality(LiveSet \cup Block)
          /\ Cardinality(FreeSet \ Block) \in Words
          /\ Cardinality(LiveSet \cup Block) \in Words
        BY <1>6, <1>12, Moved
    <2>2. QED
        BY <1>2, <2>1
<1>14. /\ g_free_frames' = Cardinality(FreeSet \ Block)
       /\ g_used_frames' = Cardinality(LiveSet \cup Block)
    BY <1>13, SetFacts DEF Taken
<1>15. HeapCounters'
    BY <1>10, <1>11, <1>14 DEF HeapCounters
<1>16. QED
    BY <1>13, <1>14, <1>15

\* kmalloc keeps the whole invariant.
LEMMA TakeKeeps ==
    ASSUME SizesFit, HeapInv, WalkTake, PoolInv'
    PROVE  RunInv'
<1>1. PICK run \in Frames : run = Slot(link)
    BY DEF WalkTake
<1>2. PICK t : t = run + need
    OBVIOUS
<1>3. Taken(run, t)
    BY <1>1, <1>2, TakeWrites
<1>4. /\ hpc = "walk" /\ hpc' = "idle" /\ pool' = pool
      /\ asked' = [asked EXCEPT ![run] = size]
      /\ returned' = returned \cup {run}
      /\ need' = need /\ size' = size /\ link' = link
    BY <1>1 DEF WalkTake, bootVars, callVars
<1>5. RunsPartition' /\ MagicExact' /\ HeapCounters'
    BY <1>3, <1>4, TakePartition, TakeMagic, TakeCounts
<1>6. ChainInv'
    BY <1>1, <1>3, <1>4, SplitChain, WholeChain
<1>7. /\ need \in Nat /\ need > 0 /\ need \in Words /\ size \in Sizes
      /\ need = frames_for(size) /\ need * PMM_FRAME_SIZE >= HEADER + size
    BY <1>3, <1>4, FramesFor DEF HeapInv, RunInv, CallInv, Taken, RunTypes
<1>8. RunTypes'
    <2> DEFINE R == [w0 : Frames \cup {KMALLOC_MAGIC}, w1 : Words]
    <2>1. mem \in [Frames -> R] /\ run \in Frames /\ run \in Heads
        BY <1>3 DEF HeapInv, RunInv, RunTypes, Taken, Heads
    <2>2. mem[run].w1 > need => t \in Frames
        <3>1. Run(run) \subseteq Frames
            BY <2>1, HeadFacts DEF HeapInv, RunInv
        <3>2. QED
            BY <1>3, <3>1 DEF Taken
    <2>3. mem[run].w0 \in Frames
        BY <1>3, <2>1 DEF HeapInv, RunInv, MagicExact, Taken
    <2>4. mem[run].w1 > need => mem[run].w1 - need \in Words
        <3>1. mem[run].w1 \in Words
            BY <2>1
        <3> DEFINE w == mem[run].w1
        <3> HIDE DEF w
        <3>2. w > need => w - need \in Words
            BY <1>7, <3>1, WindowWords DEF Words, w
        <3>3. QED
            BY <3>2 DEF w
    <2>5. ASSUME NEW f \in Frames PROVE mem'[f] \in R
        <3>1. CASE f = run
            BY <1>3, <1>7, <3>1 DEF Taken
        <3>2. CASE f = link /\ link # NULL
            BY <1>3, <2>1, <2>2, <2>3, <3>2 DEF Taken
        <3>3. CASE mem[run].w1 > need /\ f = t
            BY <1>3, <2>2, <2>3, <2>4, <3>3 DEF Taken
        <3>4. CASE /\ f # run /\ (f = link => link = NULL)
                   /\ ~ (mem[run].w1 > need /\ f = t)
            BY <1>3, <2>1, <3>4 DEF Taken
        <3>5. QED
            BY <3>1, <3>2, <3>3, <3>4
    <2>6. mem' \in [Frames -> R]
        <3>1. mem' = [f \in Frames |-> mem'[f]]
            BY <1>3 DEF Taken
        <3>2. QED
            BY <2>5, <3>1
    <2>7. free' \in SUBSET Frames /\ live' \in SUBSET Frames /\ g_free_list' \in Frames
        BY <1>3, <2>1, <2>2, <2>3 DEF Taken, HeapInv, RunInv, RunTypes
    <2>8. returned' \in SUBSET Frames /\ asked' \in [Frames -> Words]
        BY <1>4, <2>1 DEF HeapInv, RunInv, RunTypes
    <2>9. g_free_frames' \in Words /\ g_used_frames' \in Words
        BY <1>3, TakeCounts
    <2>10. QED
        BY <1>4, <2>6, <2>7, <2>8, <2>9 DEF RunTypes, HeapInv, RunInv
<1>9. BlockHoldsRequest'
    <2>1. ASSUME NEW h \in live'
          PROVE  mem'[h].w1 * PMM_FRAME_SIZE >= HEADER + asked'[h]
        <3>1. asked \in [Frames -> Words] /\ live \in SUBSET Frames
            BY DEF HeapInv, RunInv, RunTypes
        <3>2. CASE h = run
            <4>1. mem'[h].w1 = need /\ asked'[h] = size
                BY <1>3, <1>4, <3>1, <3>2 DEF Taken
            <4>2. QED
                BY <1>7, <4>1
        <3>3. CASE h # run
            <4>1. h \in live
                BY <1>3, <3>3 DEF Taken
            <4>2. mem'[h] = mem[h] /\ asked'[h] = asked[h]
                BY <1>3, <1>4, <3>1, <3>3, <4>1, OtherRuns
            <4>3. mem[h].w1 * PMM_FRAME_SIZE >= HEADER + asked[h]
                BY <4>1 DEF HeapInv, RunInv, BlockHoldsRequest
            <4>4. QED
                BY <4>2, <4>3
        <3>4. QED
            BY <3>2, <3>3
    <2>2. QED
        BY <2>1 DEF BlockHoldsRequest
<1>10. EmptyInv' /\ CallInv'
    BY <1>4 DEF EmptyInv, CallInv, Booting
<1>11. QED
    BY <1>5, <1>6, <1>8, <1>9, <1>10 DEF RunInv

-----------------------------------------------------------------------------
(* The other steps                                                         *)

\* A step that changes no run and no node of the list.
LEMMA SameHeads ==
    ASSUME HeapInv, \A h \in Heads : mem'[h] = mem[h],
           UNCHANGED <<g_free_list, g_free_frames, g_used_frames, runVars, pool>>
    PROVE  /\ RunsPartition' /\ MagicExact' /\ HeapCounters' /\ BlockHoldsRequest'
           /\ \A n \in Nat : \A order \in [1 .. n -> free] :
                  Linked(order, n) => Linked(order, n)'
<1>1. free' = free /\ live' = live /\ asked' = asked /\ returned' = returned
      /\ Heads' = Heads
    BY DEF runVars, Heads
<1>2. \A h \in Heads : Run(h)' = Run(h)
    BY DEF Run
<1>3. RunsPartition'
    BY <1>1, <1>2 DEF HeapInv, RunInv, RunsPartition
<1>4. MagicExact'
    BY <1>1 DEF HeapInv, RunInv, MagicExact
<1>5. HeapCounters'
    <2>1. {Run(h)' : h \in free'} = {Run(h) : h \in free}
          /\ {Run(h)' : h \in live'} = {Run(h) : h \in live}
        BY <1>1, <1>2 DEF Heads
    <2>2. QED
        BY <2>1 DEF HeapInv, RunInv, HeapCounters
<1>6. BlockHoldsRequest'
    <2>1. ASSUME NEW h \in live' PROVE mem'[h].w1 * PMM_FRAME_SIZE >= HEADER + asked'[h]
        <3>1. mem'[h] = mem[h] /\ asked'[h] = asked[h] /\ h \in live
            BY <1>1 DEF Heads
        <3>2. mem[h].w1 * PMM_FRAME_SIZE >= HEADER + asked[h]
            BY <3>1 DEF HeapInv, RunInv, BlockHoldsRequest
        <3>3. QED
            BY <3>1, <3>2
    <2>2. QED
        BY <2>1 DEF BlockHoldsRequest
<1>7. ASSUME NEW n \in Nat, NEW order \in [1 .. n -> free], Linked(order, n)
      PROVE  Linked(order, n)'
    <2>1. \A k \in 1 .. n : mem'[order[k]] = mem[order[k]]
        BY DEF Heads
    <2>2. QED
        BY <1>1, <1>7, <2>1 DEF Linked
<1>8. QED
    BY <1>3, <1>4, <1>5, <1>6, <1>7

\* A step that leaves the heap as it is, but for where its code is and what
\* is in the payload of a run.
LEMMA Undisturbed ==
    ASSUME HeapInv, \A h \in Heads : mem'[h] = mem[h],
           mem' \in [Frames -> [w0 : Frames \cup {KMALLOC_MAGIC}, w1 : Words]],
           UNCHANGED <<g_free_list, g_free_frames, g_used_frames, runVars, callVars,
                       pool>>,
           hpc' = "walk" => hpc = "walk", Booting' => Booting
    PROVE  RunInv'
<1>1. /\ RunsPartition' /\ MagicExact' /\ HeapCounters' /\ BlockHoldsRequest'
      /\ \A n \in Nat : \A order \in [1 .. n -> free] :
             Linked(order, n) => Linked(order, n)'
    BY SameHeads
<1>2. /\ free' = free /\ live' = live /\ asked' = asked /\ returned' = returned
      /\ need' = need /\ size' = size /\ link' = link
    BY DEF runVars, callVars
<1>3. RunTypes' /\ EmptyInv' /\ CallInv'
    BY <1>2 DEF HeapInv, RunInv, RunTypes, EmptyInv, CallInv
<1>4. ChainInv'
    <2>1. PICK n \in Nat : \E order \in [1 .. n -> free] : Chain(order, n)
        BY DEF HeapInv, RunInv, ChainInv
    <2>2. PICK order \in [1 .. n -> free] : Chain(order, n)
        BY <2>1
    <2>3. Linked(order, n)'
        BY <1>1, <2>2 DEF Chain
    <2>4. \A k \in 1 .. n : mem'[order[k]].w1 = mem[order[k]].w1
        BY DEF Heads
    <2>5. hpc' = "walk" =>
              \E j \in 0 .. n : /\ link' = IF j = 0 THEN NULL ELSE order[j]
                                /\ \A k \in 1 .. j : mem'[order[k]].w1 < need'
        <3> SUFFICES ASSUME hpc' = "walk"
                     PROVE  \E j \in 0 .. n :
                                /\ link' = IF j = 0 THEN NULL ELSE order[j]
                                /\ \A k \in 1 .. j : mem'[order[k]].w1 < need'
            OBVIOUS
        <3>1. PICK j \in 0 .. n : /\ link = IF j = 0 THEN NULL ELSE order[j]
                                  /\ \A k \in 1 .. j : mem[order[k]].w1 < need
            BY <2>2 DEF Chain
        <3>2. \A k \in 1 .. j : mem'[order[k]].w1 < need'
            BY <1>2, <2>4, <3>1
        <3>3. QED
            BY <1>2, <3>1, <3>2
    <2>6. Chain(order, n)'
        BY <2>2, <2>3, <2>5 DEF Chain
    <2>7. QED
        BY <1>2, <2>6 DEF ChainInv
<1>5. QED
    BY <1>1, <1>3, <1>4 DEF RunInv

\* The same when not even the payload changes.
LEMMA Untouched ==
    ASSUME HeapInv, UNCHANGED <<listVars, runVars, callVars, pool>>,
           hpc' = "walk" => hpc = "walk", Booting' => Booting
    PROVE  RunInv'
<1>1. UNCHANGED <<mem, g_free_list, g_free_frames, g_used_frames>>
    BY DEF listVars
<1>2. mem' \in [Frames -> [w0 : Frames \cup {KMALLOC_MAGIC}, w1 : Words]]
    BY <1>1 DEF HeapInv, RunInv, RunTypes
<1>3. QED
    BY <1>1, <1>2, Undisturbed

\* kmalloc starts at the head of the list.
LEMMA CallKeeps ==
    ASSUME SizesFit, HeapInv, NEW s \in Sizes, kmalloc(s)
    PROVE  RunInv'
<1>1. /\ hpc = "idle" /\ hpc' = "walk" /\ size' = s /\ need' = frames_for(s)
      /\ link' = NULL /\ UNCHANGED <<mem, g_free_list, g_free_frames, g_used_frames>>
      /\ UNCHANGED runVars /\ UNCHANGED pool
    BY DEF kmalloc, listVars, bootVars
<1>2. /\ RunsPartition' /\ MagicExact' /\ HeapCounters' /\ BlockHoldsRequest'
      /\ \A n \in Nat : \A order \in [1 .. n -> free] :
             Linked(order, n) => Linked(order, n)'
    BY <1>1, SameHeads
<1>3. free' = free /\ live' = live /\ asked' = asked /\ returned' = returned
    BY <1>1 DEF runVars
<1>4. frames_for(s) \in Words /\ s \in Words
    BY FramesFor, HeapAssumption
<1>5. RunTypes'
    BY <1>1, <1>3, <1>4, WindowWords DEF HeapInv, RunInv, RunTypes, NULL
<1>6. EmptyInv'
    BY <1>1 DEF EmptyInv, Booting
<1>7. CallInv'
    <2>1. frames_for(s) = frames_for(size')
        BY <1>1
    <2>2. QED
        BY <1>1, <2>1 DEF CallInv, frames_for
<1>8. ChainInv'
    <2>1. PICK n \in Nat : \E order \in [1 .. n -> free] : Chain(order, n)
        BY DEF HeapInv, RunInv, ChainInv
    <2>2. PICK order \in [1 .. n -> free] : Chain(order, n)
        BY <2>1
    <2>3. Linked(order, n)'
        BY <1>2, <2>2 DEF Chain
    <2>4. 0 \in 0 .. n /\ \A k \in 1 .. 0 : mem'[order[k]].w1 < need'
        OBVIOUS
    <2>5. Chain(order, n)'
        BY <1>1, <2>2, <2>3, <2>4 DEF Chain
    <2>6. QED
        BY <1>3, <2>5 DEF ChainInv
<1>9. QED
    BY <1>2, <1>5, <1>6, <1>7, <1>8 DEF RunInv

\* The walk goes on to the next node; the ones behind it are too short.
LEMMA NextKeeps ==
    ASSUME SizesFit, HeapInv, WalkNext
    PROVE  RunInv'
<1>1. /\ hpc = "walk" /\ hpc' = hpc /\ Slot(link) \in Frames \ {NULL}
      /\ mem[Slot(link)].w1 < need /\ link' = Slot(link)
      /\ UNCHANGED <<mem, g_free_list, g_free_frames, g_used_frames>>
      /\ UNCHANGED runVars /\ UNCHANGED pool /\ need' = need /\ size' = size
    BY DEF WalkNext, NextLink, listVars, bootVars
<1>2. /\ RunsPartition' /\ MagicExact' /\ HeapCounters' /\ BlockHoldsRequest'
      /\ \A n \in Nat : \A order \in [1 .. n -> free] :
             Linked(order, n) => Linked(order, n)'
    BY <1>1, SameHeads
<1>3. free' = free /\ live' = live /\ asked' = asked /\ returned' = returned
    BY <1>1 DEF runVars
<1>4. RunTypes' /\ EmptyInv' /\ CallInv'
    BY <1>1, <1>3 DEF HeapInv, RunInv, RunTypes, EmptyInv, CallInv, Booting
<1>5. ChainInv'
    <2>1. PICK n \in Nat : \E order \in [1 .. n -> free] : Chain(order, n)
        BY DEF HeapInv, RunInv, ChainInv
    <2>2. PICK order \in [1 .. n -> free] : Chain(order, n)
        BY <2>1
    <2>3. Linked(order, n)'
        BY <1>2, <2>2 DEF Chain
    <2>4. PICK j \in 0 .. n - 1 : /\ Slot(link) = order[j + 1]
                                  /\ \A k \in 1 .. j : mem[order[k]].w1 < need
        BY <1>1, <2>2, Found
    <2>5. j + 1 \in 0 .. n /\ j + 1 # 0 /\ link' = order[j + 1]
        BY <1>1, <2>4
    <2>6. \A k \in 1 .. j + 1 : mem'[order[k]].w1 < need'
        BY <1>1, <2>4
    <2>7. Chain(order, n)'
        BY <2>2, <2>3, <2>5, <2>6 DEF Chain
    <2>8. QED
        BY <1>3, <2>7 DEF ChainInv
<1>6. QED
    BY <1>2, <1>4, <1>5 DEF RunInv

\* kmalloc_init puts its frames on the list as one run.
LEMMA SeedKeeps ==
    ASSUME HeapInv, SeedPool, PoolInv'
    PROVE  RunInv'
<1>1. Booting /\ hpc' = "idle"
    BY DEF SeedPool, Booting
<1>2. CASE addr = 0
    <2>1. UNCHANGED <<listVars, runVars, callVars, pool>>
        BY <1>2, WindowWords DEF SeedPool, listVars, runVars
    <2>2. QED
        BY <1>1, <2>1, Untouched DEF Booting
<1>3. CASE addr # 0
    <2>1. /\ mem' = [mem EXCEPT ![addr] = [w0 |-> NULL, w1 |-> hi]]
          /\ g_free_list' = addr /\ g_free_frames' = hi
          /\ pool' = addr .. addr + hi - 1 /\ free' = {addr} /\ live' = live
          /\ asked' = asked /\ returned' = returned /\ g_used_frames' = g_used_frames
          /\ need' = need /\ size' = size /\ link' = link
        BY <1>3 DEF SeedPool, callVars
    <2>2. free = {} /\ live = {} /\ returned = {} /\ g_used_frames = 0
        BY <1>1 DEF HeapInv, RunInv, EmptyInv
    <2>3. /\ addr \in Frames /\ addr \in Nat /\ hi \in Nat /\ hi > 0
        BY <1>3, WindowWords, HeapAssumption DEF HeapInv, PoolInv
    <2>4. pool' \subseteq Frames
        BY PoolInv', PoolFacts DEF PoolInv, IndInv, TypeOK
    <2>5. hi \in Words
        <3>1. addr + hi - 1 \in Frames
            BY <2>1, <2>3, <2>4
        <3>2. QED
            BY <2>3, <3>1, WindowWords DEF Frames, Words
    <2>6. /\ mem' \in [Frames -> [w0 : Frames \cup {KMALLOC_MAGIC}, w1 : Words]]
          /\ mem'[addr] = [w0 |-> NULL, w1 |-> hi]
        BY <2>1, <2>3, <2>5, WindowWords DEF HeapInv, RunInv, RunTypes, NULL
    <2>a. PICK a \in Frames : a = addr
        BY <2>3
    <2>7. Heads' = {a} /\ free' = {a} /\ Run(a)' = pool'
        BY <2>1, <2>2, <2>6, <2>a DEF Heads, Run
    <2>8. RunTypes'
        BY <2>1, <2>3, <2>5, <2>6 DEF HeapInv, RunInv, RunTypes
    <2>9. RunsPartition'
        BY <2>1, <2>2, <2>3, <2>6, <2>7, <2>a DEF RunsPartition
    <2>10. MagicExact'
        BY <2>1, <2>2, <2>6, <2>7, <2>a, WindowWords, HeapAssumption DEF MagicExact, NULL
    <2>11. ChainInv'
        <3>1. PICK m \in Nat : m = 1
            OBVIOUS
        <3>3. PICK o : o = [k \in 1 .. m |-> a]
            OBVIOUS
        <3>4. o \in [1 .. m -> free'] /\ o[1] = a
            BY <2>7, <3>1, <3>3
        <3>5. \A k \in 1 .. m : k = m /\ o[k] = a
            BY <3>1, <3>3
        <3>6. \A h \in free' : \E k \in 1 .. m : o[k] = h
            BY <2>7, <3>1, <3>4
        <3>7. /\ g_free_list' = IF m = 0 THEN NULL ELSE o[1]
              /\ \A k \in 1 .. m : mem'[o[k]].w0 = IF k = m THEN NULL ELSE o[k + 1]
            BY <2>1, <2>6, <2>a, <3>1, <3>4, <3>5
        <3>8. \A j, k \in 1 .. m : o[j] = o[k] => j = k
            BY <3>1
        <3>9. QED
            BY <1>1, <3>4, <3>6, <3>7, <3>8, ChainAgain
    <2>12. HeapCounters'
        <3>1. UNION {Run(h)' : h \in free'} = pool'
            BY <2>7
        <3>2. UNION {Run(h)' : h \in live'} = {}
            BY <2>1, <2>2
        <3>3. Cardinality(pool') = hi
            <4>1. addr + hi - 1 \in Int
                BY <2>3
            <4>2. QED
                BY <2>1, <2>3, <4>1, IntervalSize
        <3>4. Cardinality({}) = 0
            BY FS_EmptySet
        <3>5. QED
            BY <2>1, <2>2, <3>1, <3>2, <3>3, <3>4 DEF HeapCounters
    <2>13. BlockHoldsRequest' /\ EmptyInv' /\ CallInv'
        BY <1>1, <2>1, <2>2 DEF BlockHoldsRequest, EmptyInv, CallInv, Booting
    <2>14. QED
        BY <2>8, <2>9, <2>10, <2>11, <2>12, <2>13 DEF RunInv
<1>4. QED
    BY <1>2, <1>3

\* kfree acts on an allocated run or not at all.
LEMMA FreesLive ==
    ASSUME HeapInv, NEW p \in Frames, MayKfree(p), p # NULL, HeaderValid(p)
    PROVE  p \in live
BY DEF HeapInv, RunInv, MagicExact, MayKfree, HeaderValid, Heads

\* kfree keeps the invariant: the run moves to the head of the list.
LEMMA FreeKeeps ==
    ASSUME HeapInv, hpc = "idle", UNCHANGED <<hpc, bootVars, callVars>>,
           NEW p \in Frames, MayKfree(p), kfree(p)
    PROVE  RunInv'
<1>1. CASE p = NULL \/ ~ HeaderValid(p)
    <2>1. UNCHANGED <<listVars, runVars, callVars, pool>>
        BY <1>1 DEF kfree, bootVars
    <2>2. QED
        BY <2>1, Untouched DEF Booting
<1>2. CASE p # NULL /\ HeaderValid(p)
    <2>1. /\ mem' = [mem EXCEPT ![p].w0 = g_free_list]
          /\ g_free_list' = p
          /\ g_free_frames' = (g_free_frames + mem[p].w1) % U64
          /\ g_used_frames' = (g_used_frames - mem[p].w1) % U64
          /\ free' = free \cup {p} /\ live' = live \ {p}
          /\ asked' = [asked EXCEPT ![p] = 0] /\ returned' = returned
          /\ pool' = pool /\ need' = need /\ size' = size /\ link' = link
        BY <1>2 DEF kfree, bootVars, callVars
    <2>2. p \in live /\ p \in Heads /\ p \notin free
        BY <1>2, FreesLive DEF Heads, HeapInv, RunInv, RunsPartition
    <2>3. /\ mem \in [Frames -> [w0 : Frames \cup {KMALLOC_MAGIC}, w1 : Words]]
          /\ g_free_list \in Frames /\ free \in SUBSET Frames /\ live \in SUBSET Frames
        BY DEF HeapInv, RunInv, RunTypes
    <2>4. /\ mem'[p] = [w0 |-> g_free_list, w1 |-> mem[p].w1]
          /\ \A f \in Frames : f # p => mem'[f] = mem[f]
          /\ mem' \in [Frames -> [w0 : Frames \cup {KMALLOC_MAGIC}, w1 : Words]]
        BY <2>1, <2>3, RecordFacts DEF HeapInv, RunInv
    <2>5. Heads' = Heads /\ Heads \subseteq Frames
        BY <2>1, <2>2, <2>3 DEF Heads
    <2>6. \A h \in Heads : mem'[h].w1 = mem[h].w1 /\ Run(h)' = Run(h)
        BY <2>4, <2>5 DEF Run
    <2>7. RunsPartition'
        <3>1. free' \cap live' = {}
            BY <2>1 DEF HeapInv, RunInv, RunsPartition
        <3>2. QED
            BY <2>1, <2>5, <2>6, <3>1 DEF HeapInv, RunInv, RunsPartition
    <2>8. MagicExact'
        <3>1. ASSUME NEW h \in Heads' PROVE mem'[h].w0 = KMALLOC_MAGIC <=> h \in live'
            <4>1. CASE h = p
                BY <2>1, <2>3, <2>4, <4>1, HeapAssumption
            <4>2. CASE h # p
                BY <2>1, <2>4, <2>5, <4>2 DEF HeapInv, RunInv, MagicExact
            <4>3. QED
                BY <4>1, <4>2
        <3>2. QED
            BY <2>1, <2>5, <3>1 DEF HeapInv, RunInv, MagicExact
    <2>9. ChainInv'
        <3>1. PICK n \in Nat : \E order \in [1 .. n -> free] : Chain(order, n)
            BY DEF HeapInv, RunInv, ChainInv
        <3>2. PICK order \in [1 .. n -> free] : Chain(order, n)
            BY <3>1
        <3>3. PICK m \in Nat : m = n + 1
            OBVIOUS
        <3>4. PICK o \in [1 .. m -> free'] :
                  \A k \in 1 .. m : o[k] = IF k = 1 THEN p ELSE order[k - 1]
            <4> DEFINE o == [k \in 1 .. m |-> IF k = 1 THEN p ELSE order[k - 1]]
            <4>1. ASSUME NEW k \in 1 .. m PROVE o[k] \in free'
                <5>1. k # 1 => k - 1 \in 1 .. n
                    BY <3>3
                <5>2. QED
                    BY <2>1, <5>1
            <4>2. o \in [1 .. m -> free']
                BY <4>1
            <4>3. \A k \in 1 .. m : o[k] = IF k = 1 THEN p ELSE order[k - 1]
                OBVIOUS
            <4> HIDE DEF o
            <4>4. QED
                BY <4>2, <4>3
        <3>5. \A k \in 1 .. n : order[k] # p /\ mem'[order[k]] = mem[order[k]]
            BY <2>2, <2>3, <2>4
        <3>6. \A a, b \in 1 .. m : o[a] = o[b] => a = b
            <4>1. \A a, b \in 1 .. n : order[a] = order[b] => a = b
                BY <3>2 DEF Chain
            <4>2. QED
                BY <3>3, <3>4, <3>5, <4>1
        <3>7. ASSUME NEW h \in free' PROVE \E k \in 1 .. m : o[k] = h
            <4>1. CASE h = p
                BY <3>3, <3>4, <4>1
            <4>2. CASE h \in free
                <5>1. PICK k \in 1 .. n : order[k] = h
                    BY <3>2, <4>2, Surjective
                <5>2. k + 1 \in 1 .. m /\ k + 1 # 1 /\ (k + 1) - 1 = k
                    BY <3>3
                <5>3. o[k + 1] = h
                    BY <3>4, <5>1, <5>2
                <5>4. QED
                    BY <5>2, <5>3
            <4>3. QED
                BY <2>1, <4>1, <4>2
        <3>8. g_free_list' = IF m = 0 THEN NULL ELSE o[1]
            BY <2>1, <3>3, <3>4
        <3>9. ASSUME NEW k \in 1 .. m
              PROVE  mem'[o[k]].w0 = IF k = m THEN NULL ELSE o[k + 1]
            <4>1. g_free_list = IF n = 0 THEN NULL ELSE order[1]
                BY <3>2 DEF Chain, Linked
            <4>2. \A l \in 1 .. n : mem[order[l]].w0 = IF l = n THEN NULL
                                                      ELSE order[l + 1]
                BY <3>2 DEF Chain, Linked
            <4>3. k # m => o[k + 1] = order[k]
                BY <3>3, <3>4
            <4>4. CASE k = 1
                <5>1. mem'[o[k]].w0 = g_free_list
                    BY <2>4, <3>4, <4>4
                <5>2. QED
                    BY <3>3, <4>1, <4>3, <4>4, <5>1
            <4>5. CASE k # 1
                <5>1. k - 1 \in 1 .. n /\ o[k] = order[k - 1] /\ (k - 1) + 1 = k
                      /\ (k = m <=> k - 1 = n)
                    BY <3>3, <3>4, <4>5
                <5>2. mem'[o[k]].w0 = mem[order[k - 1]].w0
                    BY <3>5, <5>1
                <5>3. QED
                    BY <4>2, <4>3, <5>1, <5>2
            <4>6. QED
                BY <4>4, <4>5
        <3>10. QED
            BY <3>4, <3>6, <3>7, <3>8, <3>9, ChainAgain
    <2>10. HeapCounters' /\ g_free_frames' \in Words /\ g_used_frames' \in Words
        <3>1. Cardinality(Run(p)) = mem[p].w1
            <4>1. p \in Nat /\ mem[p].w1 \in Nat /\ mem[p].w1 > 0
                BY <2>2, HeadFacts DEF HeapInv, RunInv
            <4> DEFINE w == mem[p].w1
            <4>2. Run(p) = p .. p + w - 1 /\ w \in Nat /\ w > 0
                BY <4>1 DEF Run
            <4> HIDE DEF w
            <4>3. p + w - 1 \in Int
                BY <4>1, <4>2
            <4>4. Cardinality(Run(p)) = w
                BY <4>1, <4>2, <4>3, IntervalSize
            <4>5. QED
                BY <4>4 DEF w
        <3>2. /\ FreeSet \in SUBSET Frames /\ LiveSet \in SUBSET Frames
              /\ Run(p) \subseteq LiveSet /\ Run(p) \cap FreeSet = {}
              /\ g_free_frames = Cardinality(FreeSet)
              /\ g_used_frames = Cardinality(LiveSet)
            BY <2>2, SetFacts
        <3>3. UNION {Run(h)' : h \in free'} = FreeSet \cup Run(p)
            <4>1. {Run(h)' : h \in free'} = {Run(h) : h \in free} \cup {Run(p)}
                BY <2>1, <2>2, <2>6 DEF Heads
            <4>2. QED
                BY <4>1 DEF FreeSet
        <3>4. UNION {Run(h)' : h \in live'} = LiveSet \ Run(p)
            <4>1. \A h \in live : h # p => Run(h) \cap Run(p) = {}
                BY <2>2 DEF HeapInv, RunInv, RunsPartition, Heads
            <4>2. \A h \in live : Run(h)' = Run(h)
                BY <2>6 DEF Heads
            <4>3. ASSUME NEW f, f \in UNION {Run(h)' : h \in live'}
                  PROVE  f \in LiveSet \ Run(p)
                <5>1. PICK h \in live' : f \in Run(h)'
                    BY <4>3
                <5>2. QED
                    BY <2>1, <4>1, <4>2, <5>1 DEF LiveSet
            <4>4. ASSUME NEW f, f \in LiveSet \ Run(p)
                  PROVE  f \in UNION {Run(h)' : h \in live'}
                <5>1. PICK h \in live : f \in Run(h)
                    BY <4>4 DEF LiveSet
                <5>2. h # p
                    BY <4>4, <5>1
                <5>3. QED
                    BY <2>1, <4>2, <5>1, <5>2
            <4>5. QED
                BY <4>3, <4>4
        <3>5. /\ (Cardinality(LiveSet) - Cardinality(Run(p))) % U64
                     = Cardinality(LiveSet \ Run(p))
              /\ (Cardinality(FreeSet) + Cardinality(Run(p))) % U64
                     = Cardinality(FreeSet \cup Run(p))
              /\ Cardinality(LiveSet \ Run(p)) \in Words
              /\ Cardinality(FreeSet \cup Run(p)) \in Words
            BY <3>2, Moved
        <3>6. /\ g_free_frames' = Cardinality(FreeSet \cup Run(p))
              /\ g_used_frames' = Cardinality(LiveSet \ Run(p))
            BY <2>1, <3>1, <3>2, <3>5
        <3>7. QED
            BY <3>3, <3>4, <3>5, <3>6 DEF HeapCounters
    <2>11. RunTypes'
        BY <2>1, <2>3, <2>4, <2>10, WindowWords DEF HeapInv, RunInv, RunTypes
    <2>12. BlockHoldsRequest'
        <3>1. ASSUME NEW h \in live'
              PROVE  mem'[h].w1 * PMM_FRAME_SIZE >= HEADER + asked'[h]
            <4>1. h \in live /\ h # p /\ h \in Frames
                BY <2>1, <2>3
            <4>2. mem'[h] = mem[h] /\ asked'[h] = asked[h]
                BY <2>1, <2>4, <4>1 DEF HeapInv, RunInv, RunTypes
            <4>3. mem[h].w1 * PMM_FRAME_SIZE >= HEADER + asked[h]
                BY <4>1 DEF HeapInv, RunInv, BlockHoldsRequest
            <4>4. QED
                BY <4>2, <4>3
        <3>2. QED
            BY <3>1 DEF BlockHoldsRequest
    <2>13. EmptyInv' /\ CallInv'
        BY DEF EmptyInv, CallInv, Booting
    <2>14. QED
        BY <2>7, <2>8, <2>9, <2>10, <2>11, <2>12, <2>13 DEF RunInv
<1>3. QED
    BY <1>1, <1>2

\* A write into the payload of an allocated run hits no head of a run.
LEMMA WriteKeeps ==
    ASSUME HeapInv, ClientWrite
    PROVE  RunInv' /\ \A h \in Heads : mem'[h] = mem[h]
<1>1. PICK h \in live : \E f \in Run(h) \ {h} :
          mem' = [mem EXCEPT ![f] = [w0 |-> KMALLOC_MAGIC, w1 |-> 1]]
    BY DEF ClientWrite
<1>2. PICK f \in Run(h) \ {h} :
          mem' = [mem EXCEPT ![f] = [w0 |-> KMALLOC_MAGIC, w1 |-> 1]]
    BY <1>1
<1>3. f \in Frames /\ f \notin Heads
    BY HeadFacts DEF HeapInv, RunInv, Heads
<1>4. mem \in [Frames -> [w0 : Frames \cup {KMALLOC_MAGIC}, w1 : Words]]
      /\ Heads \subseteq Frames
    BY DEF HeapInv, RunInv, RunTypes, Heads
<1>5. \A g \in Heads : mem'[g] = mem[g]
    BY <1>2, <1>3, <1>4
<1>6. 1 \in Words
    BY WindowWords DEF Words
<1>7. mem' \in [Frames -> [w0 : Frames \cup {KMALLOC_MAGIC}, w1 : Words]]
    BY <1>2, <1>3, <1>4, <1>6
<1>8. /\ UNCHANGED <<g_free_list, g_free_frames, g_used_frames, runVars, callVars, pool>>
      /\ hpc' = hpc
    BY DEF ClientWrite, bootVars
<1>9. RunInv'
    BY <1>5, <1>7, <1>8, Undisturbed DEF Booting
<1>10. QED
    BY <1>5, <1>9

-----------------------------------------------------------------------------
(* The invariant                                                           *)

\* Initially there is no run.
LEMMA RunInvInit == HeapInit => RunInv
<1> SUFFICES ASSUME HeapInit PROVE RunInv
    OBVIOUS
<1>1. RunTypes
    <2>1. 0 \in Words /\ 0 \in Frames
        BY WindowWords
    <2>2. QED
        BY <2>1 DEF HeapInit, RunTypes, NULL
<1>2. EmptyInv /\ CallInv
    BY DEF HeapInit, EmptyInv, CallInv
<1>3. free = {} /\ live = {} /\ returned = {} /\ pool = {}
    BY DEF HeapInit
<1>4. RunsPartition /\ MagicExact /\ BlockHoldsRequest
    BY <1>3 DEF RunsPartition, MagicExact, BlockHoldsRequest, Heads
<1>5. HeapCounters
    <2>1. UNION {Run(h) : h \in free} = {} /\ UNION {Run(h) : h \in live} = {}
        BY <1>3
    <2>2. Cardinality({}) = 0
        BY FS_EmptySet
    <2>3. QED
        BY <2>1, <2>2 DEF HeapInit, HeapCounters
<1>6. ChainInv
    <2>1. PICK o : o = [k \in 1 .. 0 |-> 0]
        OBVIOUS
    <2>2. o \in [1 .. 0 -> free]
        BY <2>1
    <2>3. Linked(o, 0)
        BY <1>3 DEF HeapInit, Linked
    <2>4. Chain(o, 0)
        BY <2>3 DEF HeapInit, Chain
    <2>5. QED
        BY <2>2, <2>4 DEF ChainInv
<1>7. QED
    BY <1>1, <1>2, <1>4, <1>5, <1>6 DEF RunInv

\* Every step keeps it.
LEMMA HeapInvStep ==
    ASSUME SizesFit, HeapInv, [HeapNext]_vars
    PROVE  HeapInv'
<1>1. PoolInv'
    BY PoolInvStep DEF HeapInv
<1> SUFFICES RunInv'
    BY <1>1 DEF HeapInv
<1>2. CASE BootPMM \/ ClientAlloc \/ ClientFree \/ UNCHANGED vars
    <2>1. UNCHANGED heapVars
        BY <1>2 DEF BootPMM, ClientAlloc, ClientFree, vars
    <2>2. UNCHANGED <<listVars, runVars, callVars, pool>> /\ hpc' = hpc
        BY <2>1 DEF heapVars, bootVars
    <2>3. QED
        BY <2>2, Untouched DEF Booting
<1>3. CASE StartInit
    <2>1. Booting /\ hpc' = "init"
        BY <1>3 DEF StartInit, Booting
    <2>2. UNCHANGED <<listVars, runVars, callVars, pool>>
        BY <1>3, <2>1 DEF StartInit, listVars, HeapInv, RunInv, EmptyInv
    <2>3. QED
        BY <2>1, <2>2, Untouched
<1>4. ASSUME NEW next \in Frames, PullFrame(next) PROVE RunInv'
    <2>1. UNCHANGED <<listVars, runVars, callVars, pool>> /\ Booting /\ hpc' # "walk"
        BY <1>4 DEF PullFrame, Booting
    <2>2. QED
        BY <2>1, Untouched
<1>5. CASE SeedPool
    BY <1>1, <1>5, SeedKeeps
<1>6. ASSUME NEW s \in Sizes, kmalloc(s) PROVE RunInv'
    BY <1>6, CallKeeps
<1>7. CASE Walk
    <2>1. CASE WalkNext
        BY <2>1, NextKeeps
    <2>2. CASE WalkTake
        BY <1>1, <2>2, TakeKeeps
    <2>3. CASE WalkEnd
        <3>1. UNCHANGED <<listVars, runVars, callVars, pool>> /\ hpc' \in {"idle", "fault"}
            BY <2>3 DEF WalkEnd, bootVars
        <3>2. QED
            BY <3>1, Untouched DEF Booting
    <2>4. QED
        BY <1>7, <2>1, <2>2, <2>3 DEF Walk
<1>8. CASE Kfree
    <2>1. PICK p \in Frames : MayKfree(p) /\ kfree(p)
        BY <1>8 DEF Kfree
    <2>2. QED
        BY <1>8, <2>1, FreeKeeps DEF Kfree
<1>9. CASE KfreeOutside
    <2>1. UNCHANGED <<listVars, runVars, callVars, pool>> /\ hpc' = "fault"
        BY <1>9 DEF KfreeOutside, bootVars
    <2>2. QED
        BY <2>1, Untouched DEF Booting
<1>10. CASE ClientWrite
    BY <1>10, WriteKeeps
<1>11. QED
    BY <1>2, <1>3, <1>4, <1>5, <1>6, <1>7, <1>8, <1>9, <1>10 DEF HeapNext

\* So it always holds.
LEMMA HeapInvAlways == SizesFit => (HeapSpec => []HeapInv)
<1> SUFFICES ASSUME SizesFit PROVE HeapSpec => []HeapInv
    OBVIOUS
<1>1. HeapInit => HeapInv
    BY PoolInvInit, RunInvInit DEF HeapInv
<1>2. HeapInv /\ [HeapNext]_vars => HeapInv'
    BY HeapInvStep
<1>3. QED
    BY <1>1, <1>2, PTL DEF HeapSpec

-----------------------------------------------------------------------------
(* Theorems                                                                *)

\* The types of kmalloc.c: no word of the heap ever holds anything but the
\* magic, a frame or a length, and the counters stay within 64 bits.
THEOREM HeapTypes == SizesFit => (HeapSpec => []HeapTypeOK)
<1> SUFFICES ASSUME SizesFit PROVE HeapSpec => []HeapTypeOK
    OBVIOUS
<1>1. HeapInv => HeapTypeOK
    <2> SUFFICES ASSUME HeapInv PROVE HeapTypeOK
        OBVIOUS
    <2>1. taken \in SUBSET Frames /\ pool \in SUBSET Frames
        BY PoolFacts DEF HeapInv, PoolInv, IndInv, TypeOK
    <2>2. QED
        BY <2>1 DEF HeapInv, PoolInv, RunInv, RunTypes, HeapTypeOK
<1>2. QED
    BY <1>1, HeapInvAlways, PTL

\* No frame of the pool is ever in two runs or in none, however kmalloc
\* splits and kfree frees them (kmalloc.c:111-182).
THEOREM HeapPartition == SizesFit => (HeapSpec => []RunsPartition)
<1> SUFFICES ASSUME SizesFit PROVE HeapSpec => []RunsPartition
    OBVIOUS
<1>1. HeapInv => RunsPartition
    BY DEF HeapInv, RunInv
<1>2. QED
    BY <1>1, HeapInvAlways, PTL

\* The magic marks exactly the allocated runs, and no pointer that kmalloc
\* ever returned points into a payload: kfree catches every stale and every
\* double free of a block that was not handed out again (kmalloc.c:37-38).
THEOREM HeapMagic == SizesFit => (HeapSpec => []MagicExact)
<1> SUFFICES ASSUME SizesFit PROVE HeapSpec => []MagicExact
    OBVIOUS
<1>1. HeapInv => MagicExact
    BY DEF HeapInv, RunInv
<1>2. QED
    BY <1>1, HeapInvAlways, PTL

\* The free list holds every free run once and ends: a walk cannot go round
\* in circles, lose a run or meet an allocated one (kmalloc.c:117-152).
THEOREM HeapFreeList == SizesFit => (HeapSpec => []FreeListExact)
<1> SUFFICES ASSUME SizesFit PROVE HeapSpec => []FreeListExact
    OBVIOUS
<1>1. HeapInv => FreeListExact
    <2> SUFFICES ASSUME HeapInv PROVE FreeListExact
        OBVIOUS
    <2>1. PICK n \in Nat : \E order \in [1 .. n -> free] : Chain(order, n)
        BY DEF HeapInv, RunInv, ChainInv
    <2>2. PICK order \in [1 .. n -> free] : Chain(order, n)
        BY <2>1
    <2>3. order \in Bijection(1 .. n, free)
        BY <2>2, Surjective DEF Chain, Bijection, Injection, Surjection, IsInjective
    <2>4. IsFiniteSet(1 .. n) /\ Cardinality(1 .. n) = n
        BY FS_Interval
    <2>5. Cardinality(free) = n
        BY <2>3, <2>4, FS_Bijection DEF ExistsBijection
    <2>6. Linked(order, n)
        BY <2>2 DEF Chain
    <2>7. QED
        BY <2>5, <2>6 DEF FreeListExact
<1>2. QED
    BY <1>1, HeapInvAlways, PTL

\* The counters that the boot self-test prints are exact, and never wrap.
THEOREM HeapCounted == SizesFit => (HeapSpec => []HeapCounters)
<1> SUFFICES ASSUME SizesFit PROVE HeapSpec => []HeapCounters
    OBVIOUS
<1>1. HeapInv => HeapCounters
    BY DEF HeapInv, RunInv
<1>2. QED
    BY <1>1, HeapInvAlways, PTL

\* Every block has room for its header and all the bytes asked for, for
\* every size that does not wrap (kmalloc.c:62-73).
THEOREM HeapBlocksFit == SizesFit => (HeapSpec => []BlockHoldsRequest)
<1> SUFFICES ASSUME SizesFit PROVE HeapSpec => []BlockHoldsRequest
    OBVIOUS
<1>1. HeapInv => BlockHoldsRequest
    BY DEF HeapInv, RunInv
<1>2. QED
    BY <1>1, HeapInvAlways, PTL

\* Nothing that others do changes the header of an allocated block.
THEOREM HeapBlocksStable == SizesFit => (HeapSpec => BlocksStable)
<1> SUFFICES ASSUME SizesFit PROVE HeapSpec => BlocksStable
    OBVIOUS
<1>1. HeapInv /\ [HeapNext]_vars =>
          [\A h \in live \cap live' : mem'[h] = mem[h]]_vars
    <2> SUFFICES ASSUME HeapInv, HeapNext, NEW h \in live \cap live'
                 PROVE  mem'[h] = mem[h]
        OBVIOUS
    <2>1. CASE \/ BootPMM \/ ClientAlloc \/ ClientFree \/ StartInit \/ WalkNext
               \/ WalkEnd \/ KfreeOutside
               \/ (\E next \in Frames : PullFrame(next)) \/ (\E s \in Sizes : kmalloc(s))
        BY <2>1 DEF BootPMM, ClientAlloc, ClientFree, StartInit, WalkNext, WalkEnd,
                    KfreeOutside, PullFrame, kmalloc, heapVars, listVars
    <2>2. CASE SeedPool
        <3>1. Booting
            BY <2>2 DEF SeedPool, Booting
        <3>2. QED
            BY <3>1 DEF HeapInv, RunInv, EmptyInv
    <2>3. CASE WalkTake
        <3>1. Taken(Slot(link), Slot(link) + need)
            BY <2>3, TakeWrites
        <3>2. PICK run \in free : \E t : Taken(run, t)
            BY <3>1 DEF Taken
        <3>3. PICK t : Taken(run, t)
            BY <3>2
        <3>4. QED
            BY <3>3, OtherRuns
    <2>4. CASE Kfree
        <3>1. PICK p \in Frames : MayKfree(p) /\ kfree(p)
            BY <2>4 DEF Kfree
        <3>2. CASE p = NULL \/ ~ HeaderValid(p)
            BY <3>1, <3>2 DEF kfree, listVars
        <3>3. CASE p # NULL /\ HeaderValid(p)
            <4>1. mem' = [mem EXCEPT ![p].w0 = g_free_list] /\ live' = live \ {p}
                BY <3>1, <3>3 DEF kfree
            <4>2. h # p
                BY <4>1
            <4>3. QED
                BY <4>1, <4>2 DEF HeapInv, RunInv, RunTypes
        <3>4. QED
            BY <3>2, <3>3
    <2>5. CASE ClientWrite
        BY <2>5, WriteKeeps DEF Heads
    <2>6. QED
        BY <2>1, <2>2, <2>3, <2>4, <2>5 DEF HeapNext, Walk
<1>2. QED
    BY <1>1, HeapInvAlways, PTL DEF HeapSpec, BlocksStable

-----------------------------------------------------------------------------
(* The heap implements BlockAllocator                                      *)

\* The abstract state: the runs as sets, and the request under way.
Avail  == {Run(h) : h \in free}
Blocks == {Run(h) : h \in live}
Pend   == IF hpc = "walk" THEN need ELSE 0

\* A step that changes no run changes neither set.
LEMMA SameSets ==
    ASSUME HeapInv, \A h \in Heads : mem'[h] = mem[h], UNCHANGED runVars
    PROVE  Avail' = Avail /\ Blocks' = Blocks
<1>1. free' = free /\ live' = live
    BY DEF runVars
<1>2. \A h \in Heads : Run(h)' = Run(h)
    BY DEF Run
<1>3. QED
    BY <1>1, <1>2 DEF Avail, Blocks, Heads

\* Both modules count the elements of a set in the same way.
LEMMA SameCardinality ==
    ASSUME NEW S
    PROVE  Abstract!Cardinality(S) = Cardinality(S)
BY Zenon DEF Abstract!Cardinality, Cardinality

\* A run has as many frames as its length word says.
LEMMA RunLength ==
    ASSUME HeapInv, NEW h \in Heads
    PROVE  Cardinality(Run(h)) = mem[h].w1
<1>1. h \in Nat /\ mem[h].w1 \in Nat /\ mem[h].w1 > 0
    BY HeadFacts DEF HeapInv, RunInv
<1>2. PICK w \in Nat : w = mem[h].w1 /\ w > 0
    BY <1>1
<1>3. PICK l \in Int : l = h + w - 1 /\ h <= l
    BY <1>1, <1>2
<1>4. Cardinality(h .. l) = w
    BY <1>1, <1>2, <1>3, IntervalSize
<1>5. QED
    BY <1>1, <1>2, <1>3, <1>4 DEF Run

\* A walk that takes a run grants its first frames.
LEMMA TakeGrants ==
    ASSUME SizesFit, HeapInv, HeapInv', WalkTake
    PROVE  \E r \in Avail : \E b \in SUBSET r : Abstract!Grant(r, b) /\ Pend # 0
<1>1. PICK run \in Frames : run = Slot(link)
    BY DEF WalkTake
<1>2. PICK t : t = run + need
    OBVIOUS
<1>3. Taken(run, t)
    BY <1>1, <1>2, TakeWrites
<1>4. hpc = "walk" /\ hpc' = "idle"
    BY DEF WalkTake
<1>5. PICK w : w = mem[run].w1
    OBVIOUS
<1>6. /\ run \in Nat /\ need \in Nat /\ need > 0 /\ w \in Nat /\ w >= need
      /\ t = run + need /\ run \in free /\ run \in Heads
    BY <1>2, <1>3, <1>5, HeadFacts DEF HeapInv, RunInv, Taken, Heads
<1>7. PICK r : r = run .. run + w - 1
    OBVIOUS
<1>8. PICK b : b = run .. t - 1
    OBVIOUS
<1>9. r = Run(run) /\ r \in Avail /\ b \in SUBSET r
    BY <1>5, <1>6, <1>7, <1>8 DEF Run, Avail
<1>10. Cardinality(b) = need
    <2>1. t - 1 \in Int /\ t - 1 = run + need - 1
        BY <1>6
    <2>2. QED
        BY <1>6, <1>8, <2>1, IntervalSize
<1>11. \A x \in b, y \in r \ b : x < y
    BY <1>6, <1>7, <1>8
<1>12. /\ Run(run)' = b
       /\ w > need => Run(t)' = r \ b
       /\ \A h \in Heads : h # run => Run(h)' = Run(h)
    <2>1. /\ Run(run)' = run .. t - 1
          /\ mem[run].w1 > need => Run(t)' = t .. run + mem[run].w1 - 1
          /\ \A h \in Heads : h # run => Run(h)' = Run(h)
        BY <1>3, OtherRuns
    <2>2. t .. run + w - 1 = r \ b
        BY <1>6, <1>7, <1>8
    <2>3. QED
        BY <1>5, <1>8, <2>1, <2>2
<1>13. Blocks' = Blocks \cup {b}
    <2>1. live' = live \cup {run} /\ run \notin live
        BY <1>3 DEF Taken
    <2>2. \A h \in live : Run(h)' = Run(h)
        BY <1>12, <2>1 DEF Heads
    <2>3. QED
        BY <1>12, <2>1, <2>2 DEF Blocks
<1>14. Avail' = (Avail \ {r}) \cup ({r \ b} \ {{}})
    <2> DEFINE rest == {Run(h) : h \in free \ {run}}
    <2>1. Avail \ {r} = rest
        <3>1. \A h \in free \ {run} : Run(h) # r
            <4>1. ASSUME NEW h \in free \ {run} PROVE Run(h) # Run(run)
                <5>1. h \in Heads /\ h # run
                    BY DEF Heads
                <5>2. Run(h) \cap Run(run) = {} /\ run \in Run(run)
                    BY <1>6, <5>1, HeadFacts DEF HeapInv, RunInv, RunsPartition
                <5>3. QED
                    BY <5>2
            <4>2. QED
                BY <1>9, <4>1
        <3>2. QED
            BY <1>6, <1>9, <3>1 DEF Avail
    <2>2. \A h \in free \ {run} : Run(h)' = Run(h)
        BY <1>12 DEF Heads
    <2>3. CASE w > need
        <3>1. free' = (free \ {run}) \cup {t}
            BY <1>3, <1>5, <2>3 DEF Taken
        <3>2. r \ b # {}
            <4>1. t \in r /\ t \notin b
                BY <1>6, <1>7, <1>8, <2>3
            <4>2. QED
                BY <4>1
        <3>3. {r \ b} \ {{}} = {r \ b}
            BY <3>2
        <3>4. Avail' = {Run(h)' : h \in free \ {run}} \cup {Run(t)'}
            BY <3>1 DEF Avail
        <3>5. {Run(h)' : h \in free \ {run}} = rest
            BY <2>2
        <3>6. Run(t)' = r \ b
            BY <1>12, <2>3
        <3> HIDE DEF rest
        <3>7. QED
            BY <2>1, <3>3, <3>4, <3>5, <3>6
    <2>4. CASE w = need
        <3>1. free' = free \ {run}
            BY <1>3, <1>5, <1>6, <2>4 DEF Taken
        <3>2. r \ b = {}
            BY <1>6, <1>7, <1>8, <2>4
        <3>3. Avail' = {Run(h)' : h \in free \ {run}}
            BY <3>1 DEF Avail
        <3>4. {Run(h)' : h \in free \ {run}} = rest
            BY <2>2
        <3> HIDE DEF rest
        <3>5. QED
            BY <2>1, <3>2, <3>3, <3>4
    <2>5. QED
        BY <1>6, <2>3, <2>4
<1>15. Pend = need /\ Pend' = 0 /\ Pend # 0
    BY <1>4, <1>6 DEF Pend
<1>16. Abstract!Grant(r, b)
    BY <1>10, <1>11, <1>13, <1>14, <1>15, SameCardinality
       DEF Abstract!Grant, Avail, Blocks, Pend
<1>17. QED
    BY <1>9, <1>15, <1>16

\* While every size fits, the walk never meets a word that is no frame.
LEMMA WalkStays ==
    ASSUME HeapInv, hpc = "walk"
    PROVE  Slot(link) \in Frames
<1>1. PICK n \in Nat : \E order \in [1 .. n -> free] : Chain(order, n)
    BY DEF HeapInv, RunInv, ChainInv
<1>2. PICK order \in [1 .. n -> free] : Chain(order, n)
    BY <1>1
<1>3. link = NULL \/ link \in free
    BY <1>2 DEF Chain
<1>4. link \in free => mem[link].w0 \in Frames
    BY DEF HeapInv, RunInv, RunTypes, MagicExact, RunsPartition, Heads
<1>5. g_free_list \in Frames
    BY DEF HeapInv, RunInv, RunTypes
<1>6. QED
    BY <1>3, <1>4, <1>5 DEF Slot

\* A walk that has reached the end has seen every free run, and none fits.
LEMMA EndRefuses ==
    ASSUME HeapInv, WalkEnd
    PROVE  Abstract!Refuse
<1>1. hpc = "walk" /\ hpc' = "idle" /\ Slot(link) = NULL
    BY WalkStays DEF WalkEnd
<1>2. UNCHANGED <<mem, runVars>>
    BY DEF WalkEnd, listVars
<1>3. PICK n \in Nat : \E order \in [1 .. n -> free] : Chain(order, n)
    BY DEF HeapInv, RunInv, ChainInv
<1>4. PICK order \in [1 .. n -> free] : Chain(order, n)
    BY <1>3
<1>5. PICK j \in 0 .. n : /\ link = IF j = 0 THEN NULL ELSE order[j]
                          /\ \A k \in 1 .. j : mem[order[k]].w1 < need
    BY <1>1, <1>4 DEF Chain
<1>6. j = n
    <2>1. \A k \in 1 .. n : order[k] # NULL
        BY HeadFacts DEF HeapInv, RunInv, Heads
    <2>2. CASE j = 0
        <3>1. g_free_list = NULL
            BY <1>1, <1>5, <2>2 DEF Slot
        <3>2. QED
            BY <1>4, <2>1, <2>2, <3>1 DEF Chain, Linked
    <2>3. CASE j > 0
        <3>1. mem[order[j]].w0 = NULL
            BY <1>1, <1>5, <2>1, <2>3 DEF Slot
        <3>2. j # n => mem[order[j]].w0 = order[j + 1]
            BY <1>4, <2>3 DEF Chain, Linked
        <3>3. QED
            BY <2>1, <2>3, <3>1, <3>2
    <2>4. QED
        BY <2>2, <2>3
<1>7. ASSUME NEW r \in Avail PROVE Cardinality(r) < Pend
    <2>1. PICK h \in free : r = Run(h)
        BY DEF Avail
    <2>2. PICK k \in 1 .. n : order[k] = h
        BY <1>4, Surjective
    <2>3. mem[h].w1 < need
        BY <1>5, <1>6, <2>2
    <2>4. Cardinality(r) = mem[h].w1
        BY <2>1, RunLength DEF Heads
    <2>5. QED
        BY <1>1, <2>3, <2>4 DEF Pend
<1>8. Avail' = Avail /\ Blocks' = Blocks
    BY <1>2, SameSets
<1>9. Pend' = 0
    BY <1>1 DEF Pend
<1>10. QED
    BY <1>7, <1>8, <1>9, SameCardinality DEF Abstract!Refuse, Avail, Blocks, Pend

\* Every step of the heap is one of the abstract allocator, or none.
LEMMA HeapStepAbstract ==
    ASSUME SizesFit, HeapInv, HeapInv', [HeapNext]_vars
    PROVE  Abstract!ANext \/ UNCHANGED <<Avail, Blocks, Pend>>
<1>1. ASSUME UNCHANGED <<mem, runVars>> PROVE Avail' = Avail /\ Blocks' = Blocks
    BY <1>1, SameSets
<1>2. CASE \/ BootPMM \/ ClientAlloc \/ ClientFree \/ UNCHANGED vars
           \/ (\E next \in Frames : PullFrame(next))
           \/ StartInit \/ WalkNext \/ KfreeOutside
    <2>1. UNCHANGED <<mem, runVars>>
        BY <1>2 DEF BootPMM, ClientAlloc, ClientFree, vars, heapVars, listVars, PullFrame,
                    StartInit, WalkNext, KfreeOutside
    <2>2. Pend' = Pend
        <3>1. CASE WalkNext
            BY <3>1 DEF WalkNext, Pend
        <3>2. CASE \/ BootPMM \/ ClientAlloc \/ ClientFree \/ UNCHANGED vars
            BY <3>2 DEF BootPMM, ClientAlloc, ClientFree, vars, heapVars, callVars, Pend
        <3>3. CASE \/ (\E next \in Frames : PullFrame(next))
                   \/ StartInit \/ KfreeOutside
            BY <3>3 DEF PullFrame, StartInit, KfreeOutside, Pend
        <3>4. QED
            BY <1>2, <3>1, <3>2, <3>3
    <2>3. QED
        BY <1>1, <2>1, <2>2
<1>3. CASE SeedPool
    <2>1. Booting /\ hpc # "walk" /\ hpc' = "idle"
        BY <1>3 DEF SeedPool, Booting
    <2>2. Avail = {} /\ Blocks = {} /\ Pend = 0 /\ Pend' = 0
        BY <2>1 DEF HeapInv, RunInv, EmptyInv, Avail, Blocks, Pend
    <2>3. live' = live /\ live = {}
        BY <1>3, <2>1 DEF SeedPool, HeapInv, RunInv, EmptyInv
    <2>4. Blocks' = Blocks
        BY <2>3 DEF Blocks
    <2>5. CASE addr = 0
        <3>1. free' = free /\ free = {}
            BY <1>3, <2>1, <2>5 DEF SeedPool, HeapInv, RunInv, EmptyInv
        <3>2. Avail' = Avail
            BY <3>1 DEF Avail
        <3>3. QED
            BY <2>2, <2>4, <3>2
    <2>6. CASE addr # 0
        <3>1. PICK a : a = addr /\ free' = {a}
            BY <1>3, <2>6 DEF SeedPool
        <3>2. PICK r : r = Run(a)'
            OBVIOUS
        <3>3. Avail' = {r}
            BY <3>1, <3>2 DEF Avail
        <3>4. Abstract!Seed(r) /\ r \in Avail'
            BY <2>2, <2>4, <3>3 DEF Abstract!Seed, Avail, Blocks, Pend
        <3>5. QED
            BY <3>4 DEF Abstract!ANext, Avail
    <2>7. QED
        BY <2>5, <2>6
<1>4. ASSUME NEW s \in Sizes, kmalloc(s) PROVE Abstract!ANext
    <2>1. hpc = "idle" /\ hpc' = "walk" /\ need' = frames_for(s)
        BY <1>4 DEF kmalloc
    <2>2. UNCHANGED <<mem, runVars>>
        BY <1>4 DEF kmalloc, listVars
    <2>3. need' # 0
        BY <2>1, FramesFor DEF Words
    <2>4. Pend = 0 /\ Pend' # 0
        BY <2>1, <2>3 DEF Pend
    <2>5. Abstract!Request(Pend')
        BY <1>1, <2>2, <2>4 DEF Abstract!Request, Avail, Blocks, Pend
    <2>6. QED
        BY <2>4, <2>5 DEF Abstract!ANext, Pend
<1>5. CASE WalkTake
    <2>1. PICK r \in Avail : \E b \in SUBSET r : Abstract!Grant(r, b) /\ Pend # 0
        BY <1>5, TakeGrants
    <2>2. Abstract!Answer
        BY <2>1 DEF Abstract!Answer, Avail, Pend
    <2>3. QED
        BY <2>2 DEF Abstract!ANext
<1>6. CASE WalkEnd
    <2>1. hpc = "walk"
        BY <1>6 DEF WalkEnd
    <2>2. need # 0
        BY <2>1, FramesFor DEF HeapInv, RunInv, CallInv, Words
    <2>3. Pend # 0 /\ Abstract!Refuse
        BY <1>6, <2>1, <2>2, EndRefuses DEF Pend
    <2>4. Abstract!Answer
        BY <2>3 DEF Abstract!Answer, Pend
    <2>5. QED
        BY <2>4 DEF Abstract!ANext
<1>7. CASE Kfree
    <2>1. PICK p \in Frames : MayKfree(p) /\ kfree(p)
        BY <1>7 DEF Kfree
    <2>2. hpc = "idle" /\ hpc' = "idle" /\ Pend = 0 /\ Pend' = 0
        BY <1>7 DEF Kfree, Pend
    <2>3. CASE p = NULL \/ ~ HeaderValid(p)
        <3>1. UNCHANGED <<mem, runVars>>
            BY <2>1, <2>3 DEF kfree, listVars
        <3>2. QED
            BY <1>1, <2>2, <3>1
    <2>4. CASE p # NULL /\ HeaderValid(p)
        <3>1. /\ mem' = [mem EXCEPT ![p].w0 = g_free_list]
              /\ free' = free \cup {p} /\ live' = live \ {p}
            BY <2>1, <2>4 DEF kfree
        <3>2. p \in live /\ p \in Heads
            BY <2>1, <2>4, FreesLive DEF Heads
        <3>3. \A h \in Heads : mem'[h].w1 = mem[h].w1
            BY <3>1 DEF HeapInv, RunInv, RunTypes, Heads
        <3>4. \A h \in Heads : Run(h)' = Run(h)
            BY <3>3 DEF Run
        <3>5. PICK b : b = Run(p)
            OBVIOUS
        <3>6. Avail' = Avail \cup {b}
            <4>1. Avail' = {Run(h)' : h \in free} \cup {Run(p)'}
                BY <3>1 DEF Avail
            <4>2. QED
                BY <3>2, <3>4, <3>5, <4>1 DEF Avail, Heads
        <3>7. \A h \in live \ {p} : Run(h) # b
            <4>1. ASSUME NEW h \in live \ {p} PROVE Run(h) # b
                <5>1. h \in Heads /\ h # p
                    BY DEF Heads
                <5>2. Run(h) \cap Run(p) = {} /\ p \in Run(p)
                    BY <3>2, <5>1, HeadFacts DEF HeapInv, RunInv, RunsPartition
                <5>3. QED
                    BY <3>5, <5>2
            <4>2. QED
                BY <4>1
        <3>8. Blocks' = Blocks \ {b}
            <4>1. Blocks' = {Run(h)' : h \in live \ {p}}
                BY <3>1 DEF Blocks
            <4>2. \A h \in live \ {p} : Run(h)' = Run(h)
                BY <3>4 DEF Heads
            <4>3. Blocks' = {Run(h) : h \in live \ {p}}
                BY <4>1, <4>2
            <4>4. QED
                BY <3>2, <3>5, <3>7, <4>3 DEF Blocks
        <3>9. b \in Blocks
            BY <3>2, <3>5 DEF Blocks
        <3>10. Abstract!GiveBack(b)
            BY <2>2, <3>6, <3>8 DEF Abstract!GiveBack, Avail, Blocks, Pend
        <3>11. QED
            BY <3>9, <3>10 DEF Abstract!ANext, Blocks
    <2>5. QED
        BY <2>3, <2>4
<1>8. CASE ClientWrite
    <2>1. UNCHANGED runVars /\ Pend' = Pend
        BY <1>8 DEF ClientWrite, callVars, Pend
    <2>2. QED
        BY <1>8, <2>1, WriteKeeps, SameSets
<1>9. QED
    BY <1>2, <1>3, <1>4, <1>5, <1>6, <1>7, <1>8 DEF HeapNext, Walk

\* Every step of the heap is one that BlockAllocator allows: kmalloc grants
\* the front of a free run that fits, answers NULL only when no free run is
\* long enough, whatever the order of the list, and kfree gives back exactly
\* one block, or nothing when the pointer is stale (kmalloc.c:111-182).  This
\* is ImplementsBlockAllocator without the promise that every request is
\* answered.
THEOREM HeapStepsAbstract ==
    SizesFit => (HeapSpec =>
                     Abstract!AInit /\ [][Abstract!ANext]_(Abstract!abstractVars))
<1> SUFFICES ASSUME SizesFit
             PROVE  HeapSpec =>
                        Abstract!AInit /\ [][Abstract!ANext]_(Abstract!abstractVars)
    OBVIOUS
<1>1. HeapInit => Abstract!AInit
    BY DEF HeapInit, Abstract!AInit
<1>2. HeapInv /\ HeapInv' /\ [HeapNext]_vars =>
          [Abstract!ANext]_(Abstract!abstractVars)
    BY HeapStepAbstract DEF Abstract!abstractVars, Avail, Blocks, Pend
<1>3. QED
    BY <1>1, <1>2, HeapInvAlways, PTL DEF HeapSpec

=============================================================================
