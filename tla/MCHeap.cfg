SPECIFICATION HeapSpec
CONSTANTS
    PMM_FRAME_SIZE = 4
    PMM_MAX_FRAMES = 7
    U64 = 64
    E820_MAX = 2
    MCSizes = {4, 7}
    MCHoles = {4}
    MemMaps <- MCMemMaps
    FixedRanges <- MCFixedRanges
    FreesOOM = FALSE
    KMALLOC_INIT_FRAMES = 5
    KMALLOC_MAGIC = 99
    HEADER = 1
    Sizes = {0, 4, 8, 40}
    OutsideFrees = TRUE
    ClientFrames = 1
INVARIANTS
    HeapTypeOK
    RunsPartition
    MagicExact
    FreeListExact
    HeapCounters
    BlockHoldsRequest
    HeapOwnsPool
PROPERTIES
    BlocksStable
    WritesInPool
    ImplementsBlockAllocator
CHECK_DEADLOCK FALSE
