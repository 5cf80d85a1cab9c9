SPECIFICATION HeapSpec
CONSTANTS
    PMM_FRAME_SIZE = 4
    PMM_MAX_FRAMES = 6
    U64 = 64
    E820_MAX = 2
    MCSizes = {6}
    MCHoles = {}
    MemMaps <- MCMemMaps
    FixedRanges <- MCFixedRanges
    FreesOOM = FALSE
    KMALLOC_INIT_FRAMES = 3
    KMALLOC_MAGIC = 99
    HEADER = 2
    Sizes = {0, 61}
    OutsideFrees = FALSE
    ClientFrames = 1
INVARIANTS
    NoEmptyBlock
