SPECIFICATION Spec
CONSTANTS
    PMM_FRAME_SIZE = 2
    PMM_MAX_FRAMES = 7
    U64 = 20
    E820_MAX = 2
    MCMapLength = 2
    MCBases = {0, 5, 17}
    MCLengths = {0, 6, 14}
    MemMaps <- MCMemMaps
    FixedRanges <- MCFixedRanges
    FreesOOM = FALSE
INVARIANTS
    CarvedOut
