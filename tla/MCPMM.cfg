SPECIFICATION Spec
CONSTANTS
    PMM_FRAME_SIZE = 2
    PMM_MAX_FRAMES = 7
    U64 = 20
    E820_MAX = 3
    MCMapLength = 3
    MCBases = {0, 5, 17}
    MCLengths = {0, 5, 19}
    MemMaps <- MCMemMaps
    FixedRanges <- MCFixedRanges
    FreesOOM = FALSE
INVARIANTS
    TypeOK
    FramesConserved
    CountersExact
    FrameZeroReserved
