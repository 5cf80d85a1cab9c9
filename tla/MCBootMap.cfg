SPECIFICATION BootSpec
CONSTANTS
    KERNEL_SECTORS = 3
    spt = 2
    heads = 2
    SegSectors = 4
    CylLow = 2
    E820_MAX = 3
    BiosEntries = {e1, e2}
    Fallback = fallback
    DiskFails = FALSE
INVARIANTS
    MapInBuffer
CHECK_DEADLOCK FALSE
