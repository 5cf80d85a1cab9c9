SPECIFICATION KernelSpec
CONSTANTS
    KBD_BUF_SIZE = 2
    Unshifted <- MCUnshifted
    Shifted <- MCShifted
    PlainKeys = {30}
    ExtendedKeys = {}
    U64 = 3
    UptimePeriod = 1
    DeviceLines = {12}
    DriverLines = {2, 12}
    Sleeps = {}
    SpuriousLines = {7, 15}
INVARIANTS
    KernelTypeOK
    NoStrayInterrupt
    InService
    NoStaleByte
    Resumed
