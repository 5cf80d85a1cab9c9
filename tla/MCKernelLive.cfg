SPECIFICATION KernelSpec
CONSTANTS
    KBD_BUF_SIZE = 2
    Unshifted <- MCUnshifted
    Shifted <- MCShifted
    PlainKeys = {30}
    ExtendedKeys = {}
    U64 = 8
    UptimePeriod = 2
    DeviceLines = {}
    DriverLines = {}
    Sleeps = {2}
    SpuriousLines = {7}
INVARIANTS
    SleepExact
PROPERTIES
    KeysEchoed
    BytesRead
    UptimePrinted
    SleepReturns
