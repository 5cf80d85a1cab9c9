SPECIFICATION OutputSpec
CONSTANTS
    VGA_WIDTH = 3
    VGA_HEIGHT = 2
    PIT_HZ = 100
    UptimePeriod = 100
    Uptimes = {0, 99, 9999999}
    MaxTicks = 2
    Keys = {8, 10, 97}
    MaxShown = 2
    Faults = {0, 8, 14, 17, 21}
    Stats <- MCStats
    PROOF_VALUE = 19088743
INVARIANTS
    OutputTypeOK
    ScreenTidy
    TimesExact
    TerminalLine
    FaultReported
PROPERTIES
    ImplementsTape
    PrintingEnds
CHECK_DEADLOCK FALSE
