SPECIFICATION KeyboardSpec
CONSTANTS
    KBD_BUF_SIZE = 4
    Unshifted <- MCUnshifted
    Shifted <- MCShifted
    PlainKeys = {2, 29, 30, 42, 58}
    ExtendedKeys = {42, 170}
INVARIANTS
    KeyboardTypeOK
    NoNulEcho
    FlagsTrackKeys
PROPERTIES
    ImplementsFifo
