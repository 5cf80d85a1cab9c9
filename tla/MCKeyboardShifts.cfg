SPECIFICATION KeyboardSpec
CONSTANTS
    KBD_BUF_SIZE = 2
    Unshifted <- MCUnshifted
    Shifted <- MCShifted
    PlainKeys = {30, 42, 54}
    ExtendedKeys = {42}
INVARIANTS
    FlagsTrackKeys
