SPECIFICATION Spec
CONSTANTS
    RamPages = 2
    RomPages = 3
    RtcValues = {0, 1}
    MaxTime = 4
    RomByte = RomByte
    NULL = NULL
INVARIANT CodeIsTheRoms
CHECK_DEADLOCK FALSE
