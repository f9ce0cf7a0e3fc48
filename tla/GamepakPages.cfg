SPECIFICATION Spec
CONSTANTS
    RamPages = 3
    RomPages = 5
    RtcValues = {0}
    MaxTime = 9
    RomByte = RomByte
    NULL = NULL
INVARIANTS
    TypeOK
    MappedIsLoaded
    HeldOnce
PROPERTY LoadsApart
CHECK_DEADLOCK FALSE
