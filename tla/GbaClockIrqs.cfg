SPECIFICATION FairSpec
CONSTANTS
    ResetReload = 2
    HDraw = 2
    HBlank = 1
    VisLines = 1
    Lines = 2
    Timers = {0}
    Channels = {0}
    Reloads = {2}
    Scales = {1}
    Compares = {7}
    EnableSets <- IrqSets
    DisplayIrqs <- DisplayIrqSets
    IrqChoices = {TRUE}
INVARIANTS NothingRaisedTwice
PROPERTIES InterruptsTaken FramesComplete HaltEnds
