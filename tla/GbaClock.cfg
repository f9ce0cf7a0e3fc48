SPECIFICATION Spec
CONSTANTS
    ResetReload = 3
    HDraw = 3
    HBlank = 2
    VisLines = 1
    Lines = 3
    Timers = {0, 1}
    Channels = {}
    Reloads = {1, 3}
    Scales = {1, 2}
    Compares = {0}
    EnableSets <- NoIrqs
    DisplayIrqs <- NoIrqs
    IrqChoices = {FALSE}
INVARIANTS TypeOK NoEventOvershot FramePosition
PROPERTIES FrameLength
