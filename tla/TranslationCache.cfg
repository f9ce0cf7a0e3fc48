SPECIFICATION FairSpec
CONSTANTS
    Last = 4
    Capacity = 9
    MaxBlock = 4
    MaxExits = 3
    ByteValues = 2
    Targets = {0, 3}
    Programs <- LoopAndCall
    Patches <- Middle
    Mark = Mark
    Unset = Unset
INVARIANTS
    TypeOK
    BlocksCurrent
    TagsLive
    OneFlush
PROPERTY LookupEnds
