SPECIFICATION FairSpec
CONSTANTS
    BufLen = 4
    Batch = 3
    Request = 2
    Samples = {1, 2}
    Silence = 0
INVARIANTS
    TypeOK
    NeverUnderstated
PROPERTIES
    RingIsQueue
    NothingDropped
    WritesEnd
