SPECIFICATION Spec
CONSTANTS
    Listed128 = FALSE
    NoState = NoState
INVARIANTS
    TypeOK
    SessionSaved
    FlashProtected
