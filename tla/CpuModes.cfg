SPECIFICATION Spec
CONSTANTS
    GuestPsrs <- HandlerPsrs
    StoredPsrs <- Unmasked
    Values = {v1, v2}
SYMMETRY ValueSymmetry
INVARIANTS
    TypeOK
    ModeAgrees
PROPERTY BanksKept
CHECK_DEADLOCK FALSE
