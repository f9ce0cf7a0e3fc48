SPECIFICATION PsrSpec
CONSTANTS
    Flags = {"c"}
    GuestWords <- MCGuestWords
    SavedStates <- MCSavedStates
INVARIANTS FlagsKept SetFollows
