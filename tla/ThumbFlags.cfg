CONSTANTS
    Programs <- MCPrograms
    Length = 5
    MaxBlock = 4
    MaxExits = 3
    Gates <- MCGates
SPECIFICATION Spec
INVARIANTS FlagsRight LinksRight
