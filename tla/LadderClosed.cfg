\* As Ladder, with negated contacts anywhere.
CONSTANTS
    Operand = {0, 1, 2}
    Present = {0, 1}
    Coil = {1, 2}
    MAXSTACK = 16
    Programs <- MCPrograms
    Cuts = 2
    Contacts = 2
    Nodes = 1
    Closed = "any"
    BYTESIZE = 2
    Sizes = {1, 2}
    NI = 2
    Plant <- MCPlant
    Reals <- MCReals
    Lists <- MCLists
    WORDSTACK = 2
SPECIFICATION SpecMachine
INVARIANT CoilFollowsCircuit
