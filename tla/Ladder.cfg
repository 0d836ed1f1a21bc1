\* Two lines, three contacts, two columns of nodes; negated contacts just before
\* the coils; and lists on one and two bytes of two bits each.
CONSTANTS
    Operand = {0, 1, 2}
    Present = {0, 1}
    Coil = {1, 2}
    MAXSTACK = 16
    Programs <- MCPrograms
    Cuts = 2
    Contacts = 3
    Nodes = 2
    Closed = "last"
    BYTESIZE = 2
    Sizes = {1, 2}
    NI = 2
    Plant <- MCPlant
    Reals <- MCReals
    Lists <- MCLists
    WORDSTACK = 2
SPECIFICATION SpecMachine
INVARIANTS TypeOK CoilFollowsCircuit StackRestored NothingPastFailure StoredIsLoaded ValueFits
