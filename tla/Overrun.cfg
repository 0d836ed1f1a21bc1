CONSTANTS
    Rungs = 2
    InsNo = 2
    Timeout = 3
    Second = 7
    MaxTime = 2
    Horizon = 8
    MaxIO = 9
    Word = 16
SPECIFICATION SpecPacing
INVARIANT NeverOversleeps
