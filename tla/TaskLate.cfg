CONSTANTS
    Rungs = 1
    InsNo = 2
    Timeout = 3
    Second = 6
    MaxTime = 2
    Horizon = 6
SPECIFICATION SpecTask
PROPERTY LoopCut
