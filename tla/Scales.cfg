\* A timer and a blinker of one scale.
CONSTANTS
    Timer = {0}
    Scales = {3}
    Presets = {2}
    Reconfigure = FALSE
    Blinker = {0}
    BlinkerScales = {3}
SPECIFICATION SpecBeside
INVARIANT ScaleIsPeriod
