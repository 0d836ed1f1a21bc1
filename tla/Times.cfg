\* Two timers of every configuration, or two blinkers; or two rungs of two
\* instructions whose scans last up to two seconds of seven ticks.
CONSTANTS
    Timer = {0, 1}
    Scales = {0, 2}
    Presets = {0, 2}
    Reconfigure = FALSE
    Blinker = {0, 1}
    BlinkerScales = {0, 1, 3}
    Rungs = 2
    InsNo = 2
    Timeout = 3
    Second = 7
    MaxTime = 2
    Horizon = 8
    MaxIO = 9
    Word = 16
SPECIFICATION SpecTimes
INVARIANTS TypeOK TicksAccount NeverEarly ClocksAnnounced NoSpuriousTimeout TimeBounded PacedByStep
PROPERTIES Fires BlinkPeriod Blinks EarlyLoopCut
