\* All components of a PLC.
CONSTANTS
    NI = 1
    NQ = 1
    BYTESIZE = 1
    Forcing = FALSE
    StoresBytes = FALSE
    Counter = {0}
    VMod = 1
    Coils = {"ST"}
    Timer = {0}
    TimerScales = {0}
    Presets = {1}
    Blinker = {}
    BlinkerScales = {0}
    Reconfigure = FALSE
    Stops = TRUE
    Clearing = FALSE
    MaxRung = 3
    Loads = 1
SPECIFICATION SpecPlc
INVARIANT SilenceMeansSame
