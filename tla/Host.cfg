\* Every back end; no inputs, and one line of output and one of input for gpiod.
CONSTANTS
    NI = 0
    NQ = 1
    BYTESIZE = 1
    Forcing = TRUE
    StoresBytes = FALSE
    Counter = {}
    VMod = 2
    Coils = {"ST"}
    Timer = {}
    TimerScales = {0}
    Presets = {1}
    Blinker = {0}
    BlinkerScales = {0}
    Reconfigure = TRUE
    Stops = TRUE
    Clearing = TRUE
    MaxRung = 3
    Loads = 3
    Kinds = {"gpiod", "comedi", "uspace", "sim", "dry"}
    Lines <- MCLines
SPECIFICATION SpecHost
INVARIANTS OnlyEnabledDrives RunningHolds
PROPERTIES ErrorHolds HalfEnabledIsFinal
