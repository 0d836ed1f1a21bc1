\* Two registers under any coils, and under one ST coil each.
CONSTANTS
    Counter = {0, 1}
    VMod = 3
    Coils = {"ST", "S", "R"}
    Reconfigure = FALSE
SPECIFICATION SpecOnce
INVARIANTS TypeOK PulseBaseline HeldPulseCounted
PROPERTIES RisesCounted ImplementsPulseCounter
