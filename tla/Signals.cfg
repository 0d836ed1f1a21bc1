\* Two bytes of two inputs, two bytes of an output, an analog channel,
\* or two bytes on their way to and from the hardware.
CONSTANTS
    NI = 2
    BYTESIZE = 2
    Forcing = TRUE
    NQ = 2
    OUTBITS = 1
    StoresBytes = TRUE
    AI = {ain}
    AQ = {aout}
    FULL = 2
    Limits <- MCLimits
    Values <- MCValues
    ASCIISTART = 1
    Wired = 3
SPECIFICATION SpecSignals
INVARIANTS TypeOK InputsAnnounced OutputsAnnounced StoppedIsDark InputsAsFound
PROPERTIES ForcedContacts ForcedCoils ForcedValues WrittenOnce
