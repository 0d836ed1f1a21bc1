------------------------------ MODULE Signals ------------------------------
(***************************************************************************)
(* The signals of a PLC (src/src/vm/plclib.c): digital inputs, digital     *)
(* outputs, or analog ones of a kind, or the bits that pass between those  *)
(* and the hardware.  A PLC has signals of one sort here: they meet in the *)
(* update mask alone, which module PlcObserved composes.                   *)
(***************************************************************************)
EXTENDS InputsObserved

CONSTANTS
    NQ, OUTBITS, StoresBytes,       \* output bytes, their bits
    AI, AQ, FULL, Limits, Values,   \* analog channels
    ASCIISTART, Wired               \* the hardware

ASSUME OutputsAssumption ==
    NQ \in Nat \ {0} /\ OUTBITS \in Nat \ {0} /\ StoresBytes \in BOOLEAN

\* Limits are whole numbers, in units of 1/FULL, so that no input is rounded.
ASSUME AnalogAssumption ==
    /\ FULL \in Nat \ {0}
    /\ Values \subseteq Int
    /\ \A limit \in Limits : limit \in Int /\ limit % FULL = 0

ASSUME HardwareAssumption == ASCIISTART \in Nat /\ Wired \in Nat

VARIABLES
    use,                                                          \* the sort
    outputs, dq, oldOutputs, field, changedO,
    status, changedStatus, fieldShown, stored, stopped, dark,     \* module OutputsObserved
    io, realIn, lines, run, dim, busy, changedA, asked,           \* module Analog
    kind, ni, nq, nai, naq, at, n, read, written, raw, bufIn, bufOut,
    plant, device, seen                                           \* module Transfer

O == INSTANCE OutputsObserved WITH BYTESIZE <- OUTBITS, shown <- fieldShown
A == INSTANCE Analog WITH status <- run, dark <- dim
T == INSTANCE Transfer WITH NB <- NI, inputs <- read, outputs <- written

inputside == <<inputs, di, oldInputs, iChanged, changedI, observed>>
outputside == <<outputs, dq, oldOutputs, field, changedO,
                status, changedStatus, fieldShown, stored, stopped, dark>>
analogside == <<io, realIn, lines, run, dim, busy, changedA, asked>>
transferside == <<kind, ni, nq, nai, naq, at, n, read, written, raw, bufIn, bufOut,
                  plant, device, seen>>
signals == <<use, phase, inputside, outputside, analogside, transferside>>

InitSignals ==
    /\ InitObserved /\ O!InitObserved /\ A!Init /\ T!Init
    /\ use \in {"di", "dq", "ai", "aq", "bits"}
    /\ use # "bits" => kind = "dry" /\ nq = NI

\* The channels the host sets up and the program stores to are those in use.
AnalogNext ==
    /\ A!Next
    /\ \A c \in AI \cup AQ : io'[c] = io[c] \/ (c \in AI <=> use = "ai")

NextSignals ==
    /\ \/ use = "di" /\ NextObserved /\ UNCHANGED <<outputside, analogside, transferside>>
       \/ use = "dq" /\ O!NextObserved /\ UNCHANGED <<inputside, analogside, transferside>>
       \/ /\ use \in {"ai", "aq"} /\ AnalogNext
          /\ UNCHANGED <<phase, inputside, outputside, transferside>>
       \/ use = "bits" /\ T!Next /\ UNCHANGED <<phase, inputside, outputside, analogside>>
    /\ UNCHANGED use

SpecSignals == InitSignals /\ [][NextSignals]_signals

-----------------------------------------------------------------------------
\* As OutputsAnnounced of module OutputsObserved.
OutputsAnnounced == O!OutputsAnnounced

\* A coil forced to 0 is off, and one forced to 1 and not to 0 is on, in every
\* scan, whatever coils and latches the program executes: in a byte that the
\* program does not store (the masks do not reach the bits of a stored byte).
ForcedCoils == [][O!MasksRule]_signals

\* From plc_stop of a running PLC until it is started again, and before the
\* first start, nothing is driven: no bit, and of an analog output the lowest
\* word (which is its lower limit, not 0); whatever programs are loaded, outputs
\* forced and starts fail in between.  A run that a load or a failing scan has
\* ended is no such rest: its outputs stay on, and plc_stop passes them over.
StoppedIsDark == O!StoppedIsDark /\ (dim => \A c \in AQ : lines[c] = 0)

\* From the time the host has forced an analog channel, or has lifted that, and
\* until it moves its limits, a scan reads and drives the forced value, or what
\* the plant and the program say, in the scale of the limits: through stops and
\* starts, and whatever forces outside the limits are tried in between
\* (plc_force, plc_unforce, dec_inp, enc_out).
ValuesRule ==
    /\ A!BeginScan => \A c \in AI :
          /\ asked[c].what = "force" => io'[c].V = asked[c].val
          /\ asked[c].what = "lift" =>
                FULL * (io'[c].V - io[c].min) = realIn'[c] * (io[c].max - io[c].min)
    /\ A!EndScan => \A c \in AQ :
          LET v == IF asked[c].what = "force" THEN asked[c].val ELSE io[c].V
              rest == FULL * (v - io[c].min) - lines'[c] * (io[c].max - io[c].min)
          IN /\ asked[c].what \in {"force", "lift"}
             /\ io[c].min <= v /\ v < io[c].max
             => 0 <= rest /\ rest < io[c].max - io[c].min

\* Every step keeps to that rule.
ForcedValues == [][ValuesRule]_signals

\* A program finds inputs as the plant had them while this scan was reading
\* (InputsAsFound of module Transfer).
InputsAsFound == T!InputsAsFound

\* While a scan writes, no pin of the hardware shows anything but its old and
\* its new value (WrittenRule of module Transfer).
WrittenOnce == [][T!WrittenRule]_signals

=============================================================================
