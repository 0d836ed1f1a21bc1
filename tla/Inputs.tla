------------------------------- MODULE Inputs -------------------------------
(***************************************************************************)
(* The digital inputs (src/src/vm/plclib.c): read_inputs fills the buffer  *)
(* p->inputs from the hardware at the start of every scan and dec_inp      *)
(* decodes it, with the host's forcing masks, into the contacts p->di that *)
(* the program reads.  A byte of the buffer is the set of its bits that    *)
(* are 1; contact number n is bit n % BYTESIZE of byte n \div BYTESIZE.    *)
(*                                                                         *)
(* The program only reads contacts, so a scan is BeginScan and EndScan.    *)
(***************************************************************************)
EXTENDS Integers

CONSTANTS
    NI,         \* p->ni, number of input bytes
    BYTESIZE,   \* bits of a byte (8 in data.h)
    Forcing     \* TRUE: the host forces inputs

ASSUME NIAssumption == NI \in Nat
ASSUME BYTESIZEAssumption == BYTESIZE \in Nat \ {0}
ASSUME ForcingAssumption == Forcing \in BOOLEAN

VARIABLES
    inputs,    \* [0 .. NI-1 -> SUBSET Bit], the buffer
    di,        \* [Contact -> DigitalInput]
    oldInputs, \* old->inputs
    iChanged,  \* i_changed, the local of plc_func; FALSE between calls
    changedI,  \* the CHANGED_I bit of p->update
    phase      \* "host", or "tasks" while plc_func runs the rungs

vars == <<inputs, di, oldInputs, iChanged, changedI, phase>>

Byte == 0 .. NI - 1
Bit == 0 .. BYTESIZE - 1
Contact == 0 .. NI * BYTESIZE - 1
Buffer == [Byte -> SUBSET Bit]
DigitalInput == [I : BOOLEAN, RE : BOOLEAN, FE : BOOLEAN,
                 MASK : BOOLEAN, N_MASK : BOOLEAN]

Init ==
    /\ inputs = [i \in Byte |-> {}]
    /\ di = [n \in Contact |-> [I |-> FALSE, RE |-> FALSE, FE |-> FALSE,
                                MASK |-> FALSE, N_MASK |-> FALSE]]
    /\ oldInputs = [i \in Byte |-> {}]
    /\ iChanged = FALSE
    /\ changedI = FALSE
    /\ phase = "host"

\* The value of a contact in a buffer, under its masks.
Masked(buffer, n, r) ==
    ((n % BYTESIZE) \in buffer[n \div BYTESIZE] \/ r.MASK) /\ ~r.N_MASK

\* dec_inp compares with old->di[n].I, which save_state never writes: it is 0
\* for ever, so that RE repeats I and FE is never set.
Decoded(buffer, n, r) ==
    LET v == Masked(buffer, n, r)
    IN [r EXCEPT !.I = v, !.RE = v, !.FE = FALSE]

\* The inner loop counter of dec_inp is not restarted: once the bits of byte 0
\* are decoded it has reached BYTESIZE for every other byte.
Reached(n) == n < BYTESIZE

\* BUG FORMS of BeginScan: a ninth bit is read; the change of any but the
\* first byte is overlooked.
BeginScanWide ==
    /\ phase = "host"
    /\ inputs' \in [Byte -> SUBSET (0 .. BYTESIZE)]
    /\ di' = [n \in Contact |-> IF Reached(n) THEN Decoded(inputs', n, di[n])
                                              ELSE di[n]]
    /\ iChanged' = (inputs' # oldInputs)
    /\ phase' = "tasks"
    /\ UNCHANGED <<oldInputs, changedI>>
BeginScanFirstByte ==
    /\ phase = "host"
    /\ inputs' \in Buffer
    /\ di' = [n \in Contact |-> IF Reached(n) THEN Decoded(inputs', n, di[n])
                                              ELSE di[n]]
    /\ iChanged' = (inputs'[0] # oldInputs[0])
    /\ phase' = "tasks"
    /\ UNCHANGED <<oldInputs, changedI>>

\* read_inputs, then dec_inp.
BeginScan ==
    /\ phase = "host"
    /\ inputs' \in Buffer
    /\ di' = [n \in Contact |-> IF Reached(n) THEN Decoded(inputs', n, di[n])
                                              ELSE di[n]]
    /\ iChanged' = (inputs' # oldInputs)
    /\ phase' = "tasks"
    /\ UNCHANGED <<oldInputs, changedI>>

\* save_state, with the bit of this scan added to a pending one.
EndScan ==
    /\ phase = "tasks"
    /\ changedI' = (changedI \/ iChanged)
    /\ oldInputs' = IF changedI \/ iChanged THEN inputs ELSE oldInputs
    /\ phase' = "host"
    /\ iChanged' = FALSE
    /\ UNCHANGED <<inputs, di>>

-----------------------------------------------------------------------------
(* Calls of the host between scans.                                        *)

\* plc_reset_update; plc_start and plc_stop overwrite the mask likewise.
ResetUpdate ==
    /\ phase = "host"
    /\ changedI' = FALSE
    /\ UNCHANGED <<inputs, di, oldInputs, iChanged, phase>>

\* plc_force and plc_unforce bound the contact number by the number of bytes.
Forceable(n) == n < NI

ForceTo(n, val) ==
    /\ phase = "host" /\ Forcing /\ Forceable(n)
    /\ di' = IF val THEN [di EXCEPT ![n].MASK = TRUE]
                    ELSE [di EXCEPT ![n].N_MASK = TRUE]
    /\ UNCHANGED <<inputs, oldInputs, iChanged, changedI, phase>>

\* BUG FORM of Unforce: only the positive mask is lifted.
UnforceKeepsZero(n) ==
    /\ phase = "host" /\ Forcing /\ Forceable(n)
    /\ di' = [di EXCEPT ![n].MASK = FALSE]
    /\ UNCHANGED <<inputs, oldInputs, iChanged, changedI, phase>>

Unforce(n) ==
    /\ phase = "host" /\ Forcing /\ Forceable(n)
    /\ di' = [di EXCEPT ![n].MASK = FALSE, ![n].N_MASK = FALSE]
    /\ UNCHANGED <<inputs, oldInputs, iChanged, changedI, phase>>

Masking == \E n \in Contact : Unforce(n) \/ \E val \in BOOLEAN : ForceTo(n, val)

Next == BeginScan \/ EndScan \/ ResetUpdate \/ Masking

Spec == Init /\ [][Next]_vars

-----------------------------------------------------------------------------
(* Properties.                                                             *)

\* Buffers of bytes, contacts of bits.
TypeOK ==
    /\ inputs \in Buffer /\ oldInputs \in Buffer
    /\ di \in [Contact -> DigitalInput]
    /\ iChanged \in BOOLEAN /\ changedI \in BOOLEAN
    /\ phase \in {"host", "tasks"}

\* Between scans the saved buffer is the buffer, although it is saved only
\* when the mask says that some byte changed or a bit is still pending.
SavedInputs == phase = "host" => oldInputs = inputs
=============================================================================
