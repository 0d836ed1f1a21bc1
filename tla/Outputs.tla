------------------------------ MODULE Outputs ------------------------------
(***************************************************************************)
(* The digital outputs (src/src/vm/plclib.c).  dec_inp clears the buffer   *)
(* p->outputs at the start of a scan; instructions of the program write    *)
(* coils p->dq and whole bytes of the buffer; enc_out merges coils and     *)
(* forcing masks into the buffer at the end of the scan and write_outputs  *)
(* puts it on the hardware (field).  plc_stop clears buffer and hardware   *)
(* but neither the coils nor the saved buffer.                             *)
(*                                                                         *)
(* A byte is the set of its bits that are 1, as in module Inputs.          *)
(***************************************************************************)
EXTENDS Integers

CONSTANTS
    NQ,          \* p->nq, number of output bytes
    BYTESIZE,    \* bits of a byte (8 in data.h)
    StoresBytes  \* TRUE: the program also stores whole bytes (ST %Q0)

VARIABLES
    outputs,       \* [0 .. NQ-1 -> SUBSET Bit], the buffer
    dq,            \* [Coil -> DigitalOutput]
    oldOutputs,    \* old->outputs
    field,         \* what the hardware drives
    changedO,      \* the CHANGED_O bit of p->update
    phase          \* "host", or "tasks" while plc_func runs the rungs

vars == <<outputs, dq, oldOutputs, field, changedO, phase>>

Byte == 0 .. NQ - 1
Bit == 0 .. BYTESIZE - 1
Coil == 0 .. NQ * BYTESIZE - 1
Buffer == [Byte -> SUBSET Bit]
Cleared == [i \in Byte |-> {}]
DigitalOutput == [Q : BOOLEAN, SET : BOOLEAN, RESET : BOOLEAN,
                  MASK : BOOLEAN, N_MASK : BOOLEAN]

Init ==
    /\ outputs = Cleared
    /\ dq = [n \in Coil |-> [Q |-> FALSE, SET |-> FALSE, RESET |-> FALSE,
                             MASK |-> FALSE, N_MASK |-> FALSE]]
    /\ oldOutputs = Cleared
    /\ field = Cleared
    /\ changedO = FALSE
    /\ phase = "host"

-----------------------------------------------------------------------------
(* A scan.                                                                 *)

\* The last statement of dec_inp.
BeginScan ==
    /\ phase = "host"
    /\ outputs' = Cleared
    /\ phase' = "tasks"
    /\ UNCHANGED <<dq, oldOutputs, field, changedO>>

WriteCoil(n, r) ==
    /\ phase = "tasks"
    /\ dq' = [dq EXCEPT ![n] = r]
    /\ UNCHANGED <<outputs, oldOutputs, field, changedO, phase>>

Contact(n, val) == WriteCoil(n, [dq[n] EXCEPT !.Q = val])
Set(n)          == WriteCoil(n, [dq[n] EXCEPT !.SET = TRUE, !.RESET = FALSE])
Reset(n)        == WriteCoil(n, [dq[n] EXCEPT !.RESET = TRUE, !.SET = FALSE])

\* ST of a byte or a longer word: bytes i .. i + offs of the buffer.
StoreBytes(i, offs, val) ==
    /\ phase = "tasks" /\ StoresBytes
    /\ i + offs < NQ
    /\ outputs' = [b \in Byte |-> IF b \in i .. i + offs THEN val[b - i] ELSE outputs[b]]
    /\ UNCHANGED <<dq, oldOutputs, field, changedO, phase>>

\* The inner loop counter of enc_out is not restarted: only coils of byte 0
\* are merged into the buffer.
Reached(n) == n < BYTESIZE

\* BUG FORM of Driven: a set coil is not masked.
DrivenUnmasked(r) == ((r.Q \/ r.MASK) /\ ~r.N_MASK) \/ (r.SET /\ ~r.RESET)

Driven(r) == (r.Q \/ (r.SET /\ ~r.RESET) \/ r.MASK) /\ ~r.N_MASK

Encoded == [i \in Byte |->
               outputs[i] \cup {j \in Bit : LET n == BYTESIZE * i + j
                                            IN Reached(n) /\ Driven(dq[n])}]

\* BUG FORM of EndScan: only a rising output is a change.
EndScanNoticesRises ==
    /\ phase = "tasks"
    /\ outputs' = Encoded
    /\ field' = Encoded
    /\ changedO' = (changedO \/ \E i \in Byte : ~(Encoded[i] \subseteq oldOutputs[i]))
    /\ oldOutputs' = IF changedO' THEN Encoded ELSE oldOutputs
    /\ phase' = "host"
    /\ UNCHANGED dq

\* enc_out, write_outputs and save_state.
EndScan ==
    /\ phase = "tasks"
    /\ outputs' = Encoded
    /\ field' = Encoded
    /\ changedO' = (changedO \/ Encoded # oldOutputs)
    /\ oldOutputs' = IF changedO \/ Encoded # oldOutputs THEN Encoded ELSE oldOutputs
    /\ phase' = "host"
    /\ UNCHANGED dq

-----------------------------------------------------------------------------
(* Calls of the host between scans.                                        *)

\* BUG FORM of Stop: the cleared buffer is not written to the hardware.
StopNoFlush ==
    /\ phase = "host"
    /\ outputs' = Cleared
    /\ changedO' = FALSE
    /\ UNCHANGED <<dq, oldOutputs, field, phase>>

\* plc_stop of a running PLC; it overwrites the mask too.
Stop ==
    /\ phase = "host"
    /\ outputs' = Cleared
    /\ field' = Cleared
    /\ changedO' = FALSE
    /\ UNCHANGED <<dq, oldOutputs, phase>>

\* plc_reset_update; plc_start overwrites the mask likewise.
ResetUpdate ==
    /\ phase = "host"
    /\ changedO' = FALSE
    /\ UNCHANGED <<outputs, dq, oldOutputs, field, phase>>

ForceCoil(n, r) ==
    /\ phase = "host"
    /\ n < NQ     \* plc_force and plc_unforce compare with the number of bytes
    /\ dq' = [dq EXCEPT ![n] = r]
    /\ UNCHANGED <<outputs, oldOutputs, field, changedO, phase>>

ForceTo(n, val) == ForceCoil(n, IF val THEN [dq[n] EXCEPT !.MASK = TRUE]
                                     ELSE [dq[n] EXCEPT !.N_MASK = TRUE])
Unforce(n) == ForceCoil(n, [dq[n] EXCEPT !.MASK = FALSE, !.N_MASK = FALSE])

CoilInstruction ==
    \E n \in Coil : Set(n) \/ Reset(n) \/ \E val \in BOOLEAN : Contact(n, val)

Program ==
    \/ CoilInstruction
    \/ \E i, offs \in Byte : \E val \in [0 .. offs -> SUBSET Bit] : StoreBytes(i, offs, val)

Masking == \E n \in Coil : Unforce(n) \/ \E val \in BOOLEAN : ForceTo(n, val)

Next == BeginScan \/ Program \/ EndScan \/ Stop \/ ResetUpdate \/ Masking

Spec == Init /\ [][Next]_vars

-----------------------------------------------------------------------------
(* Properties.                                                             *)

\* Buffers of bytes, coils of bits.
TypeOK ==
    /\ outputs \in Buffer /\ oldOutputs \in Buffer
    /\ field \in Buffer
    /\ dq \in [Coil -> DigitalOutput]
    /\ changedO \in BOOLEAN
    /\ phase \in {"host", "tasks"}
=============================================================================
