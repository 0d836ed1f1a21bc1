------------------------------- MODULE Analog -------------------------------
(***************************************************************************)
(* The analog inputs and outputs (src/src/vm/plclib.c).  dec_inp scales    *)
(* the raw word of an input into its limits, enc_out the value of an       *)
(* output out of them, and a mask strictly within the limits forces it.    *)
(*                                                                         *)
(* Values are the integers in units of 1/FULL, so that scaling an input is *)
(* exact; FULL stands for UINT64_MAX, and a raw word is in 0 .. FULL.      *)
(***************************************************************************)
EXTENDS Integers

CONSTANTS
    AI, AQ,    \* analog inputs and outputs
    FULL,      \* the greatest raw word
    Limits,    \* values the host configures as a limit
    Values     \* values that are forced, or stored by the program

VARIABLES
    io,        \* for each channel its struct analog_io
    realIn,    \* [AI -> Raw], what the hardware reads
    lines,     \* [AQ -> Raw], what the hardware drives
    status,    \* p->status; all negative values are "ERROR"
    dark,      \* never started, or stopped by plc_stop and not started since
    busy,      \* plc_func is running the rungs
    changedA,  \* the bits of p->update that analog values have set
    asked      \* history: what the host last asked of each channel

varsA == <<io, realIn, lines, status, dark, busy, changedA, asked>>

Channel == AI \cup AQ
Raw == 0 .. FULL
AnalogIO == [V |-> 0, min |-> 0, max |-> 0, mask |-> 0]     \* allocated with calloc
Asked(what, val) == [what |-> what, val |-> val]

Init ==
    /\ io = [c \in Channel |-> AnalogIO]
    /\ realIn = [c \in AI |-> 0]
    /\ lines = [c \in AQ |-> 0]
    /\ status = "STOPPED" /\ dark = TRUE
    /\ busy = FALSE
    /\ changedA = {}
    /\ asked = [c \in Channel |-> Asked("nothing", 0)]

-----------------------------------------------------------------------------
(* A scan.                                                                 *)

\* plc_is_forced
IsForced(r) == r.min < r.mask /\ r.mask < r.max

Scaled(raw, r) == r.min + ((r.max - r.min) * raw) \div FULL

\* Compared with old->ai and old->aq, which save_state never writes: 0 for
\* ever.  abs is that of integers, and drops the fraction.
Noticed(v) == v >= FULL \/ v <= -FULL

\* read_inputs and the analog part of dec_inp.
Decoded(raw, r) == [r EXCEPT !.V = IF IsForced(r) THEN r.mask ELSE Scaled(raw, r)]

BeginScan ==
    /\ status = "RUNNING" /\ ~busy
    /\ realIn' \in [AI -> Raw]
    /\ io' = [c \in Channel |-> IF c \in AI THEN Decoded(realIn'[c], io[c]) ELSE io[c]]
    /\ busy' = TRUE
    /\ UNCHANGED <<lines, status, dark, changedA, asked>>

\* st_out_r takes any value.
Store(c, val) ==
    /\ busy /\ c \in AQ
    /\ io' = [io EXCEPT ![c].V = val]
    /\ UNCHANGED <<realIn, lines, status, dark, busy, changedA, asked>>

\* The raw words that enc_out may make of val.  A ratio that is not below 1,
\* or is negative or no number, has no conversion to an unsigned word: the
\* product with UINT64_MAX, which is rounded to 2^64, is out of its range.
Words(val, r) ==
    LET sign == IF r.max < r.min THEN -1 ELSE 1
        over == sign * (val - r.min)
        span == sign * (r.max - r.min)
    IN IF 0 <= over /\ over < span THEN {(FULL * over) \div span} ELSE Raw

\* BUG FORM of Encodings: the mask is not looked at.
EncodingsUnmasked(r) == Words(r.V, r)

Encodings(r) == Words(IF IsForced(r) THEN r.mask ELSE r.V, r)

\* The analog part of enc_out, write_outputs and save_state.
EndScan ==
    /\ busy
    /\ lines' \in {w \in [AQ -> Raw] : \A c \in AQ : w[c] \in Encodings(io[c])}
    /\ changedA' = changedA
          \cup (IF \E c \in AI : Noticed(io[c].V) THEN {"CHANGED_I"} ELSE {})
          \cup (IF \E c \in AQ : Noticed(io[c].V) THEN {"CHANGED_O"} ELSE {})
    /\ busy' = FALSE
    /\ status' \in {status, "ERROR"}     \* the result of the rungs
    /\ UNCHANGED <<io, realIn, dark, asked>>

-----------------------------------------------------------------------------
(* Calls of the host between scans.                                        *)

\* plc_start and plc_stop of a PLC whose hardware is in order; the limits of
\* the outputs are not thought of when the raw words are cleared.
Start ==
    /\ status = "STOPPED" /\ status' = "RUNNING"
    /\ dark' = FALSE
    /\ changedA' = {}
    /\ UNCHANGED <<io, realIn, lines, busy, asked>>

Stop ==
    /\ status = "RUNNING" /\ ~busy /\ status' = "STOPPED"
    /\ dark' = TRUE
    /\ lines' = [c \in AQ |-> 0]
    /\ changedA' = {}
    /\ UNCHANGED <<io, realIn, busy, asked>>

\* A program is loaded, or the hardware fails to start.
StatusSet ==
    /\ ~busy /\ status' \in {"STOPPED", "ERROR"}
    /\ UNCHANGED <<io, realIn, lines, dark, busy, changedA, asked>>

ResetUpdate ==
    /\ ~busy /\ changedA' = {}
    /\ UNCHANGED <<io, realIn, lines, status, dark, busy, asked>>

HostSets(c, r, what) ==
    /\ ~busy
    /\ io' = [io EXCEPT ![c] = r]
    /\ asked' = [asked EXCEPT ![c] = what]
    /\ UNCHANGED <<realIn, lines, status, dark, busy, changedA>>

\* plc_force passes over a value that is not strictly within the limits.
Force(c, val) ==
    /\ IsForced([io[c] EXCEPT !.mask = val])
    /\ HostSets(c, [io[c] EXCEPT !.mask = val], Asked("force", val))

\* BUG FORM of Unforce: the mask is cleared as that of a digital one.
UnforceClears(c) == HostSets(c, [io[c] EXCEPT !.mask = 0], Asked("lift", 0))

\* plc_unforce
Unforce(c) == HostSets(c, [io[c] EXCEPT !.mask = io[c].min], Asked("lift", 0))

\* plc_configure_io_limit leaves the mask alone, which may thereby come to lie
\* within the limits: of a channel nobody has forced, or has had lifted.
Moved(c) == IF asked[c].what = "nothing" THEN asked[c] ELSE Asked("limit", 0)
Limit(c) ==
    \E val \in Limits :
       \/ HostSets(c, [io[c] EXCEPT !.max = val], Moved(c))
       \/ HostSets(c, [io[c] EXCEPT !.min = val], Moved(c))

Next ==
    \/ BeginScan \/ EndScan \/ Start \/ Stop \/ StatusSet \/ ResetUpdate
    \/ \E c \in Channel : Unforce(c) \/ Limit(c) \/ \E val \in Values : Force(c, val) \/ Store(c, val)
=============================================================================
