------------------------------ MODULE Counters ------------------------------
(***************************************************************************)
(* The memory registers p->m[0 .. nm-1] of the PLC and the part of the     *)
(* scan that maintains them (src/src/vm/plclib.c): read_mvars at the start *)
(* of a scan, the coils of the program while the tasks run, and            *)
(* check_pulses, write_mvars and save_state at its end.                    *)
(*                                                                         *)
(* The program is left open: between the two ends of a scan any sequence   *)
(* of the coil instructions named by Coils is executed, on any register.   *)
(* Of the previous state p->old the code reads only the PULSE bit of a     *)
(* register, which is all that oldPulse keeps of it.                       *)
(***************************************************************************)
EXTENDS Integers

CONSTANTS
    Counter,      \* register indexes, 0 .. nm-1
    VMod,         \* V is counted modulo VMod (2^64: V is a uint64_t)
    Coils,        \* coil instructions the program uses: "ST", "S", "R"
    Reconfigure   \* TRUE: the host calls the configurators between scans too

ASSUME VModAssumption == VMod \in Nat \ {0}
ASSUME CoilsAssumption == Coils \subseteq {"ST", "S", "R"}
ASSUME ReconfigureAssumption == Reconfigure \in BOOLEAN

VARIABLES
    m,         \* [Counter -> Register]
    oldPulse,  \* old->m[c].PULSE
    changedM,  \* the CHANGED_M bit of p->update
    phase      \* "host": no scan under way; "tasks": plc_func runs the rungs

vars == <<m, oldPulse, changedM, phase>>

Value == 0 .. VMod - 1

Register == [V : Value, RO : BOOLEAN, DOWN : BOOLEAN, PULSE : BOOLEAN,
             EDGE : BOOLEAN, SET : BOOLEAN, RESET : BOOLEAN]

\* plc_new allocates zeroed registers; RO and DOWN are what the host's
\* configuration calls made of them before the first scan.
Init ==
    /\ m \in [Counter -> [V : {0}, RO : BOOLEAN, DOWN : BOOLEAN, PULSE : {FALSE},
                          EDGE : {FALSE}, SET : {FALSE}, RESET : {FALSE}]]
    /\ oldPulse = [c \in Counter |-> FALSE]
    /\ changedM = FALSE
    /\ phase = "host"

-----------------------------------------------------------------------------
(* The start of a scan.                                                    *)

\* A latched register (SET or RESET) imposes its level at every scan.
ReadMvar(r) ==
    IF r.SET \/ r.RESET THEN [r EXCEPT !.PULSE = r.SET /\ ~r.RESET] ELSE r

BeginScan ==
    /\ phase = "host"
    /\ m' = [c \in Counter |-> ReadMvar(m[c])]
    /\ phase' = "tasks"
    /\ UNCHANGED <<oldPulse, changedM>>

-----------------------------------------------------------------------------
(* Instructions of the program.                                            *)

Contacted(r, val) == [r EXCEPT !.EDGE = (r.PULSE # val), !.PULSE = val]

SetCoil(r) == [r EXCEPT !.SET = TRUE, !.RESET = FALSE,
                        !.EDGE = (r.EDGE \/ ~r.PULSE)]

ResetCoil(r) == [r EXCEPT !.RESET = TRUE, !.SET = FALSE,
                          !.EDGE = (r.EDGE \/ r.PULSE)]

ExecuteCoil(c, kind, r) ==
    /\ phase = "tasks"
    /\ kind \in Coils
    /\ m' = [m EXCEPT ![c] = r]
    /\ UNCHANGED <<oldPulse, changedM, phase>>

Contact(c, val) == ExecuteCoil(c, "ST", Contacted(m[c], val))
Set(c)          == ExecuteCoil(c, "S", SetCoil(m[c]))
Reset(c)        == ExecuteCoil(c, "R", ResetCoil(m[c]))

\* ST of a byte or a longer word to %m: st_mem never looks at RO.
StoreValue(c, v) ==
    /\ phase = "tasks"
    /\ m' = [m EXCEPT ![c].V = v]
    /\ UNCHANGED <<oldPulse, changedM, phase>>

-----------------------------------------------------------------------------
(* The end of a scan.                                                      *)

\* BUG FORM of CheckPulse: the saved pulse is not looked at.
CheckPulseNoEdge(r, old) == r

\* check_pulses: a pulse that differs from the saved one is an edge.
CheckPulse(r, old) == IF r.PULSE # old THEN [r EXCEPT !.EDGE = TRUE] ELSE r

\* BUG FORM of PulseChanged: only falling pulses are noticed.
PulseFell == \E c \in Counter : oldPulse[c] /\ ~m[c].PULSE

PulseChanged == \E c \in Counter : m[c].PULSE # oldPulse[c]

Counted(r) == r.V + (IF r.DOWN THEN -1 ELSE 1)

\* BUG FORMS of WriteMvar: no wrap around; the edge is not consumed.
WriteMvarNoWrap(r) ==
    IF ~r.RO /\ r.PULSE /\ r.EDGE THEN [r EXCEPT !.V = Counted(r), !.EDGE = FALSE]
                                  ELSE r
WriteMvarKeepEdge(r) ==
    IF ~r.RO /\ r.PULSE /\ r.EDGE THEN [r EXCEPT !.V = Counted(r) % VMod] ELSE r

\* write_mvars: count a pulse and consume its edge.
WriteMvar(r) ==
    IF ~r.RO /\ r.PULSE /\ r.EDGE
    THEN [r EXCEPT !.V = Counted(r) % VMod, !.EDGE = FALSE]
    ELSE r

\* plc_func after the tasks: check_pulses, write_mvars, then save_state, which
\* copies all of m over old->m when CHANGED_M is raised now or still pending.
EndScan ==
    /\ phase = "tasks"
    /\ m' = [c \in Counter |-> WriteMvar(CheckPulse(m[c], oldPulse[c]))]
    /\ changedM' = (changedM \/ PulseChanged)
    /\ oldPulse' = IF changedM \/ PulseChanged
                   THEN [c \in Counter |-> m[c].PULSE] ELSE oldPulse
    /\ phase' = "host"

-----------------------------------------------------------------------------
(* Calls of the host between scans.                                        *)

\* plc_reset_update; plc_start and plc_stop clear the bit the same way.
ResetUpdate ==
    /\ phase = "host"
    /\ changedM' = FALSE
    /\ UNCHANGED <<m, oldPulse, phase>>

InitVariable(c, v) ==
    /\ phase = "host"
    /\ m' = [m EXCEPT ![c].V = v]
    /\ UNCHANGED <<oldPulse, changedM, phase>>

ConfigureReadonly(c, ro) ==
    /\ phase = "host" /\ Reconfigure
    /\ m' = [m EXCEPT ![c].RO = ro]
    /\ UNCHANGED <<oldPulse, changedM, phase>>

ConfigureDirection(c, dn) ==
    /\ phase = "host" /\ Reconfigure
    /\ m' = [m EXCEPT ![c].DOWN = dn]
    /\ UNCHANGED <<oldPulse, changedM, phase>>

Coil(c) == Set(c) \/ Reset(c) \/ \E val \in BOOLEAN : Contact(c, val)

Store == \E c \in Counter, v \in Value : StoreValue(c, v)

Program == Store \/ \E c \in Counter : Coil(c)

Configuration ==
    \E c \in Counter :
        \/ \E v \in Value : InitVariable(c, v)
        \/ \E b \in BOOLEAN : ConfigureReadonly(c, b) \/ ConfigureDirection(c, b)

Next == BeginScan \/ Program \/ EndScan \/ ResetUpdate \/ Configuration

Spec == Init /\ [][Next]_vars

-----------------------------------------------------------------------------
(* Properties.                                                             *)

\* Every field keeps its width: V a word that wraps, the others single bits.
TypeOK ==
    /\ m \in [Counter -> Register]
    /\ oldPulse \in [Counter -> BOOLEAN]
    /\ changedM \in BOOLEAN
    /\ phase \in {"host", "tasks"}

\* Between scans the saved pulse of every register is its present pulse,
\* although save_state copies the registers only when the update mask says
\* so: check_pulses, which raises the bit, may not miss a change of any one.
PulseBaseline ==
    phase = "host" => \A c \in Counter : oldPulse[c] = m[c].PULSE

\* A pulse that stays high is not left pending: between scans a register that
\* counts has no unconsumed edge under a high pulse, so that holding a coil on
\* over many scans counts once.
HeldPulseCounted ==
    phase = "host" => \A c \in Counter : ~(~m[c].RO /\ m[c].PULSE /\ m[c].EDGE)

\* Whatever coils the program drives a register with, in any order and number
\* (a second ST of the same value clears EDGE again), a pulse that is higher at
\* the end of a scan than at the end of the last one is counted.
RisesCounted ==
    [][EndScan => \A c \in Counter :
          (m[c].PULSE /\ ~oldPulse[c] /\ ~m[c].RO)
             => m'[c].V = Counted(m[c]) % VMod]_vars
=============================================================================
