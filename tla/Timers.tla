------------------------------- MODULE Timers -------------------------------
(***************************************************************************)
(* The timers p->t[0 .. nt-1] (src/src/vm/plclib.c): manage_timers runs at *)
(* the start of every scan, the coils of the program start and stop them,  *)
(* and the scan reports to the host that a value has advanced.             *)
(*                                                                         *)
(* The program may execute timer coils in any order and number.  old->t is *)
(* saved by the code but never read, so it is no part of the state.        *)
(***************************************************************************)
EXTENDS Integers

CONSTANTS
    Timer,        \* timer indexes, 0 .. nt-1
    Scales,       \* values the host configures for S (a long, from atol)
    Presets,      \* values the host configures for P
    Reconfigure   \* TRUE: the host calls the configurators between scans too

ASSUME ScalesAssumption == Scales \subseteq Nat
ASSUME PresetsAssumption == Presets \subseteq Nat
ASSUME ReconfigureAssumption == Reconfigure \in BOOLEAN

VARIABLES
    t,         \* [Timer -> record of struct timer]
    tChanged,  \* t_changed, the local of plc_func; FALSE between calls
    changedT,  \* the CHANGED_T bit of p->update
    phase      \* "host", or "tasks" while plc_func runs the rungs

vars == <<t, tChanged, changedT, phase>>

TimerRecord == [S : Scales, sn : Nat, V : Nat, P : Presets, Q : BOOLEAN,
                ONDELAY : BOOLEAN, START : BOOLEAN]

Init ==
    /\ t \in [Timer -> [S : Scales, sn : {0}, V : {0}, P : Presets, Q : {FALSE},
                        ONDELAY : BOOLEAN, START : {FALSE}]]
    /\ tChanged = FALSE
    /\ changedT = FALSE
    /\ phase = "host"

-----------------------------------------------------------------------------
(* manage_timers.                                                          *)

Counting(r) == r.START /\ r.V < r.P

\* BUG FORM of Ticks: the scale counter compared one scan too early.
TicksEarly(r) == Counting(r) /\ r.sn + 1 >= r.S

\* The scan in which the scale counter is full and the value advances.
Ticks(r) == Counting(r) /\ r.sn >= r.S

\* BUG FORMS of Managed: the value is counted down; the output is raised while
\* still counting; a timer that has reached its preset is left alone.
ManagedCountsDown(r) ==
    IF Counting(r)
    THEN [r EXCEPT !.V = IF Ticks(r) THEN r.V - 1 ELSE r.V,
                   !.sn = IF Ticks(r) THEN 0 ELSE r.sn + 1,
                   !.Q = ~r.ONDELAY]
    ELSE IF r.START THEN [r EXCEPT !.Q = r.ONDELAY] ELSE r
ManagedEarly(r) ==
    IF Counting(r)
    THEN [r EXCEPT !.V = IF Ticks(r) THEN r.V + 1 ELSE r.V,
                   !.sn = IF Ticks(r) THEN 0 ELSE r.sn + 1,
                   !.Q = IF r.V + 1 = r.P THEN r.ONDELAY ELSE ~r.ONDELAY]
    ELSE IF r.START THEN [r EXCEPT !.Q = r.ONDELAY] ELSE r
ManagedNeverFires(r) ==
    IF Counting(r)
    THEN [r EXCEPT !.V = IF Ticks(r) THEN r.V + 1 ELSE r.V,
                   !.sn = IF Ticks(r) THEN 0 ELSE r.sn + 1,
                   !.Q = ~r.ONDELAY]
    ELSE r

Managed(r) ==
    IF Counting(r)
    THEN [r EXCEPT !.V = IF Ticks(r) THEN r.V + 1 ELSE r.V,
                   !.sn = IF Ticks(r) THEN 0 ELSE r.sn + 1,
                   !.Q = ~r.ONDELAY]
    ELSE IF r.START THEN [r EXCEPT !.Q = r.ONDELAY] ELSE r

AnyTicks == \E i \in Timer : Ticks(t[i])

BeginScan ==
    /\ phase = "host"
    /\ t' = [i \in Timer |-> Managed(t[i])]
    /\ tChanged' = AnyTicks
    /\ phase' = "tasks"
    /\ UNCHANGED changedT

-----------------------------------------------------------------------------
(* Instructions of the program, and the end of the scan.                   *)

StartCommand(i, on) ==
    /\ phase = "tasks"
    /\ t' = [t EXCEPT ![i].START = on]
    /\ UNCHANGED <<tChanged, changedT, phase>>

\* ST: contact() starts the timer whatever value the accumulator holds.
Contact(i, val) == StartCommand(i, TRUE)
Set(i)          == StartCommand(i, TRUE)
Reset(i)        == StartCommand(i, FALSE)

\* BUG FORM of EndScan: the pending bit of an earlier scan is dropped.
EndScanForgets ==
    /\ phase = "tasks"
    /\ changedT' = tChanged
    /\ tChanged' = FALSE
    /\ phase' = "host"
    /\ UNCHANGED t

\* plc_func adds its bits to those the host has not taken yet.
EndScan ==
    /\ phase = "tasks"
    /\ changedT' = (changedT \/ tChanged)
    /\ tChanged' = FALSE
    /\ phase' = "host"
    /\ UNCHANGED t

-----------------------------------------------------------------------------
(* Calls of the host between scans.                                        *)

\* plc_reset_update; plc_start and plc_stop overwrite the mask likewise.
ResetUpdate ==
    /\ phase = "host"
    /\ changedT' = FALSE
    /\ UNCHANGED <<t, tChanged, phase>>

Configure(i, r) ==
    /\ phase = "host" /\ Reconfigure
    /\ t' = [t EXCEPT ![i] = r]
    /\ UNCHANGED <<tChanged, changedT, phase>>

ConfigureScale(i, s)  == Configure(i, [t[i] EXCEPT !.S = s])
ConfigurePreset(i, p) == Configure(i, [t[i] EXCEPT !.P = p])
ConfigureDelay(i, on) == Configure(i, [t[i] EXCEPT !.ONDELAY = on])

Program == \E i \in Timer : Set(i) \/ Reset(i)
                            \/ \E val \in BOOLEAN : Contact(i, val)

Configuration ==
    \E i \in Timer : \/ \E s \in Scales : ConfigureScale(i, s)
                     \/ \E p \in Presets : ConfigurePreset(i, p)
                     \/ \E on \in BOOLEAN : ConfigureDelay(i, on)

Next == BeginScan \/ Program \/ EndScan \/ ResetUpdate \/ Configuration

Spec == Init /\ [][Next]_vars

-----------------------------------------------------------------------------
(* Properties.                                                             *)

\* Values stay naturals of the configured timers.
TypeOK ==
    /\ t \in [Timer -> TimerRecord]
    /\ tChanged \in BOOLEAN /\ changedT \in BOOLEAN
    /\ phase \in {"host", "tasks"}
=============================================================================
