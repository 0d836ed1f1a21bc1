-------------------------------- MODULE Plc --------------------------------
(***************************************************************************)
(* A PLC as its host drives it (src/src/vm/plclib.c): plc_start, plc_stop, *)
(* plc_load_program_file, the configurators, forcing, plc_reset_update and *)
(* the scans of plc_func, in any order the host calls them.                *)
(*                                                                         *)
(* The registers are those of the component modules, which share phase;    *)
(* what is added here is the life cycle: status, the hardware, the rungs.  *)
(* All negative values of p->status are the one status "ERROR".            *)
(***************************************************************************)
EXTENDS Integers

CONSTANTS
    NI, NQ, BYTESIZE, Forcing, StoresBytes,  \* digital inputs and outputs
    Counter, VMod, Coils,                    \* memory registers
    Timer, TimerScales, Presets,             \* timers
    Blinker, BlinkerScales,                  \* blinkers
    Reconfigure,  \* TRUE: the host configures between scans too
    Stops,        \* TRUE: the host calls plc_stop
    Clearing,     \* TRUE: hardware that begins with cleared outputs
    MaxRung,      \* MAXRUNG: rungno is a byte, 256
    Loads         \* bound of the model: rungs the host loads

ASSUME StopsAssumption == Stops \in BOOLEAN /\ Clearing \in BOOLEAN
ASSUME RungsAssumption == MaxRung \in Nat \ {0} /\ Loads \in Nat
ASSUME RegistersAssumption ==
    /\ VMod \in Nat \ {0} /\ Coils \subseteq {"ST", "S", "R"}
    /\ TimerScales \subseteq Nat /\ Presets \subseteq Nat /\ BlinkerScales \subseteq Nat
    /\ Reconfigure \in BOOLEAN

VARIABLES
    inputs, di, oldInputs, iChanged, changedI,     \* module Inputs
    outputs, dq, oldOutputs, field, changedO,      \* module Outputs
    m, oldPulse, changedM,                         \* module Counters
    t, tChanged, changedT,                         \* module Timers
    s, sChanged, changedS,                         \* module Blinkers
    phase,         \* "host", or "tasks" while plc_func runs the rungs
    hw,            \* p->hw is not NULL
    enabled,       \* the hardware has been enabled and not disabled since
    status,        \* p->status
    changedStatus, \* the CHANGED_STATUS bit of p->update
    rungno,        \* p->rungno
    loaded,        \* history: rungs loaded so far
    rung,          \* i of all_tasks
    rv             \* rv of all_tasks

iVars == <<inputs, di, oldInputs, iChanged, changedI>>
oVars == <<outputs, dq, oldOutputs, field, changedO>>
mVars == <<m, oldPulse, changedM>>
tVars == <<t, tChanged, changedT>>
sVars == <<s, sChanged, changedS>>
registers == <<iVars, oVars, mVars, tVars, sVars>>
cycle == <<rung, rv>>
life == <<hw, enabled, status, changedStatus, rungno, loaded>>
vars == <<registers, phase, life, cycle>>

I == INSTANCE Inputs
O == INSTANCE Outputs
M == INSTANCE Counters
T == INSTANCE Timers WITH Scales <- TimerScales
B == INSTANCE Blinkers WITH Scales <- BlinkerScales

\* plc_new, with or without hardware, and the host's first configuration.
Init ==
    /\ I!Init /\ O!Init /\ M!Init /\ T!Init /\ B!Init
    /\ hw \in BOOLEAN
    /\ enabled = FALSE
    /\ status = "STOPPED" /\ changedStatus = FALSE
    /\ rungno = 0 /\ loaded = 0
    /\ rung = 0 /\ rv = "OK"

-----------------------------------------------------------------------------
(* The scan, plc_func of a running PLC.  In any other status it only       *)
(* sleeps.                                                                 *)

BeginScan ==
    /\ status = "RUNNING"
    /\ I!BeginScan /\ O!BeginScan /\ M!BeginScan /\ T!BeginScan /\ B!BeginScan
    /\ rung' = 0 /\ rv' = "OK"
    /\ UNCHANGED life

\* An instruction of the present rung that writes a register.
Instruction ==
    /\ rung < rungno
    /\ \/ O!Program /\ UNCHANGED <<iVars, mVars, tVars, sVars>>
       \/ M!Program /\ UNCHANGED <<iVars, oVars, tVars, sVars>>
       \/ T!Program /\ UNCHANGED <<iVars, oVars, mVars, sVars>>
    /\ UNCHANGED <<life, cycle>>

\* The task of the present rung returns; all_tasks goes on with the next rung
\* whatever it returned, and keeps its result alone.
TaskReturns(result) ==
    /\ phase = "tasks" /\ rung < rungno
    /\ rung' = rung + 1
    /\ rv' = result
    /\ UNCHANGED <<registers, phase, life>>

\* BUG FORM of EndScan: the scan that fails is not completed.
EndScanAborts ==
    /\ phase = "tasks" /\ rung = rungno
    /\ IF rv = "OK"
       THEN I!EndScan /\ O!EndScan /\ M!EndScan /\ T!EndScan /\ B!EndScan
       ELSE phase' = "host" /\ UNCHANGED registers
    /\ status' = IF rv = "OK" THEN status ELSE rv
    /\ rung' = 0 /\ rv' = "OK"
    /\ UNCHANGED <<hw, enabled, changedStatus, rungno, loaded>>

\* Outputs are written and the state is saved also if a rung failed.  With the
\* call of plc_func its locals and those of all_tasks are gone.
EndScan ==
    /\ phase = "tasks" /\ rung = rungno
    /\ I!EndScan /\ O!EndScan /\ M!EndScan /\ T!EndScan /\ B!EndScan
    /\ status' = IF rv = "OK" THEN status ELSE rv
    /\ rung' = 0 /\ rv' = "OK"
    /\ UNCHANGED <<hw, enabled, changedStatus, rungno, loaded>>

-----------------------------------------------------------------------------
(* Calls of the host between scans.                                        *)

ClearRegisterBits ==
    I!ResetUpdate /\ O!ResetUpdate /\ M!ResetUpdate /\ T!ResetUpdate /\ B!ResetUpdate

ResetUpdate ==
    /\ ClearRegisterBits
    /\ changedStatus' = FALSE
    /\ UNCHANGED <<hw, enabled, status, rungno, loaded, cycle>>

\* Some hardware begins with cleared outputs when it is enabled, even if that
\* fails half way.
EnableOutputs ==
    /\ field' = field \/ (Clearing /\ field' = O!Cleared)
    /\ UNCHANGED <<outputs, dq, oldOutputs>>

\* plc_start of a stopped PLC whose hardware is there and can be enabled.
Start(ok) ==
    /\ status = "STOPPED" /\ hw /\ ok
    /\ I!ResetUpdate /\ M!ResetUpdate /\ T!ResetUpdate /\ B!ResetUpdate
    /\ EnableOutputs /\ changedO' = FALSE
    /\ enabled' = TRUE
    /\ status' = "RUNNING"
    /\ changedStatus' = TRUE
    /\ UNCHANGED <<hw, rungno, loaded, cycle>>

\* plc_start in any other status enables the hardware all the same.
StartAgain(ok) ==
    /\ phase = "host"
    /\ status # "STOPPED" /\ hw /\ ok
    /\ enabled' = TRUE
    /\ EnableOutputs
    /\ UNCHANGED <<iVars, changedO, mVars, tVars, sVars, phase, hw, status,
                   changedStatus, rungno, loaded, cycle>>

StartFails(ok) ==
    /\ phase = "host"
    /\ ~(hw /\ ok)
    /\ status' = "ERROR"
    /\ EnableOutputs
    /\ UNCHANGED <<iVars, changedO, mVars, tVars, sVars, phase, hw, enabled,
                   changedStatus, rungno, loaded, cycle>>

\* BUG FORM of Stop: a PLC in error is stopped too, and its hardware disabled
\* before the outputs are cleared.
StopAlways ==
    /\ Stops /\ hw
    /\ status \in {"RUNNING", "ERROR"}
    /\ O!Stop
    /\ I!ResetUpdate /\ M!ResetUpdate /\ T!ResetUpdate /\ B!ResetUpdate
    /\ enabled' = FALSE
    /\ status' = "STOPPED"
    /\ changedStatus' = TRUE
    /\ UNCHANGED <<hw, rungno, loaded, cycle>>

\* BUG FORM of Stop: the outputs are left as they are.
StopNoClear ==
    /\ Stops /\ hw
    /\ status = "RUNNING"
    /\ ClearRegisterBits
    /\ enabled' = FALSE
    /\ status' = "STOPPED"
    /\ changedStatus' = TRUE
    /\ UNCHANGED <<hw, rungno, loaded, cycle>>

\* BUG FORM of Stop: the mask is cleared, and the host not told to look.
StopSilently ==
    /\ Stops /\ hw
    /\ status = "RUNNING"
    /\ O!Stop
    /\ I!ResetUpdate /\ M!ResetUpdate /\ T!ResetUpdate /\ B!ResetUpdate
    /\ enabled' = FALSE
    /\ status' = "STOPPED"
    /\ changedStatus' = FALSE
    /\ UNCHANGED <<hw, rungno, loaded, cycle>>

\* plc_stop has an effect on a running PLC only.
Stop ==
    /\ Stops /\ hw
    /\ status = "RUNNING"
    /\ O!Stop
    /\ I!ResetUpdate /\ M!ResetUpdate /\ T!ResetUpdate /\ B!ResetUpdate
    /\ enabled' = FALSE
    /\ status' = "STOPPED"
    /\ changedStatus' = TRUE
    /\ UNCHANGED <<hw, rungno, loaded, cycle>>

StopWithoutHardware ==
    /\ Stops /\ ~hw
    /\ phase = "host"
    /\ status' = "ERROR"
    /\ UNCHANGED <<registers, phase, hw, enabled, changedStatus, rungno, loaded, cycle>>

\* A parser has made a rung of the file; the outcome of its last pass is the
\* status of the PLC: PLC_OK is ST_STOPPED.
LoadRung(result) ==
    /\ phase = "host" /\ loaded < Loads
    /\ rungno' = (rungno + 1) % MaxRung
    /\ loaded' = loaded + 1
    /\ status' = result
    /\ UNCHANGED <<registers, phase, hw, enabled, changedStatus, cycle>>

\* plc_load_program_file cannot read the file or parse_ld_program its lines, or
\* the host passes a configurator a bad index or operand.
Rejects ==
    /\ phase = "host"
    /\ status' = "ERROR"
    /\ UNCHANGED <<registers, phase, hw, enabled, changedStatus, rungno, loaded, cycle>>

HostSets ==
    /\ \/ I!Masking /\ UNCHANGED <<oVars, mVars, tVars, sVars>>
       \/ Forcing /\ O!Masking /\ UNCHANGED <<iVars, mVars, tVars, sVars>>
       \/ M!Configuration /\ UNCHANGED <<iVars, oVars, tVars, sVars>>
       \/ T!Configuration /\ UNCHANGED <<iVars, oVars, mVars, sVars>>
       \/ B!Configuration /\ UNCHANGED <<iVars, oVars, mVars, tVars>>
    /\ UNCHANGED <<life, cycle>>

Load == LoadRung("STOPPED") \/ LoadRung("ERROR")

Starts == \E ok \in BOOLEAN : Start(ok) \/ StartAgain(ok) \/ StartFails(ok)

Life == Starts \/ Stop \/ StopWithoutHardware \/ Load \/ Rejects

Scan ==
    \/ BeginScan \/ Instruction \/ EndScan
    \/ \E result \in {"OK", "ERROR"} : TaskReturns(result)

Next == Scan \/ Life \/ ResetUpdate \/ HostSets

Spec == Init /\ [][Next]_vars
=============================================================================
