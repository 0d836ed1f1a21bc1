---------------------------- MODULE PlcObserved ----------------------------
(***************************************************************************)
(* A PLC with what its host has last seen of it.                           *)
(***************************************************************************)
EXTENDS Plc

VARIABLES
    shown,    \* what the host reads, as it last saw it
    behind    \* plc_stop has left the saved outputs behind: the host has not
              \* looked yet since a scan has saved them again

allvars == <<vars, shown, behind>>

\* What a host displays of the registers that the update mask is about.  The
\* values of memory registers, which the program stores, raise no bit of it.
Display == [inputs  |-> inputs,
            outputs |-> outputs,
            pulses  |-> [c \in Counter |-> m[c].PULSE],
            values  |-> [i \in Timer |-> t[i].V],
            blinks  |-> [b \in Blinker |-> s[b].Q]]

InitObserved ==
    /\ Init
    /\ shown = Display /\ behind = FALSE

\* plclite's main loop: look when the mask is not 0, and reset it.
HostLooks ==
    /\ ResetUpdate
    /\ shown' = Display
    /\ behind' = (behind /\ outputs # oldOutputs)

\* plc_stop clears the outputs and leaves the saved ones as they are.
HostStopsIt ==
    /\ Stop
    /\ behind' = TRUE
    /\ UNCHANGED shown

NextObserved ==
    \/ HostLooks \/ HostStopsIt
    \/ /\ Scan \/ Starts \/ StopWithoutHardware \/ Load \/ Rejects \/ HostSets
       /\ UNCHANGED <<shown, behind>>

SpecObserved == InitObserved /\ [][NextObserved]_allvars

-----------------------------------------------------------------------------
(* Properties.                                                             *)

Silent == ~(changedI \/ changedO \/ changedM \/ changedT \/ changedS \/ changedStatus)

\* A host that looks only when the update mask is not 0 misses no digital input
\* or output, no pulse of a register, no value of a timer and no toggle of a
\* blinker, though scans fail, programs are loaded, and the PLC is stopped and
\* started in between.  Of the outputs that is said until plc_stop, and again
\* when the host has looked after the next scan has saved them: changes of that
\* scan may escape it (plc_stop, save_state, plc_start, plc_reset_update).
SilenceMeansSame ==
    phase = "host" /\ Silent =>
        shown = IF behind THEN [Display EXCEPT !.outputs = shown.outputs] ELSE Display
=============================================================================
