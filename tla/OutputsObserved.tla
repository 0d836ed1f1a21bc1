-------------------------- MODULE OutputsObserved --------------------------
(***************************************************************************)
(* The digital outputs of a PLC that the host starts, stops and loads with *)
(* programs, and whose scans may fail, with what an observer remembers of  *)
(* them: what the hardware drove when the host last looked, the bytes the  *)
(* program has stored in the scan, and how the PLC came to rest.           *)
(***************************************************************************)
EXTENDS Outputs

VARIABLES
    status,        \* p->status; all negative values are "ERROR"
    changedStatus, \* the CHANGED_STATUS bit of p->update
    shown,         \* [Byte -> SUBSET Bit], field as the host last saw it,
                   \* recorded up to the first stop
    stored,        \* bytes the program has stored in this scan
    stopped,       \* the host has stopped the PLC once
    dark           \* the PLC was never started, or stopped and not started since

observed == <<status, changedStatus, shown, stored, stopped, dark>>
allvars == <<vars, observed>>

InitObserved ==
    /\ Init
    /\ status = "STOPPED"
    /\ changedStatus = FALSE
    /\ shown = field
    /\ stored = {}
    /\ stopped = FALSE
    /\ dark = TRUE

\* plc_start and plc_stop set the mask to CHANGED_STATUS alone, of a PLC that
\* is stopped, or that runs; in other states they leave everything alone.
HostStarts ==
    /\ status = "STOPPED" /\ ResetUpdate
    /\ status' = "RUNNING"
    /\ changedStatus' = TRUE
    /\ dark' = FALSE
    /\ UNCHANGED <<shown, stored, stopped>>

HostStops ==
    /\ status = "RUNNING" /\ Stop
    /\ status' = "STOPPED"
    /\ changedStatus' = TRUE
    /\ stopped' = TRUE
    /\ dark' = TRUE
    /\ shown' = Cleared
    /\ UNCHANGED stored

\* Between scans the host loads a program, whose outcome is the status of the
\* PLC (PLC_OK is ST_STOPPED), or its hardware fails to start: neither the
\* outputs nor the mask are touched, be the PLC running or not.
StatusSet(outcome) ==
    /\ phase = "host"
    /\ status' = outcome
    /\ UNCHANGED <<vars, changedStatus, shown, stored, stopped, dark>>

HostLoads == StatusSet("STOPPED") \/ StatusSet("ERROR")
StartFails == StatusSet("ERROR")

\* The host reads the registers and resets the mask.
HostLooks ==
    /\ ResetUpdate
    /\ shown' = IF stopped THEN shown ELSE field
    /\ changedStatus' = FALSE
    /\ UNCHANGED <<status, stored, stopped, dark>>

ScanObserved ==
    /\ status = "RUNNING" /\ BeginScan
    /\ stored' = {}
    /\ UNCHANGED <<status, changedStatus, shown, stopped, dark>>

\* Coils leave the buffer alone; a byte store fills some of its bytes.
StoreObserved ==
    /\ \E i, offs \in Byte : \E val \in [0 .. offs -> SUBSET Bit] :
          /\ StoreBytes(i, offs, val)
          /\ stored' = stored \cup (i .. i + offs)
    /\ UNCHANGED <<status, changedStatus, shown, stopped, dark>>

\* The result of the rungs becomes the status once the scan is complete.
ScanEnds ==
    /\ EndScan
    /\ status' \in {status, "ERROR"}
    /\ stored' = {}     \* forgotten
    /\ UNCHANGED <<changedStatus, shown, stopped, dark>>

NextObserved ==
    \/ HostStarts \/ HostStops \/ HostLooks \/ HostLoads \/ StartFails
    \/ ScanObserved \/ StoreObserved \/ ScanEnds
    \/ (CoilInstruction \/ Masking) /\ UNCHANGED observed

-----------------------------------------------------------------------------
(* Properties.                                                             *)

\* Up to the first stop, while the mask is silent the hardware drives what the
\* host saw last: a change is not lost when the next one comes before it looks.
OutputsAnnounced ==
    phase = "host" /\ ~stopped => changedO \/ changedStatus \/ shown = field

\* Once plc_stop has stopped a running PLC, and before the first start, nothing
\* is driven until it is started again, whatever is loaded or fails in between.
\* (Outputs stay on when a load or an error ends the run instead.)
StoppedIsDark == dark => field = Cleared

\* Of every scan: the masks rule a byte that it has not stored.
MasksRule ==
    EndScan => 0 \in stored \/ \A j \in Bit :
       /\ dq[j].N_MASK => j \notin field'[0]
       /\ dq[j].MASK /\ ~dq[j].N_MASK => j \in field'[0]
=============================================================================
