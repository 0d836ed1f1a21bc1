-------------------------------- MODULE Host --------------------------------
(***************************************************************************)
(* A PLC on its hardware: the calls of a host (plclite is one) to plclib,  *)
(* each with what it does to the back end it was given.  The back end      *)
(* decides whether enable succeeds, which module Plc leaves open.  The     *)
(* process may be interrupted at any time, and the same host is started    *)
(* again: a new PLC, with the same configuration, on the old plant.        *)
(***************************************************************************)
EXTENDS Plc

CONSTANTS Kinds, Lines

\* HARDWARES, of those that plc_get_hardware knows.
Hardwares == {"dry", "sim", "comedi", "uspace", "gpiod"}
ASSUME KindsAssumption == Kinds \subseteq Hardwares

VARIABLES
    kind, needed, held, taken, closed,     \* module Backends
    fresh,     \* the registers that the host has configured, before any scan
    left       \* history: an interrupted process has left outputs on, and the
               \* hardware has not been enabled since

H == INSTANCE Backends

backend == <<kind, needed, held, taken, closed>>
hostvars == <<vars, backend, fresh, left>>

InitHost ==
    /\ Init /\ H!Init /\ (kind = "gpiod" \/ taken = {})
    /\ fresh = [inputs |-> inputs, di |-> di, outputs |-> outputs, dq |-> dq,
                m |-> m, t |-> t, s |-> s, pulses |-> oldPulse]
    /\ left = FALSE

HostStarts ==
    \E ok \in BOOLEAN :
        /\ \/ /\ hw /\ H!Enable(ok)
              /\ field' = IF H!Clears(ok) THEN O!Cleared ELSE field
           \/ ~hw /\ UNCHANGED <<backend, field>>
        /\ Start(ok) \/ StartAgain(ok) \/ StartFails(ok)

HostStops ==
    \/ Stop /\ H!Disable
    \/ StopWithoutHardware /\ UNCHANGED backend

\* plc_func: the scan begins with fetch.
HostScans ==
    \/ BeginScan /\ H!Fetch
    \/ /\ \/ Instruction \/ EndScan
          \/ \E result \in {"OK", "ERROR"} : TaskReturns(result)
       /\ UNCHANGED backend

Others == kind = "gpiod" /\ (H!OthersTake \/ H!OthersRelease) /\ UNCHANGED vars

-----------------------------------------------------------------------------
(* The end of a process, and the next one.                                 *)

\* plc_clear frees the registers, with the masks and limits of the host; those
\* of a new PLC are as they were when the first one began.
RegistersAnew ==
    /\ inputs' = fresh.inputs /\ di' = fresh.di
    /\ outputs' = fresh.outputs /\ dq' = fresh.dq
    /\ m' = fresh.m /\ t' = fresh.t /\ s' = fresh.s
    /\ iChanged' = FALSE /\ tChanged' = FALSE /\ sChanged' = FALSE

\* plc_copy
OldRegistersAnew ==
    oldInputs' = fresh.inputs /\ oldOutputs' = fresh.outputs /\ oldPulse' = fresh.pulses

MaskAnew ==
    /\ changedI' = FALSE /\ changedO' = FALSE /\ changedM' = FALSE
    /\ changedT' = FALSE /\ changedS' = FALSE /\ changedStatus' = FALSE

\* plc_destroy_rungs
RungsAnew == rungno' = 0 /\ loaded' = 0 /\ rung' = 0 /\ rv' = "OK"

\* What a process holds is released when it ends.
BackendAnew ==
    /\ held' = IF kind = "sim" THEN needed ELSE {}
    /\ closed' = FALSE
    /\ UNCHANGED <<kind, needed, taken>>

\* The signal handler of plclite neither stops the PLC nor disables its
\* hardware, in the middle of a scan or between scans.
Interrupted ==
    /\ RegistersAnew /\ OldRegistersAnew /\ MaskAnew /\ RungsAnew /\ BackendAnew
    /\ phase' = "host" /\ status' = "STOPPED" /\ enabled' = FALSE
    /\ left' = (field # O!Cleared)
    /\ UNCHANGED <<hw, field, fresh>>

Called ==
    \/ HostStarts \/ HostStops \/ HostScans \/ Others
    \/ (Load \/ Rejects \/ ResetUpdate \/ HostSets) /\ UNCHANGED backend

NextHost ==
    \/ Called /\ left' = (left /\ ~enabled') /\ UNCHANGED fresh
    \/ Interrupted

SpecHost == InitHost /\ [][NextHost]_hostvars

-----------------------------------------------------------------------------
\* Scans, and outputs that are on, are only found on enabled hardware, in
\* whatever order the host starts, stops, loads and fails to start: but for the
\* outputs that an interrupted process has left on, until the next process has
\* the hardware enabled.
OnlyEnabledDrives ==
    /\ status = "RUNNING" => hw /\ enabled
    /\ field # O!Cleared => (hw /\ enabled) \/ left

\* ut-init.h: of a PLC in error, "stop should have no effect".  Nothing but
\* loading a program, or the end of the process, ends the error, and until then
\* the outputs are held as the last scan left them, whatever else the host
\* calls, unless it has the hardware enabled again.
ErrorHolds ==
    [][status = "ERROR" /\ ~Interrupted =>
          /\ status' = "ERROR" \/ Load
          /\ field' = field \/ \E ok \in BOOLEAN : StartAgain(ok) \/ StartFails(ok)]_hostvars

\* A running PLC holds everything that its scans and plc_stop use: none reads
\* or writes a line, device or port it does not hold, however often enable has
\* failed, was called twice, or other processes were faster.  The simulation
\* keeps this promise until its files have been closed once.
RunningHolds ==
    status = "RUNNING" /\ ~closed => needed \subseteq held

\* A PLC on gpiod that holds lines and does not run, because enable failed half
\* way or was called a second time, does not run again before its process ends:
\* enable is blocked by its own lines, and nothing releases them but plc_stop of
\* a running PLC.
HalfEnabledIsFinal ==
    [][kind = "gpiod" /\ status # "RUNNING" /\ held # {} /\ ~Interrupted
          => status' # "RUNNING" /\ held \subseteq held']_hostvars
=============================================================================
