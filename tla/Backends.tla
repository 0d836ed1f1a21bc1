------------------------------ MODULE Backends ------------------------------
(***************************************************************************)
(* The hardware back ends (src/src/hw) under the calls of plclib.c.  What  *)
(* a back end needs to read and write is a set of resources: the lines of  *)
(* gpiod, the device of comedi, the port permission of uspace, the files   *)
(* of the simulation; the dry one needs nothing.  Data that pass are left  *)
(* to modules Inputs and Outputs.                                          *)
(***************************************************************************)
EXTENDS Integers, Sequences

CONSTANTS
    Kinds,     \* the back ends that may be chosen
    Lines      \* gpiod lines in the order in which they are requested

VARIABLES
    kind,      \* the back end of this PLC
    needed,    \* resources that its reading and writing use
    held,      \* resources that it holds
    taken,     \* lines that other processes hold
    closed     \* history: the files of the simulation have been closed

backend == <<kind, needed, held, taken, closed>>

LineSet == {Lines[k] : k \in DOMAIN Lines}

\* hw_config, with a configuration in order; but a file of the simulation that
\* has no name or cannot be opened is left out.  Only the simulation acquires
\* anything here.
ConfigureGpiod  == kind = "gpiod"  /\ needed = LineSet /\ held = {}
ConfigureComedi == kind = "comedi" /\ needed = {"device"} /\ held = {}
ConfigureUspace == kind = "uspace" /\ needed = {"ports"} /\ held = {}
ConfigureSim    == kind = "sim"    /\ needed \in SUBSET {"input", "output"} /\ held = needed
ConfigureDry    == kind = "dry"    /\ needed = {} /\ held = {}

Init ==
    /\ kind \in Kinds
    /\ ConfigureGpiod \/ ConfigureComedi \/ ConfigureUspace \/ ConfigureSim \/ ConfigureDry
    /\ taken \in SUBSET LineSet
    /\ closed = FALSE

-----------------------------------------------------------------------------
(* enable, with its result.                                                *)

\* A line that anyone holds, this back end too, cannot be requested.
Blocked == {k \in DOMAIN Lines : Lines[k] \in taken \cup held}
RequestedBefore == {k \in DOMAIN Lines : \A b \in Blocked : k < b}

\* BUG FORM of EnableGpiod: a failure closes the chip, with all its lines.
EnableGpiodReleases(ok) ==
    /\ kind = "gpiod"
    /\ ok = (Blocked = {})
    /\ held' = IF ok THEN LineSet ELSE {}

\* BUG FORM of EnableGpiod: goes on after a failure, and returns the result of
\* the last request.
EnableGpiodLastResult(ok) ==
    /\ kind = "gpiod"
    /\ ok = (Len(Lines) \notin Blocked)
    /\ held' = held \cup (LineSet \ taken)

\* gpiod_enable: outputs, then inputs, up to the first that fails.
EnableGpiod(ok) ==
    /\ kind = "gpiod"
    /\ ok = (Blocked = {})
    /\ held' = held \cup {Lines[k] : k \in RequestedBefore}

\* com_enable: the driver opens its device or does not.
EnableComedi(ok) == kind = "comedi" /\ held' = IF ok THEN needed ELSE {}

\* usp_enable: permission is granted or refused.
EnableUspace(ok) == kind = "uspace" /\ held' = IF ok THEN needed ELSE held

\* sim_enable allocates buffers and opens nothing.
EnableSim(ok) == kind = "sim" /\ ok /\ UNCHANGED held
EnableDry(ok) == kind = "dry" /\ ok /\ UNCHANGED held

Enable(ok) ==
    /\ EnableGpiod(ok) \/ EnableComedi(ok) \/ EnableUspace(ok) \/ EnableSim(ok) \/ EnableDry(ok)
    /\ UNCHANGED <<kind, needed, taken, closed>>

\* Output lines are requested with the value 0, and usp_enable writes a 0.
Clears(ok) == \/ kind = "gpiod" /\ 1 \in RequestedBefore
              \/ kind = "uspace" /\ ok

-----------------------------------------------------------------------------
(* disable and fetch.                                                      *)

DisableGpiod  == kind = "gpiod" /\ held' = {} /\ UNCHANGED closed
DisableComedi == kind = "comedi" /\ held' = {} /\ UNCHANGED closed
DisableUspace == kind = "uspace" /\ held' \in {{}, held} /\ UNCHANGED closed
DisableDry    == kind = "dry" /\ UNCHANGED <<held, closed>>

\* sim_disable: the pointers to the closed files are kept and used again.
DisableSim == kind = "sim" /\ held' = {} /\ closed' = TRUE

Disable ==
    /\ DisableGpiod \/ DisableComedi \/ DisableUspace \/ DisableSim \/ DisableDry
    /\ UNCHANGED <<kind, needed, taken>>

\* sim_fetch reads on, or from the start again at the end of the file; after
\* a failure it disables and enables.
Fetch ==
    \/ UNCHANGED backend
    \/ "input" \in held /\ DisableSim /\ UNCHANGED <<kind, needed, taken>>

-----------------------------------------------------------------------------
\* Other processes request and release lines.
OthersTake ==
    /\ \E l \in LineSet \ (held \cup taken) : taken' = taken \cup {l}
    /\ UNCHANGED <<kind, needed, held, closed>>

OthersRelease ==
    /\ \E l \in taken : taken' = taken \ {l}
    /\ UNCHANGED <<kind, needed, held, closed>>
=============================================================================
