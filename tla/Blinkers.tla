------------------------------ MODULE Blinkers ------------------------------
(***************************************************************************)
(* The blinkers p->s[0 .. ns-1] (src/src/vm/plclib.c): manage_blinkers     *)
(* advances them at the start of every scan.  No instruction writes them.  *)
(***************************************************************************)
EXTENDS Integers

CONSTANTS
    Blinker,      \* blinker indexes, 0 .. ns-1
    Scales,       \* values the host configures for S; 0: not set up
    Reconfigure   \* TRUE: the host configures blinkers between scans too


VARIABLES
    s,         \* [Blinker -> record of struct blink]
    sChanged,  \* s_changed, the local of plc_func; FALSE between calls
    changedS,  \* the CHANGED_S bit of p->update
    phase      \* "host", or "tasks" while plc_func runs the rungs

vars == <<s, sChanged, changedS, phase>>

BlinkRecord == [Q : BOOLEAN, S : Scales, sn : Nat]

Init ==
    /\ s \in [Blinker -> [Q : {FALSE}, S : Scales, sn : {0}]]
    /\ sChanged = FALSE
    /\ changedS = FALSE
    /\ phase = "host"

\* BUG FORM of Toggles: the comparison that a timer makes.
TogglesLikeTimer(r) == r.S > 0 /\ r.sn >= r.S

Toggles(r) == r.S > 0 /\ r.sn > r.S

\* BUG FORM of Managed: the output is raised and never lowered.
ManagedOnlyRaises(r) ==
    IF Toggles(r) THEN [r EXCEPT !.Q = TRUE, !.sn = 0]
    ELSE IF r.S > 0 THEN [r EXCEPT !.sn = r.sn + 1] ELSE r

Managed(r) ==
    IF Toggles(r) THEN [r EXCEPT !.Q = ~r.Q, !.sn = 0]
    ELSE IF r.S > 0 THEN [r EXCEPT !.sn = r.sn + 1] ELSE r

\* manage_blinkers.
BeginScan ==
    /\ phase = "host"
    /\ s' = [b \in Blinker |-> Managed(s[b])]
    /\ sChanged' = \E b \in Blinker : Toggles(s[b])
    /\ phase' = "tasks"
    /\ UNCHANGED changedS

\* BUG FORM of EndScan: the pending bit of an earlier scan is dropped.
EndScanForgets ==
    /\ phase = "tasks"
    /\ changedS' = sChanged
    /\ sChanged' = FALSE
    /\ phase' = "host"
    /\ UNCHANGED s

EndScan ==
    /\ phase = "tasks"
    /\ changedS' = (changedS \/ sChanged)
    /\ sChanged' = FALSE
    /\ phase' = "host"
    /\ UNCHANGED s

\* plc_reset_update; plc_start and plc_stop overwrite the mask likewise.
ResetUpdate ==
    /\ phase = "host"
    /\ changedS' = FALSE
    /\ UNCHANGED <<s, sChanged, phase>>

ConfigureScale(b, x) ==
    /\ phase = "host" /\ Reconfigure
    /\ s' = [s EXCEPT ![b].S = x]
    /\ UNCHANGED <<sChanged, changedS, phase>>

Configuration == \E b \in Blinker, x \in Scales : ConfigureScale(b, x)

-----------------------------------------------------------------------------
\* The fields keep their types.
TypeOK ==
    /\ s \in [Blinker -> BlinkRecord]
    /\ sChanged \in BOOLEAN /\ changedS \in BOOLEAN
    /\ phase \in {"host", "tasks"}
=============================================================================
