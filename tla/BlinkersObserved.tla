-------------------------- MODULE BlinkersObserved --------------------------
(***************************************************************************)
(* The blinkers of a running PLC with what an observer remembers of them:  *)
(* the scans since each has toggled, and the outputs the host saw last.    *)
(***************************************************************************)
EXTENDS Blinkers

VARIABLES
    since,     \* [Blinker -> Nat], scans since each last toggled, up to its period
    shown      \* [Blinker -> BOOLEAN], as the host last saw them

observed == <<since, shown>>
allvars == <<vars, observed>>

InitObserved ==
    /\ Init
    /\ since = [b \in Blinker |-> 0]
    /\ shown = [b \in Blinker |-> FALSE]

\* sn takes the values 0 .. S + 1 between two toggles.
Period(b) == s[b].S + 2

ScanObserved ==
    /\ BeginScan
    /\ since' = [b \in Blinker |-> IF s'[b].Q # s[b].Q THEN 0
                                   ELSE IF s[b].S > 0 /\ since[b] < Period(b)
                                   THEN since[b] + 1
                                   ELSE since[b]]
    /\ UNCHANGED shown

\* The host reads the registers and resets the mask.
HostLooks ==
    /\ ResetUpdate
    /\ shown' = [b \in Blinker |-> s[b].Q]
    /\ UNCHANGED since

-----------------------------------------------------------------------------
\* A toggle is never hidden from the host by the scans that follow it.
TogglesAnnounced ==
    phase = "host" => changedS \/ \A b \in Blinker : shown[b] = s[b].Q
=============================================================================
