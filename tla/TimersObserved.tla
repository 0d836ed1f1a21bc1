--------------------------- MODULE TimersObserved ---------------------------
(***************************************************************************)
(* The timers of a running PLC with what an observer remembers of them:    *)
(* how many scans each has counted, and what the host saw when it last     *)
(* read the registers.  The properties that relate a timer to its past     *)
(* are stated here.                                                        *)
(***************************************************************************)
EXTENDS Timers

VARIABLES
    ran,       \* [Timer -> Nat], scans in which each timer has counted
    shown      \* [Timer -> [V, Q]], as the host last saw them

observed == <<ran, shown>>
allvars == <<vars, observed>>

InitObserved ==
    /\ Init
    /\ ran = [i \in Timer |-> 0]
    /\ shown = [i \in Timer |-> [V |-> 0, Q |-> FALSE]]

ScanObserved ==
    /\ BeginScan
    /\ ran' = [i \in Timer |-> IF Counting(t[i]) THEN ran[i] + 1 ELSE ran[i]]
    /\ UNCHANGED shown

\* The host reads the registers and resets the mask.
HostLooks ==
    /\ ResetUpdate
    /\ shown' = [i \in Timer |-> [V |-> t[i].V, Q |-> t[i].Q]]
    /\ UNCHANGED ran

NextObserved ==
    \/ ScanObserved
    \/ HostLooks
    \/ (Program \/ EndScan \/ Configuration) /\ UNCHANGED observed

\* A running PLC: the host's loop calls plc_func again and again, and each of
\* its scans ends (a rung that does not is the concern of module Task).
Fairness == WF_allvars(ScanObserved) /\ WF_allvars(EndScan /\ UNCHANGED observed)

SpecObserved == InitObserved /\ [][NextObserved]_allvars /\ Fairness

-----------------------------------------------------------------------------
(* Properties.                                                             *)

\* The number of counting scans after which the value has reached the preset.
Delay(i) == t[i].P * (t[i].S + 1)

\* A timer's value and scale counter record exactly the scans it has counted,
\* however often the program stops and starts it: none is lost and none is
\* counted twice.  A value takes S + 1 of them (manage_timers), and not the S that
\* are documented, see ScaleIsPeriod of Clocks.
TicksAccount ==
    \A i \in Timer : /\ t[i].V * (t[i].S + 1) + t[i].sn = ran[i]
                     /\ t[i].sn <= t[i].S
                     /\ t[i].V <= t[i].P

\* Of an on-delay timer the output is never on before the whole delay has been
\* counted; an off-delay timer that has begun to count loses its output only
\* when the whole delay has been counted.
NeverEarly ==
    \A i \in Timer :
        /\ t[i].ONDELAY /\ t[i].Q => ran[i] = Delay(i)
        /\ ~t[i].ONDELAY /\ ~t[i].Q /\ ran[i] > 0 => ran[i] = Delay(i)

\* While the update mask does not tell the host that timers have changed, the
\* values it read last are still the values of the timers.
TicksAnnounced ==
    phase = "host" => changedT \/ \A i \in Timer : shown[i].V = t[i].V

\* A timer that stays started ends up with the output of its delay mode.
Fires ==
    \A i \in Timer : <>[](t[i].START) => <>[](t[i].Q = t[i].ONDELAY)
=============================================================================
