------------------------------- MODULE Times -------------------------------
(***************************************************************************)
(* The two measures that a PLC has of time (src/src/vm/plclib.c): timers   *)
(* and blinkers count scans, which plc_func paces, and whose tasks it cuts *)
(* off, by the clock.  Neither reads what the other writes: what is set up *)
(* is one or the other here.                                               *)
(***************************************************************************)
EXTENDS Clocks, Pacing

VARIABLE counts    \* "scans", module Clocks; "clock", module Pacing

times == <<clocks, pacedvars, counts>>

InitTimes ==
    /\ InitClocks /\ InitPacing
    /\ counts \in {"scans", "clock"}
    /\ counts = "scans" => clock = 0
    /\ counts = "clock" => /\ \A i \in Timer : t[i].P = 0 /\ t[i].S = 0 /\ t[i].ONDELAY
                           /\ \A b \in Blinker : s[b].S = 0

\* Of each action, what is left alone.
ByScans(Action) == counts = "scans" /\ Action /\ UNCHANGED <<pacedvars, counts>>
ByClock(Action) == counts = "clock" /\ Action /\ UNCHANGED <<clocks, counts>>

NextTimes == ByScans(NextClocks) \/ ByClock(NextPacing)

\* A running PLC: the host's loop calls plc_func again and again, and each of
\* its scans ends; a rung that may not end is the concern of module Task, whose
\* fairness is that of Pacing here.
SpecTimes ==
    /\ InitTimes /\ [][NextTimes]_times
    /\ WF_times(ByScans(ScanClocks)) /\ WF_times(ByScans(EndScanClocks))
    /\ WF_times(ByClock(CutRung)) /\ WF_times(ByClock(LeaveRung))
    /\ WF_times(ByClock(EnterRung)) /\ WF_times(ByClock(EndTasks))
    /\ WF_times(ByClock(InstructIn(1 .. MaxTime)))
=============================================================================
