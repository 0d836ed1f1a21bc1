------------------------------- MODULE Clocks -------------------------------
(***************************************************************************)
(* The timers and the blinkers of one PLC (src/src/vm/plclib.c): they      *)
(* share the scan, manage_timers before manage_blinkers, and the update    *)
(* mask that the host reads and resets.  plc_new is told how many of each  *)
(* there are; registers the host does not set up are inert.                *)
(***************************************************************************)
EXTENDS TimersObserved

CONSTANTS
    Blinker,         \* blinker indexes
    BlinkerScales    \* values the host configures for S of a blinker; 0: not set up

ASSUME BlinkerScalesAssumption == BlinkerScales \subseteq Nat

VARIABLES s, sChanged, changedS, since, blinksShown   \* module BlinkersObserved

B == INSTANCE BlinkersObserved WITH Scales <- BlinkerScales, shown <- blinksShown

blinks == <<s, sChanged, changedS, since, blinksShown>>
clocks == <<allvars, blinks>>

ScanClocks == ScanObserved /\ B!ScanObserved
EndScanClocks == EndScan /\ B!EndScan /\ UNCHANGED <<observed, since, blinksShown>>
LookAtClocks == HostLooks /\ B!HostLooks
RunRungs == Program /\ UNCHANGED <<observed, blinks>>

\* One kind of register is in use, and coils are executed of timers that are
\* set up: what is checked of the one kind does not depend on the other.
InitClocks ==
    /\ InitObserved /\ B!InitObserved
    /\ (\A b \in Blinker : s[b].S = 0) \/ (\A i \in Timer : t[i].P = 0 /\ t[i].S = 0)

ProgramClocks == (\A b \in Blinker : s[b].S = 0) /\ RunRungs

NextClocks == ScanClocks \/ EndScanClocks \/ LookAtClocks \/ ProgramClocks

\* Timers and blinkers of any configuration beside each other.
SpecBeside ==
    /\ InitObserved /\ B!InitObserved
    /\ [][NextClocks \/ RunRungs]_clocks

-----------------------------------------------------------------------------
\* Two toggles of a blinker that is set up are exactly one period apart, and no
\* scan in which one is due goes by without it.  The period is the S + 2 scans of
\* manage_blinkers, and not the S that are documented, see ScaleIsPeriod.
BlinkPeriod ==
    [][ScanClocks => \A b \in Blinker : s[b].S > 0 =>
          (s'[b].Q # s[b].Q <=> since[b] + 1 = B!Period(b))]_clocks

\* No value of a timer and no toggle of a blinker is hidden, by the scans that
\* follow it, from a host that looks when the mask has the bit of its kind.
ClocksAnnounced == TicksAnnounced /\ B!TogglesAnnounced

\* plclib.h of the scale of a timer: "S=1000=>increase every 1000 cycles", and
\* of a blinker: "S=1000=>toggle every 1000 cycles".  One of them at least keeps
\* what is said of its kind: the value has increased once in S counted scans, or
\* the output has toggled in S scans.
TimerIsBehind(i) == t[i].S > 0 /\ t[i].V < t[i].P /\ t[i].V < ran[i] \div t[i].S
BlinkerIsLate(b) == s[b].S > 0 /\ since[b] >= s[b].S
ScaleIsPeriod ==
    (\A i \in Timer : ~TimerIsBehind(i)) \/ (\A b \in Blinker : ~BlinkerIsLate(b))

\* A blinker that is set up goes on and off for ever.
Blinks ==
    \A b \in Blinker : []<>(s[b].S = 0 \/ s[b].Q) /\ []<>(s[b].S = 0 \/ ~s[b].Q)
=============================================================================
