---------------------------- MODULE TimersProofs ----------------------------
(***************************************************************************)
(* Proofs about the timers and the blinkers, for any number of them, any   *)
(* scales and presets and any program of timer coils.  The accounting of   *)
(* scans is proved of timers that are configured before the first scan.    *)
(***************************************************************************)
EXTENDS Times, TLAPS

USE ScalesAssumption, PresetsAssumption, BlinkerScalesAssumption

LEMMA ManagedType ==
    ASSUME NEW r \in TimerRecord
    PROVE  /\ Managed(r) \in TimerRecord
           /\ Ticks(r) \in BOOLEAN
           /\ Counting(r) \in BOOLEAN
  <1>1. Ticks(r) \in BOOLEAN /\ Counting(r) \in BOOLEAN
    BY DEF Ticks, Counting
  <1>2. r.V + 1 \in Nat /\ r.sn + 1 \in Nat
    <2>1. r.V \in Nat /\ r.sn \in Nat
      BY DEF TimerRecord
    <2> QED
      BY <2>1
  <1>3. Managed(r) \in TimerRecord
    BY <1>2 DEF Managed, TimerRecord
  <1> QED
    BY <1>1, <1>3

LEMMA TypeInit == Init => TypeOK
  <1>1. [S : Scales, sn : {0}, V : {0}, P : Presets, Q : {FALSE},
         ONDELAY : BOOLEAN, START : {FALSE}] \subseteq TimerRecord
    <2>1. 0 \in Nat
      OBVIOUS
    <2> QED
      BY <2>1, Zenon DEF TimerRecord
  <1> QED
    BY <1>1 DEF Init, TypeOK

LEMMA TypeStep == TypeOK /\ [Next]_vars => TypeOK'
  <1> SUFFICES ASSUME TypeOK, [Next]_vars PROVE TypeOK'
    OBVIOUS
  <1> USE DEF TypeOK
  <1>1. CASE BeginScan
    <2>1. t' \in [Timer -> TimerRecord]
      BY <1>1, ManagedType DEF BeginScan
    <2>2. tChanged' \in BOOLEAN
      BY <1>1 DEF BeginScan, AnyTicks
    <2> QED
      BY <1>1, <2>1, <2>2 DEF BeginScan
  <1>2. ASSUME NEW i \in Timer, NEW on \in BOOLEAN, StartCommand(i, on)
        PROVE  TypeOK'
    <2>1. [t[i] EXCEPT !.START = on] \in TimerRecord
      BY DEF TimerRecord
    <2> QED
      BY <1>2, <2>1 DEF StartCommand
  <1>3. CASE EndScan
    BY <1>3 DEF EndScan
  <1>4. CASE ResetUpdate
    BY <1>4 DEF ResetUpdate
  <1>5. ASSUME NEW i \in Timer, NEW r \in TimerRecord, Configure(i, r)
        PROVE  TypeOK'
    BY <1>5 DEF Configure
  <1>6. CASE Configuration
    <2>1. PICK i \in Timer : \/ \E x \in Scales : ConfigureScale(i, x)
                             \/ \E p \in Presets : ConfigurePreset(i, p)
                             \/ \E on \in BOOLEAN : ConfigureDelay(i, on)
      BY <1>6 DEF Configuration
    <2>2. /\ \A x \in Scales : [t[i] EXCEPT !.S = x] \in TimerRecord
          /\ \A p \in Presets : [t[i] EXCEPT !.P = p] \in TimerRecord
          /\ \A on \in BOOLEAN : [t[i] EXCEPT !.ONDELAY = on] \in TimerRecord
      BY DEF TimerRecord
    <2> QED
      BY <1>5, <2>1, <2>2 DEF ConfigureScale, ConfigurePreset, ConfigureDelay
  <1>7. CASE Program
    BY <1>2, <1>7 DEF Program, Contact, Set, Reset
  <1>8. CASE UNCHANGED vars
    BY <1>8 DEF vars
  <1> QED
    BY <1>1, <1>3, <1>4, <1>6, <1>7, <1>8 DEF Next

\* Every field of every timer keeps its type.
THEOREM TimersType == Spec => []TypeOK
  BY TypeInit, TypeStep, PTL DEF Spec

-----------------------------------------------------------------------------
(* The account of the scans.                                               *)

\* What an on- or off-delay timer has to say about its output.
OutputFits(r, n) ==
    /\ r.ONDELAY /\ r.Q => r.V = r.P
    /\ ~r.ONDELAY /\ ~r.Q /\ n > 0 => r.V = r.P

\* The account of one timer that has counted in n scans.  The last conjunct
\* says that the scale counter stands still when the preset is reached.
Account(r, n) ==
    /\ r.V * (r.S + 1) + r.sn = n
    /\ r.sn <= r.S
    /\ r.V <= r.P
    /\ r.V = r.P => r.sn = 0
    /\ OutputFits(r, n)

LEMMA Distributes ==
    ASSUME NEW v \in Nat, NEW k \in Nat
    PROVE  (v + 1) * (k + 1) = v * (k + 1) + k + 1 /\ v * (k + 1) \in Nat
  OBVIOUS

\* A scan keeps the account of a timer.
LEMMA ManagedAccount ==
    ASSUME NEW r \in TimerRecord, NEW n \in Nat, Account(r, n)
    PROVE  Account(Managed(r), IF Counting(r) THEN n + 1 ELSE n)
  <1> USE DEF TimerRecord
  <1>0. r.S \in Nat /\ r.P \in Nat /\ r.V \in Nat /\ r.sn \in Nat
    OBVIOUS
  <1>a. r.sn <= r.S /\ r.V <= r.P
    BY DEF Account
  <1>1. CASE Ticks(r)
    <2>1. r.sn = r.S /\ r.V < r.P /\ r.START
      BY <1>0, <1>a, <1>1 DEF Ticks, Counting
    <2>2. Managed(r) = [r EXCEPT !.V = r.V + 1, !.sn = 0, !.Q = ~r.ONDELAY]
      BY <1>1 DEF Managed, Ticks
    <2>3. (r.V + 1) * (r.S + 1) = n + 1
      BY <1>0, <2>1, Distributes DEF Account
    <2>4. /\ Managed(r).V = r.V + 1 /\ Managed(r).sn = 0 /\ Managed(r).S = r.S
          /\ Managed(r).P = r.P /\ Managed(r).ONDELAY = r.ONDELAY
          /\ Managed(r).Q = ~r.ONDELAY
      BY <2>2
    <2>5. OutputFits(Managed(r), n + 1)
      BY <2>4 DEF OutputFits
    <2> QED
      BY <1>0, <1>1, <2>1, <2>3, <2>4, <2>5 DEF Account, Ticks
  <1>2. CASE Counting(r) /\ ~Ticks(r)
    <2>1. r.sn < r.S /\ r.V < r.P
      BY <1>0, <1>2 DEF Ticks, Counting
    <2>2. Managed(r) = [r EXCEPT !.V = r.V, !.sn = r.sn + 1, !.Q = ~r.ONDELAY]
      BY <1>2 DEF Managed
    <2>3. /\ Managed(r).V = r.V /\ Managed(r).sn = r.sn + 1 /\ Managed(r).S = r.S
          /\ Managed(r).P = r.P /\ Managed(r).ONDELAY = r.ONDELAY
          /\ Managed(r).Q = ~r.ONDELAY
      BY <2>2
    <2>4. OutputFits(Managed(r), n + 1)
      BY <2>3 DEF OutputFits
    <2>5. r.V * (r.S + 1) + (r.sn + 1) = n + 1
      BY <1>0, Distributes DEF Account
    <2> QED
      BY <1>0, <1>2, <2>1, <2>3, <2>4, <2>5 DEF Account
  <1>3. CASE ~Counting(r) /\ r.START
    <2>1. r.V = r.P
      BY <1>0, <1>a, <1>3 DEF Counting
    <2>2. Managed(r) = [r EXCEPT !.Q = r.ONDELAY]
      BY <1>3 DEF Managed
    <2>3. OutputFits(Managed(r), n)
      BY <2>1, <2>2 DEF OutputFits
    <2> QED
      BY <1>3, <2>2, <2>3 DEF Account
  <1>4. CASE ~Counting(r) /\ ~r.START
    BY <1>4 DEF Managed
  <1> QED
    BY <1>1, <1>2, <1>3, <1>4 DEF Ticks

Accounts == ran \in [Timer -> Nat] /\ \A i \in Timer : Account(t[i], ran[i])

LEMMA AccountsInit == InitObserved => Accounts
  <1> SUFFICES ASSUME InitObserved, NEW i \in Timer PROVE Account(t[i], ran[i])
    BY DEF InitObserved, Accounts
  <1>1. t[i] \in TimerRecord /\ ran[i] = 0
    BY TypeInit DEF InitObserved, TypeOK
  <1>2. t[i].V = 0 /\ t[i].sn = 0 /\ t[i].Q = FALSE
    BY DEF InitObserved, Init
  <1>3. \A k \in Nat : 0 * (k + 1) + 0 = 0
    OBVIOUS
  <1>4. t[i].S \in Nat /\ t[i].P \in Nat
    BY <1>1 DEF TimerRecord
  <1>5. t[i].V * (t[i].S + 1) + t[i].sn = ran[i]
    BY <1>1, <1>2, <1>3, <1>4
  <1>6. t[i].sn <= t[i].S /\ t[i].V <= t[i].P
    BY <1>2, <1>4
  <1> QED
    BY <1>1, <1>2, <1>5, <1>6 DEF Account, OutputFits

\* The steps of timers that are not reconfigured.
RunStep == ScanObserved \/ HostLooks \/ ((Program \/ EndScan) /\ UNCHANGED observed)

LEMMA AccountsStep == TypeOK /\ Accounts /\ [RunStep]_allvars => Accounts'
  <1> SUFFICES ASSUME TypeOK, Accounts, [RunStep]_allvars
               PROVE  Accounts'
    OBVIOUS
  <1> USE DEF TypeOK, Accounts
  <1>1. CASE ScanObserved
    <2>1. \A i \in Timer : t'[i] = Managed(t[i])
                           /\ ran'[i] = IF Counting(t[i]) THEN ran[i] + 1 ELSE ran[i]
      BY <1>1 DEF ScanObserved, BeginScan
    <2>2. ran' \in [Timer -> Nat]
      BY <1>1 DEF ScanObserved
    <2>3. \A i \in Timer : Account(t'[i], ran'[i])
      BY <2>1, ManagedAccount
    <2> QED
      BY <2>2, <2>3
  <1>2. CASE HostLooks
    BY <1>2 DEF HostLooks, ResetUpdate
  <1>3. ASSUME NEW i \in Timer, NEW on \in BOOLEAN, StartCommand(i, on), UNCHANGED ran
        PROVE  Accounts'
    <2>1. \A j \in Timer : Account(t'[j], ran[j])
      <3> SUFFICES ASSUME NEW j \in Timer PROVE Account(t'[j], ran[j])
        OBVIOUS
      <3>1. t'[j] = IF j = i THEN [t[i] EXCEPT !.START = on] ELSE t[j]
        BY <1>3 DEF StartCommand
      <3>2. t[j] \in TimerRecord
        OBVIOUS
      <3> QED
        BY <3>1, <3>2 DEF Account, OutputFits, TimerRecord
    <2> QED
      BY <1>3, <2>1
  <1>4. CASE Program /\ UNCHANGED observed
    BY <1>3, <1>4 DEF Program, Contact, Set, Reset, observed
  <1>5. CASE EndScan /\ UNCHANGED observed
    BY <1>5 DEF EndScan, observed
  <1>6. CASE UNCHANGED allvars
    BY <1>6 DEF allvars, vars, observed
  <1> QED
    BY <1>1, <1>2, <1>4, <1>5, <1>6 DEF RunStep

LEMMA RunsUnlessConfigured == ~Reconfigure /\ NextObserved => RunStep
  BY DEF NextObserved, RunStep, Configuration, ConfigureScale, ConfigurePreset,
         ConfigureDelay, Configure

\* A step of the observed timers is a step of the timers.
LEMMA ObservedStep == [NextObserved]_allvars => [Next]_vars
  BY DEF NextObserved, ScanObserved, HostLooks, allvars, Next

LEMMA AccountHolds == ~Reconfigure => (SpecObserved => [](TypeOK /\ Accounts))
  <1> SUFFICES ASSUME ~Reconfigure PROVE SpecObserved => [](TypeOK /\ Accounts)
    OBVIOUS
  <1>1. InitObserved => TypeOK /\ Accounts
    BY TypeInit, AccountsInit DEF InitObserved
  <1>2. TypeOK /\ Accounts /\ [NextObserved]_allvars => (TypeOK /\ Accounts)'
    BY TypeStep, AccountsStep, ObservedStep, RunsUnlessConfigured
  <1> QED
    BY <1>1, <1>2, PTL DEF SpecObserved

\* What the account says of the properties.
LEMMA AccountNeverEarly == TypeOK /\ Accounts => NeverEarly
  <1> SUFFICES ASSUME TypeOK, Accounts, NEW i \in Timer, t[i].V = t[i].P
               PROVE  ran[i] = Delay(i)
    BY DEF NeverEarly, Accounts, Account, OutputFits
  <1>1. t[i] \in TimerRecord /\ t[i].sn = 0
    BY DEF TypeOK, Accounts, Account
  <1>2. t[i].P * (t[i].S + 1) \in Nat
    BY <1>1, Distributes DEF TimerRecord
  <1> QED
    BY <1>1, <1>2 DEF Accounts, Account, Delay

\* The value and the scale counter of a timer account for every scan it has
\* counted, however its coils start and stop it.
THEOREM TimersTicksAccount == ~Reconfigure => (SpecObserved => []TicksAccount)
  <1> SUFFICES ASSUME ~Reconfigure PROVE SpecObserved => []TicksAccount
    OBVIOUS
  <1>1. SpecObserved => [](TypeOK /\ Accounts)
    BY AccountHolds
  <1>2. Accounts => TicksAccount
    BY DEF Accounts, Account, TicksAccount
  <1> QED
    BY <1>1, <1>2, PTL

\* An on-delay output is never on, and an off-delay output of a timer that has
\* begun to count never off, before the whole delay has been counted.
THEOREM TimersNeverEarly == ~Reconfigure => (SpecObserved => []NeverEarly)
  <1> SUFFICES ASSUME ~Reconfigure PROVE SpecObserved => []NeverEarly
    OBVIOUS
  <1>1. SpecObserved => [](TypeOK /\ Accounts)
    BY AccountHolds
  <1> QED
    BY <1>1, AccountNeverEarly, PTL

-----------------------------------------------------------------------------
(* Timers and blinkers of one PLC.                                         *)

LEMMA ClocksRun == [NextClocks]_clocks => [RunStep]_allvars
  <1>1. NextClocks => RunStep \/ UNCHANGED allvars
    BY DEF NextClocks, ScanClocks, EndScanClocks, LookAtClocks, ProgramClocks, RunRungs, RunStep
  <1> QED
    BY <1>1 DEF clocks

LEMMA RunObserved == [RunStep]_allvars => [Next]_vars
  BY DEF RunStep, ScanObserved, HostLooks, allvars, Next

\* Beside the clock, which leaves registers alone.
LEMMA TimesClocks == [NextTimes]_times => [NextClocks]_clocks
  BY DEF NextTimes, ByScans, ByClock, times

LEMMA TimesRun == [NextTimes]_times => [RunStep]_allvars
  BY TimesClocks, ClocksRun

LEMMA ClocksAccount == SpecTimes => [](TypeOK /\ Accounts)
  <1>1. InitTimes => TypeOK /\ Accounts
    BY TypeInit, AccountsInit DEF InitTimes, InitClocks, InitObserved
  <1>2. TypeOK /\ Accounts /\ [NextTimes]_times => (TypeOK /\ Accounts)'
    BY TypeStep, AccountsStep, TimesRun, RunObserved
  <1> QED
    BY <1>1, <1>2, PTL DEF SpecTimes

\* Beside blinkers, and read by a host, timers keep the account of their scans
\* and change no output early, for any scales and presets.
THEOREM ClocksTimers == SpecTimes => [](TicksAccount /\ NeverEarly)
  <1>1. Accounts => TicksAccount
    BY DEF Accounts, Account, TicksAccount
  <1> QED
    BY <1>1, ClocksAccount, AccountNeverEarly, PTL

\* A scan changes no value without t_changed.
LEMMA ManagedValue ==
    ASSUME NEW r \in TimerRecord, ~Ticks(r)
    PROVE  Managed(r).V = r.V
  BY DEF Managed, TimerRecord

\* The values the host does not know are announced, or will be at the end of
\* this scan.
TicksKnown ==
    changedT \/ (phase = "tasks" /\ tChanged) \/ \A i \in Timer : shown[i].V = t[i].V

LEMMA TicksKnownStep == TypeOK /\ TicksKnown /\ [RunStep]_allvars => TicksKnown'
  <1> SUFFICES ASSUME TypeOK, TicksKnown, [RunStep]_allvars PROVE TicksKnown'
    OBVIOUS
  <1> USE DEF TypeOK, TicksKnown
  <1>1. CASE ScanObserved
    <2>1. CASE AnyTicks
      BY <1>1, <2>1 DEF ScanObserved, BeginScan
    <2>2. CASE ~AnyTicks
      <3>1. \A i \in Timer : t'[i].V = t[i].V
        BY <1>1, <2>2, ManagedValue DEF ScanObserved, BeginScan, AnyTicks
      <3> QED
        BY <1>1, <3>1 DEF ScanObserved, BeginScan
    <2> QED
      BY <2>1, <2>2
  <1>2. CASE HostLooks
    BY <1>2 DEF HostLooks, ResetUpdate
  <1>3. CASE Program /\ UNCHANGED observed
    <2>1. PICK i \in Timer, on \in BOOLEAN : StartCommand(i, on)
      BY <1>3 DEF Program, Contact, Set, Reset
    <2>2. \A j \in Timer : t'[j].V = t[j].V
      BY <2>1 DEF StartCommand, TimerRecord
    <2> QED
      BY <1>3, <2>1, <2>2 DEF StartCommand, observed
  <1>4. CASE EndScan /\ UNCHANGED observed
    BY <1>4 DEF EndScan, observed
  <1>5. CASE UNCHANGED allvars
    BY <1>5 DEF allvars, vars, observed
  <1> QED
    BY <1>1, <1>2, <1>3, <1>4, <1>5 DEF RunStep

-----------------------------------------------------------------------------
(* Blinkers.                                                               *)

LEMMA BlinkManaged ==
    ASSUME NEW r \in B!BlinkRecord
    PROVE  /\ B!Managed(r) \in B!BlinkRecord
           /\ B!Managed(r).S = r.S
           /\ B!Managed(r).Q # r.Q <=> B!Toggles(r)
           /\ r.S > 0 => B!Managed(r).sn = IF B!Toggles(r) THEN 0 ELSE r.sn + 1
  <1>1. r.S \in BlinkerScales /\ r.sn \in Nat
    BY DEF B!BlinkRecord
  <1>2. r.S \in Nat
    BY <1>1 DEF BlinkerScalesAssumption
  <1>3. r.sn + 1 \in Nat
    BY <1>1
  <1> QED
    BY <1>1, <1>2, <1>3 DEF B!BlinkRecord, B!Managed, B!Toggles

\* since and sn count the same scans of a blinker that is set up, and no more
\* than its period has.
Blinking ==
    /\ B!TypeOK
    /\ since \in [Blinker -> Nat]
    /\ \A b \in Blinker : s[b].S > 0 => since[b] = s[b].sn /\ s[b].sn <= s[b].S + 1

\* Toggles that the host does not know are announced, or will be.
TogglesKnown ==
    \/ changedS
    \/ phase = "tasks" /\ sChanged
    \/ \A b \in Blinker : blinksShown[b] = s[b].Q

LEMMA BlinkStepKinds ==
    [NextClocks]_clocks =>
        ScanClocks \/ EndScanClocks \/ LookAtClocks \/ (UNCHANGED blinks /\ phase' = phase)
  <1>1. ProgramClocks => UNCHANGED blinks /\ phase' = phase
    BY DEF ProgramClocks, RunRungs, Program, Set, Reset, Contact, StartCommand
  <1>2. UNCHANGED clocks => UNCHANGED blinks /\ phase' = phase
    BY DEF clocks, allvars, vars
  <1> QED
    BY <1>1, <1>2 DEF NextClocks

LEMMA BlinkInit == InitClocks => Blinking /\ TogglesKnown
  <1> SUFFICES ASSUME InitClocks PROVE Blinking /\ TogglesKnown
    OBVIOUS
  <1> USE DEF InitClocks, B!InitObserved, B!Init
  <1>1. s \in [Blinker -> B!BlinkRecord]
    <2>1. 0 \in Nat
      OBVIOUS
    <2>2. [Q : {FALSE}, S : BlinkerScales, sn : {0}] \subseteq B!BlinkRecord
      BY <2>1, Zenon DEF B!BlinkRecord
    <2> QED
      BY <2>2
  <1>2. \A b \in Blinker : s[b].S \in Nat /\ s[b].sn = 0 /\ s[b].Q = FALSE
    OBVIOUS
  <1>3. \A b \in Blinker : blinksShown[b] = s[b].Q /\ since[b] = s[b].sn
    BY <1>2
  <1>4. since \in [Blinker -> Nat] /\ \A b \in Blinker : s[b].sn <= s[b].S + 1
    BY <1>2
  <1>5. sChanged \in BOOLEAN /\ changedS \in BOOLEAN /\ phase \in {"host", "tasks"}
    OBVIOUS
  <1> QED
    BY <1>1, <1>3, <1>4, <1>5 DEF Blinking, TogglesKnown, B!TypeOK

\* One blinker in one scan.
LEMMA BlinkScan ==
    ASSUME NEW r \in B!BlinkRecord, NEW n \in Nat,
           r.S > 0, n = r.sn, r.sn <= r.S + 1
    PROVE  /\ B!Toggles(r) <=> n + 1 = r.S + 2
           /\ ~B!Toggles(r) => n < r.S + 2 /\ r.sn + 1 <= r.S + 1
  <1>1. r.S \in Nat /\ r.sn \in Nat
    BY DEF B!BlinkRecord, BlinkerScalesAssumption
  <1> QED
    BY <1>1 DEF B!Toggles

LEMMA BlinkingScan ==
    ASSUME Blinking, ScanClocks
    PROVE  /\ Blinking'
           /\ \A b \in Blinker : /\ s'[b] = B!Managed(s[b])
                                 /\ s'[b].Q # s[b].Q <=> B!Toggles(s[b])
  <1> USE DEF Blinking, B!TypeOK
  <1>1. \A b \in Blinker : /\ s[b] \in B!BlinkRecord
                           /\ s'[b] = B!Managed(s[b])
                           /\ s'[b].Q # s[b].Q <=> B!Toggles(s[b])
    BY BlinkManaged DEF ScanClocks, B!ScanObserved, B!BeginScan
  <1>2. /\ s' \in [Blinker -> B!BlinkRecord]
        /\ sChanged' \in BOOLEAN /\ changedS' \in BOOLEAN
        /\ phase' \in {"host", "tasks"}
    BY BlinkManaged DEF ScanClocks, B!ScanObserved, B!BeginScan
  <1>3. ASSUME NEW b \in Blinker
        PROVE  /\ since'[b] = IF B!Toggles(s[b]) THEN 0
                              ELSE IF s[b].S > 0 /\ since[b] < s[b].S + 2
                                   THEN since[b] + 1 ELSE since[b]
               /\ since'[b] \in Nat
    <2>1. since'[b] = IF s'[b].Q # s[b].Q THEN 0
                      ELSE IF s[b].S > 0 /\ since[b] < s[b].S + 2
                           THEN since[b] + 1 ELSE since[b]
      BY DEF ScanClocks, B!ScanObserved, B!Period
    <2> QED
      BY <1>1, <2>1
  <1>4. since' \in [Blinker -> Nat]
    <2>1. since' = [b \in Blinker |-> since'[b]]
      BY DEF ScanClocks, B!ScanObserved
    <2> QED
      BY <1>3, <2>1
  <1>5. ASSUME NEW b \in Blinker, s'[b].S > 0
        PROVE  since'[b] = s'[b].sn /\ s'[b].sn <= s'[b].S + 1
    <2>1. s'[b].S = s[b].S /\ s[b].S \in Nat /\ s[b].sn \in Nat
      BY <1>1, BlinkManaged DEF B!BlinkRecord, BlinkerScalesAssumption
    <2>2. s'[b].sn = IF B!Toggles(s[b]) THEN 0 ELSE s[b].sn + 1
      BY <1>1, <1>5, <2>1, BlinkManaged
    <2>3. since[b] = s[b].sn /\ s[b].sn <= s[b].S + 1
      BY <1>5, <2>1
    <2>4. ~B!Toggles(s[b]) => since[b] < s[b].S + 2 /\ s[b].sn + 1 <= s[b].S + 1
      BY <1>1, <1>5, <2>1, <2>3, BlinkScan
    <2> QED
      BY <1>3, <1>5, <2>1, <2>2, <2>3, <2>4
  <1> QED
    BY <1>1, <1>2, <1>4, <1>5

LEMMA BlinkingStep == Blinking /\ [NextClocks]_clocks => Blinking'
  <1> SUFFICES ASSUME Blinking, [NextClocks]_clocks PROVE Blinking'
    OBVIOUS
  <1>1. CASE ScanClocks
    BY <1>1, BlinkingScan
  <1>2. CASE EndScanClocks
    BY <1>2 DEF EndScanClocks, B!EndScan, Blinking, B!TypeOK
  <1>3. CASE LookAtClocks
    BY <1>3 DEF LookAtClocks, B!HostLooks, B!ResetUpdate, Blinking, B!TypeOK
  <1>4. CASE UNCHANGED blinks /\ phase' = phase
    BY <1>4 DEF blinks, Blinking, B!TypeOK
  <1> QED
    BY <1>1, <1>2, <1>3, <1>4, BlinkStepKinds

LEMMA TogglesKnownStep ==
    Blinking /\ TogglesKnown /\ [NextClocks]_clocks => TogglesKnown'
  <1> SUFFICES ASSUME Blinking, TogglesKnown, [NextClocks]_clocks PROVE TogglesKnown'
    OBVIOUS
  <1> USE DEF TogglesKnown
  <1>1. CASE ScanClocks
    <2>1. \A b \in Blinker : s'[b].Q # s[b].Q <=> B!Toggles(s[b])
      BY <1>1, BlinkingScan
    <2> QED
      BY <1>1, <2>1 DEF ScanClocks, B!ScanObserved, B!BeginScan
  <1>2. CASE EndScanClocks
    BY <1>2 DEF EndScanClocks, B!EndScan, Blinking, B!TypeOK
  <1>3. CASE LookAtClocks
    BY <1>3 DEF LookAtClocks, B!HostLooks, B!ResetUpdate
  <1>4. CASE UNCHANGED blinks /\ phase' = phase
    BY <1>4 DEF blinks
  <1> QED
    BY <1>1, <1>2, <1>3, <1>4, BlinkStepKinds

LEMMA BlinkingAlways == SpecTimes => [](Blinking /\ TogglesKnown)
  <1>1. InitTimes => Blinking /\ TogglesKnown
    BY BlinkInit DEF InitTimes
  <1>2. Blinking /\ TogglesKnown /\ [NextTimes]_times => (Blinking /\ TogglesKnown)'
    BY TimesClocks, BlinkingStep, TogglesKnownStep
  <1> QED
    BY <1>1, <1>2, PTL DEF SpecTimes

\* Two toggles of a blinker are exactly S + 2 scans apart, for any scale, and
\* none that is due is passed over (manage_blinkers).
THEOREM ClocksBlinkPeriod == SpecTimes => BlinkPeriod
  <1>1. Blinking /\ [NextClocks]_clocks =>
          [ScanClocks => \A b \in Blinker : s[b].S > 0 =>
             (s'[b].Q # s[b].Q <=> since[b] + 1 = B!Period(b))]_clocks
    <2> SUFFICES ASSUME Blinking, ScanClocks, NEW b \in Blinker, s[b].S > 0
                 PROVE  s'[b].Q # s[b].Q <=> since[b] + 1 = B!Period(b)
      OBVIOUS
    <2>1. /\ s[b] \in B!BlinkRecord /\ since[b] \in Nat
          /\ since[b] = s[b].sn /\ s[b].sn <= s[b].S + 1
      BY DEF Blinking, B!TypeOK
    <2>2. B!Toggles(s[b]) <=> since[b] + 1 = s[b].S + 2
      BY <2>1, BlinkScan
    <2> QED
      BY <2>2, BlinkingScan DEF B!Period
  <1> QED
    BY <1>1, BlinkingAlways, TimesClocks, PTL DEF SpecTimes, BlinkPeriod

\* A host that looks when the mask has the bit of the timers or of the blinkers
\* knows every value and every output, for any number of them (manage_timers,
\* manage_blinkers, the update mask of plc_func).
THEOREM ClocksAreAnnounced == SpecTimes => []ClocksAnnounced
  <1>1. InitTimes => TicksKnown
    <2> SUFFICES ASSUME InitClocks, NEW i \in Timer PROVE shown[i].V = t[i].V
      BY DEF TicksKnown, InitTimes
    <2>1. t[i].V = 0
      BY DEF InitClocks, InitObserved, Init
    <2>2. shown[i].V = 0
      BY DEF InitClocks, InitObserved
    <2> QED
      BY <2>1, <2>2
  <1>2. TypeOK /\ TicksKnown /\ [NextTimes]_times => TicksKnown'
    BY TicksKnownStep, TimesRun
  <1>3. TicksKnown /\ TogglesKnown => ClocksAnnounced
    BY DEF TicksKnown, TogglesKnown, ClocksAnnounced, TicksAnnounced, B!TogglesAnnounced
  <1> QED
    BY <1>1, <1>2, <1>3, ClocksAccount, BlinkingAlways, PTL DEF SpecTimes
=============================================================================
