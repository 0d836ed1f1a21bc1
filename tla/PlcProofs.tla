----------------------------- MODULE PlcProofs ------------------------------
(***************************************************************************)
(* Proofs about the PLC as its host drives it: for any number of inputs,   *)
(* outputs, memory registers, timers and blinkers, any program, any order  *)
(* of scans, starts, loads and calls of the host; and about its back ends, *)
(* for any lines of the hardware and any other process that holds them.    *)
(***************************************************************************)
EXTENDS PlcObserved, Host, TLAPS

MP == INSTANCE CountersProofs WITH ruled <- FALSE, hit <- {}
TP == INSTANCE TimersProofs WITH
        Scales <- TimerScales, ran <- t, shown <- t, since <- s, blinksShown <- s,
        Rungs <- 0, InsNo <- 0, Timeout <- 1, Second <- 1, MaxTime <- 0, Horizon <- 1,
        MaxIO <- 0, Word <- 2,
        pc <- t, ip <- t, clock <- t, start <- t, delta <- t, elapsed <- t,
        runTime <- t, tp <- t, nap <- t, load <- t, age <- t, counts <- t

USE RegistersAssumption

-----------------------------------------------------------------------------
(* What the host does not know of each kind of register is announced, or   *)
(* will be when the scan under way ends.                                   *)

InputsKnown ==
    /\ iChanged \in BOOLEAN /\ changedI \in BOOLEAN
    /\ phase = "host" => oldInputs = inputs
    /\ phase = "tasks" => (iChanged <=> inputs # oldInputs)
    /\ changedI \/ changedStatus \/ shown.inputs = oldInputs

OutputsKnown ==
    /\ changedO \in BOOLEAN /\ behind \in BOOLEAN
    /\ phase = "host" => oldOutputs = outputs \/ behind
    /\ changedO \/ changedStatus \/ behind \/ shown.outputs = oldOutputs

PulsesKnown ==
    /\ M!TypeOK /\ M!PulseBaseline
    /\ changedM \/ changedStatus \/ shown.pulses = oldPulse

ValuesKnown ==
    /\ T!TypeOK
    /\ \/ changedT \/ changedStatus
       \/ phase = "tasks" /\ tChanged
       \/ shown.values = [i \in Timer |-> t[i].V]

BlinksKnown ==
    /\ B!TypeOK
    /\ \/ changedS \/ changedStatus
       \/ phase = "tasks" /\ sChanged
       \/ shown.blinks = [b \in Blinker |-> s[b].Q]

ShownIsDisplay ==
    shown = [inputs |-> shown.inputs, outputs |-> shown.outputs, pulses |-> shown.pulses,
             values |-> shown.values, blinks |-> shown.blinks]

Known ==
    /\ phase \in {"host", "tasks"} /\ changedStatus \in BOOLEAN
    /\ InputsKnown /\ OutputsKnown /\ PulsesKnown /\ ValuesKnown /\ BlinksKnown
    /\ ShownIsDisplay

-----------------------------------------------------------------------------
(* The steps of a PLC, as each register sees them.                         *)

\* Nothing that the host sees or that tells it to look.
Unseen == shown' = shown /\ behind' = behind /\ changedStatus' = changedStatus

\* The mask is overwritten: by a host that looks, or with the bit of the status.
Overwritten ==
    /\ phase = "host"
    /\ \/ /\ shown' = Display /\ changedStatus' = FALSE
          /\ outputs' = outputs /\ behind' = (behind /\ outputs # oldOutputs)
       \/ /\ shown' = shown /\ changedStatus' = TRUE
          /\ UNCHANGED <<outputs, behind>> \/ behind' = TRUE

\* Every step of a PLC is one of these of all registers.
BeginAll ==
    I!BeginScan /\ O!BeginScan /\ M!BeginScan /\ T!BeginScan /\ B!BeginScan /\ Unseen
EndAll ==
    I!EndScan /\ O!EndScan /\ M!EndScan /\ T!EndScan /\ B!EndScan /\ Unseen
OverwriteAll ==
    /\ I!ResetUpdate /\ M!ResetUpdate /\ T!ResetUpdate /\ B!ResetUpdate
    /\ changedO' = FALSE /\ oldOutputs' = oldOutputs
    /\ Overwritten
Touch ==
    /\ Unseen /\ phase' = phase
    /\ I!Masking \/ UNCHANGED iVars
    /\ O!Program \/ O!Masking \/ UNCHANGED <<outputs, dq, oldOutputs, changedO>>
    /\ M!Program \/ M!Configuration \/ UNCHANGED mVars
    /\ T!Program \/ T!Configuration \/ UNCHANGED tVars
    /\ B!Configuration \/ UNCHANGED sVars

LEMMA Keeps ==
    /\ O!Program => UNCHANGED <<oldOutputs, changedO, phase>> /\ phase = "tasks"
    /\ O!Masking => UNCHANGED <<outputs, oldOutputs, changedO, phase>>
    /\ I!Masking => UNCHANGED <<inputs, oldInputs, iChanged, changedI, phase>>
    /\ M!Program \/ M!Configuration => UNCHANGED <<oldPulse, changedM, phase>>
    /\ T!Program \/ T!Configuration => UNCHANGED <<tChanged, changedT, phase>>
    /\ B!Configuration => UNCHANGED <<sChanged, changedS, phase>>
  <1>1. O!Program => UNCHANGED <<oldOutputs, changedO, phase>> /\ phase = "tasks"
    BY DEF O!Program, O!CoilInstruction, O!Set, O!Reset, O!Contact, O!WriteCoil, O!StoreBytes
  <1>2. O!Masking => UNCHANGED <<outputs, oldOutputs, changedO, phase>>
    BY DEF O!Masking, O!Unforce, O!ForceTo, O!ForceCoil
  <1>3. I!Masking => UNCHANGED <<inputs, oldInputs, iChanged, changedI, phase>>
    BY DEF I!Masking, I!ForceTo, I!Unforce
  <1>4. M!Program \/ M!Configuration => UNCHANGED <<oldPulse, changedM, phase>>
    BY DEF M!Program, M!Store, M!StoreValue, M!Coil, M!Contact, M!Set, M!Reset,
           M!ExecuteCoil, M!Configuration, M!InitVariable, M!ConfigureReadonly,
           M!ConfigureDirection
  <1>5. T!Program \/ T!Configuration => UNCHANGED <<tChanged, changedT, phase>>
    BY DEF T!Program, T!Contact, T!Set, T!Reset, T!StartCommand, T!Configuration,
           T!ConfigureScale, T!ConfigurePreset, T!ConfigureDelay, T!Configure
  <1>6. B!Configuration => UNCHANGED <<sChanged, changedS, phase>>
    BY DEF B!Configuration, B!ConfigureScale
  <1> QED
    BY <1>1, <1>2, <1>3, <1>4, <1>5, <1>6

LEMMA StepKinds ==
    ASSUME [NextObserved]_allvars
    PROVE  BeginAll \/ EndAll \/ OverwriteAll \/ Touch
  <1>1. CASE HostLooks
    <2>1. /\ ResetUpdate /\ ClearRegisterBits /\ shown' = Display /\ changedStatus' = FALSE
          /\ behind' = (behind /\ outputs # oldOutputs)
      BY <1>1 DEF HostLooks, ResetUpdate
    <2>2. phase = "host" /\ changedO' = FALSE /\ UNCHANGED <<outputs, dq, oldOutputs>>
      BY <2>1 DEF ClearRegisterBits, O!ResetUpdate
    <2>3. Overwritten
      BY <2>1, <2>2 DEF Overwritten
    <2> QED
      BY <2>1, <2>2, <2>3 DEF ClearRegisterBits, OverwriteAll
  <1>2. CASE Scan /\ UNCHANGED <<shown, behind>>
    <2>1. BeginScan => BeginAll
      BY <1>2 DEF BeginScan, BeginAll, Unseen, life
    <2>2. EndScan => EndAll
      BY <1>2 DEF EndScan, EndAll, Unseen
    <2>3. ASSUME NEW r, TaskReturns(r) PROVE Touch
      BY <1>2, <2>3 DEF TaskReturns, Touch, Unseen, registers, oVars, life
    <2>4. Instruction => Touch
      BY <1>2, Keeps DEF Instruction, Touch, Unseen, oVars, life
    <2> QED
      BY <1>2, <2>1, <2>2, <2>3, <2>4 DEF Scan
  <1>3. CASE /\ Starts \/ StopWithoutHardware \/ Load \/ Rejects
             /\ UNCHANGED <<shown, behind>>
    <2>1. ASSUME NEW ok, Start(ok) PROVE OverwriteAll
      BY <1>3, <2>1 DEF Start, EnableOutputs, I!ResetUpdate, OverwriteAll, Overwritten
    <2>2. ASSUME NEW ok, StartAgain(ok) \/ StartFails(ok) PROVE Touch
      BY <1>3, <2>2 DEF StartAgain, StartFails, EnableOutputs, Touch, Unseen
    <2>3. StopWithoutHardware \/ Load \/ Rejects => Touch
      BY <1>3 DEF StopWithoutHardware, Load, LoadRung, Rejects, Touch, Unseen, registers, oVars
    <2> QED
      BY <1>3, <2>1, <2>2, <2>3 DEF Starts
  <1>4. CASE HostSets /\ UNCHANGED <<shown, behind>>
    BY <1>4, Keeps DEF HostSets, Touch, Unseen, oVars, life
  <1>5. CASE UNCHANGED allvars
    BY <1>5 DEF allvars, vars, registers, life, oVars, Touch, Unseen
  <1>6. CASE HostStopsIt
    BY <1>6 DEF HostStopsIt, Stop, O!Stop, OverwriteAll, Overwritten
  <1> QED
    BY <1>1, <1>2, <1>3, <1>4, <1>5, <1>6 DEF NextObserved

-----------------------------------------------------------------------------
(* Each kind of register.                                                  *)

LEMMA Displayed ==
    /\ Display.inputs = inputs /\ Display.outputs = outputs
    /\ Display.pulses = [c \in Counter |-> m[c].PULSE]
    /\ Display.values = [i \in Timer |-> t[i].V]
    /\ Display.blinks = [b \in Blinker |-> s[b].Q]
    /\ Display = [inputs |-> Display.inputs, outputs |-> Display.outputs,
                  pulses |-> Display.pulses, values |-> Display.values,
                  blinks |-> Display.blinks]
  BY DEF Display

LEMMA InputsStep ==
    ASSUME Known, BeginAll \/ EndAll \/ OverwriteAll \/ Touch
    PROVE  InputsKnown'
  <1> USE DEF Known, InputsKnown
  <1>1. CASE BeginAll
    BY <1>1 DEF BeginAll, I!BeginScan, Unseen
  <1>2. CASE EndAll
    BY <1>2 DEF EndAll, I!EndScan, Unseen
  <1>3. CASE OverwriteAll
    BY <1>3, Displayed DEF OverwriteAll, I!ResetUpdate, Overwritten
  <1>4. CASE Touch
    BY <1>4, Keeps DEF Touch, Unseen, iVars
  <1> QED
    BY <1>1, <1>2, <1>3, <1>4

LEMMA OutputsStep ==
    ASSUME Known, BeginAll \/ EndAll \/ OverwriteAll \/ Touch
    PROVE  OutputsKnown'
  <1> USE DEF Known, OutputsKnown
  <1>1. CASE BeginAll
    BY <1>1 DEF BeginAll, O!BeginScan, Unseen
  <1>2. CASE EndAll
    BY <1>2 DEF EndAll, O!EndScan, Unseen
  <1>3. CASE OverwriteAll
    <2>1. changedO' = FALSE /\ oldOutputs' = oldOutputs /\ phase = "host" /\ phase' = "host"
      BY <1>3 DEF OverwriteAll, I!ResetUpdate
    <2>2. CASE /\ shown' = Display /\ changedStatus' = FALSE
               /\ outputs' = outputs /\ behind' = (behind /\ outputs # oldOutputs)
      <3>1. shown'.outputs = outputs
        BY <2>2, Displayed
      <3>2. CASE outputs = oldOutputs
        BY <2>1, <2>2, <3>1, <3>2
      <3>3. CASE outputs # oldOutputs
        BY <2>1, <2>2, <3>3
      <3> QED
        BY <3>2, <3>3
    <2>3. CASE changedStatus' = TRUE /\ (UNCHANGED <<outputs, behind>> \/ behind' = TRUE)
      BY <2>1, <2>3
    <2> QED
      BY <1>3, <2>2, <2>3 DEF OverwriteAll, Overwritten
  <1>4. CASE Touch
    BY <1>4, Keeps DEF Touch, Unseen
  <1> QED
    BY <1>1, <1>2, <1>3, <1>4

LEMMA SameCounters ==
    /\ M!TypeOK <=> MP!TypeOK
    /\ M!TypeOK' <=> MP!TypeOK'
    /\ M!PulseBaseline <=> MP!PulseBaseline
    /\ M!PulseBaseline' <=> MP!PulseBaseline'
    /\ M!Next <=> MP!Next
  <1>1. /\ M!TypeOK <=> MP!TypeOK
        /\ M!TypeOK' <=> MP!TypeOK'
        /\ M!PulseBaseline <=> MP!PulseBaseline
        /\ M!PulseBaseline' <=> MP!PulseBaseline'
    BY DEF M!TypeOK, MP!TypeOK, M!Register, MP!Register, M!Value, MP!Value,
           M!PulseBaseline, MP!PulseBaseline
  <1>2. M!BeginScan <=> MP!BeginScan
    BY DEF M!BeginScan, MP!BeginScan, M!ReadMvar, MP!ReadMvar
  <1>3. M!Program <=> MP!Program
    BY DEF M!Program, MP!Program, M!Store, MP!Store, M!StoreValue, MP!StoreValue,
           M!Value, MP!Value, M!Coil, MP!Coil, M!Contact, MP!Contact, M!Set, MP!Set,
           M!Reset, MP!Reset, M!ExecuteCoil, MP!ExecuteCoil, M!SetCoil, MP!SetCoil,
           M!ResetCoil, MP!ResetCoil, M!Contacted, MP!Contacted
  <1>4. M!EndScan <=> MP!EndScan
    BY DEF M!EndScan, MP!EndScan, M!PulseChanged, MP!PulseChanged, M!WriteMvar,
           MP!WriteMvar, M!CheckPulse, MP!CheckPulse, M!Counted, MP!Counted
  <1>5. M!ResetUpdate <=> MP!ResetUpdate
    BY DEF M!ResetUpdate, MP!ResetUpdate
  <1>6. M!Configuration <=> MP!Configuration
    BY DEF M!Configuration, MP!Configuration, M!InitVariable, MP!InitVariable,
           M!ConfigureReadonly, MP!ConfigureReadonly, M!ConfigureDirection,
           MP!ConfigureDirection, M!Value, MP!Value
  <1> QED
    BY <1>1, <1>2, <1>3, <1>4, <1>5, <1>6 DEF M!Next, MP!Next

LEMMA PulsesStep ==
    ASSUME Known, BeginAll \/ EndAll \/ OverwriteAll \/ Touch
    PROVE  PulsesKnown'
  <1> USE DEF Known, PulsesKnown
  <1>1. [M!Next]_<<m, oldPulse, changedM, phase>>
    BY DEF M!Next, BeginAll, EndAll, OverwriteAll, Touch, mVars
  <1>2. M!TypeOK' /\ M!PulseBaseline'
    <2>1. MP!TypeOK /\ MP!PulseBaseline /\ [MP!Next]_MP!vars
      BY <1>1, SameCounters DEF MP!vars
    <2>2. MP!TypeOK' /\ MP!PulseBaseline'
      BY <2>1, MP!TypeStep, MP!BaselineStep DEF MP!VModAssumption
    <2> QED
      BY <2>2, SameCounters
  <1>3. CASE BeginAll
    BY <1>2, <1>3 DEF BeginAll, M!BeginScan, Unseen
  <1>4. CASE EndAll
    <2>1. CASE changedM \/ M!PulseChanged
      BY <1>2, <1>4, <2>1 DEF EndAll, M!EndScan, Unseen, M!TypeOK
    <2>2. CASE ~(changedM \/ M!PulseChanged)
      BY <1>2, <1>4, <2>2 DEF EndAll, M!EndScan, Unseen, M!TypeOK
    <2> QED
      BY <2>1, <2>2
  <1>5. CASE OverwriteAll
    <2>1. oldPulse = [c \in Counter |-> m[c].PULSE]
      BY <1>5 DEF Overwritten, OverwriteAll, M!TypeOK, M!PulseBaseline
    <2> QED
      BY <1>2, <1>5, <2>1, Displayed DEF OverwriteAll, M!ResetUpdate, Overwritten
  <1>6. CASE Touch
    BY <1>2, <1>6, Keeps DEF Touch, Unseen, mVars
  <1> QED
    BY <1>3, <1>4, <1>5, <1>6

LEMMA SameTimers ==
    /\ T!TypeOK <=> TP!TypeOK
    /\ T!TypeOK' <=> TP!TypeOK'
    /\ T!Next <=> TP!Next
    /\ T!TimerRecord = TP!TimerRecord
    /\ \A r : T!Managed(r) = TP!Managed(r) /\ (T!Ticks(r) <=> TP!Ticks(r))
  <1>1. /\ T!TypeOK <=> TP!TypeOK
        /\ T!TypeOK' <=> TP!TypeOK'
        /\ T!TimerRecord = TP!TimerRecord
    BY DEF T!TypeOK, TP!TypeOK, T!TimerRecord, TP!TimerRecord
  <1>2. \A r : T!Managed(r) = TP!Managed(r) /\ (T!Ticks(r) <=> TP!Ticks(r))
    BY DEF T!Managed, TP!Managed, T!Ticks, TP!Ticks, T!Counting, TP!Counting
  <1>3. T!BeginScan <=> TP!BeginScan
    BY <1>2 DEF T!BeginScan, TP!BeginScan, T!AnyTicks, TP!AnyTicks
  <1>4. T!Program <=> TP!Program
    BY DEF T!Program, TP!Program, T!Contact, TP!Contact, T!Set, TP!Set, T!Reset, TP!Reset,
           T!StartCommand, TP!StartCommand
  <1>5. T!EndScan <=> TP!EndScan
    BY DEF T!EndScan, TP!EndScan
  <1>6. T!ResetUpdate <=> TP!ResetUpdate
    BY DEF T!ResetUpdate, TP!ResetUpdate
  <1>7. T!Configuration <=> TP!Configuration
    BY DEF T!Configuration, TP!Configuration, T!ConfigureScale, TP!ConfigureScale,
           T!ConfigurePreset, TP!ConfigurePreset, T!ConfigureDelay, TP!ConfigureDelay,
           T!Configure, TP!Configure
  <1> QED
    BY <1>1, <1>2, <1>3, <1>4, <1>5, <1>6, <1>7 DEF T!Next, TP!Next

\* The program and the host's configuration leave the values of timers alone.
LEMMA ValuesKept ==
    ASSUME T!TypeOK, T!Program \/ T!Configuration
    PROVE  \A i \in Timer : t'[i].V = t[i].V
  <1> USE DEF T!TypeOK, T!TimerRecord
  <1>1. ASSUME NEW i \in Timer, NEW b, T!StartCommand(i, b)
        PROVE  \A j \in Timer : t'[j].V = t[j].V
    BY <1>1 DEF T!StartCommand
  <1>2. T!Program => \A j \in Timer : t'[j].V = t[j].V
    BY <1>1 DEF T!Program, T!Contact, T!Set, T!Reset
  <1>3. T!Configuration => \A j \in Timer : t'[j].V = t[j].V
    BY DEF T!Configuration, T!ConfigureScale, T!ConfigurePreset, T!ConfigureDelay,
           T!Configure
  <1> QED
    BY <1>2, <1>3

LEMMA ValuesStep ==
    ASSUME Known, BeginAll \/ EndAll \/ OverwriteAll \/ Touch
    PROVE  ValuesKnown'
  <1> USE DEF Known, ValuesKnown
  <1>1. [T!Next]_<<t, tChanged, changedT, phase>>
    BY DEF T!Next, BeginAll, EndAll, OverwriteAll, Touch, tVars
  <1>2. T!TypeOK'
    <2>1. TP!TypeOK /\ [TP!Next]_TP!vars
      BY <1>1, SameTimers DEF TP!vars
    <2>2. TP!TypeOK'
      BY <2>1, TP!TypeStep
         DEF TP!ScalesAssumption, TP!PresetsAssumption, TP!BlinkerScalesAssumption,
             TP!RungsAssumption, TP!TimeAssumption, TP!WordAssumption
    <2> QED
      BY <2>2, SameTimers
  <1>3. CASE BeginAll
    <2>1. CASE T!AnyTicks
      BY <1>2, <1>3, <2>1 DEF BeginAll, T!BeginScan
    <2>2. CASE ~T!AnyTicks
      <3>1. \A i \in Timer : t'[i].V = t[i].V
        BY <1>3, <2>2 DEF BeginAll, T!BeginScan, T!AnyTicks, T!Ticks, T!Managed,
                          T!TypeOK, T!TimerRecord
      <3> QED
        BY <1>2, <1>3, <3>1 DEF BeginAll, T!BeginScan, Unseen
    <2> QED
      BY <2>1, <2>2
  <1>4. CASE EndAll
    BY <1>2, <1>4 DEF EndAll, T!EndScan, Unseen, T!TypeOK
  <1>5. CASE OverwriteAll
    BY <1>2, <1>5, Displayed DEF OverwriteAll, T!ResetUpdate, Overwritten
  <1>6. CASE Touch
    <2>1. \A i \in Timer : t'[i].V = t[i].V
      BY <1>6, ValuesKept DEF Touch, tVars
    <2> QED
      BY <1>2, <1>6, <2>1, Keeps DEF Touch, Unseen, tVars
  <1> QED
    BY <1>3, <1>4, <1>5, <1>6

LEMMA BlinkRecords ==
    ASSUME NEW r \in B!BlinkRecord
    PROVE  /\ B!Managed(r) \in B!BlinkRecord
           /\ ~B!Toggles(r) => B!Managed(r).Q = r.Q
           /\ \A x \in BlinkerScales : /\ [r EXCEPT !.S = x] \in B!BlinkRecord
                                       /\ [r EXCEPT !.S = x].Q = r.Q
  <1>1. r.sn + 1 \in Nat
    BY DEF B!BlinkRecord
  <1> QED
    BY <1>1 DEF B!BlinkRecord, B!Managed, B!Toggles

LEMMA BlinksStep ==
    ASSUME Known, BeginAll \/ EndAll \/ OverwriteAll \/ Touch
    PROVE  BlinksKnown'
  <1> USE DEF Known, BlinksKnown
  <1>1. CASE BeginAll
    <2>1. B!TypeOK'
      BY <1>1, BlinkRecords DEF BeginAll, B!BeginScan, B!TypeOK
    <2>2. CASE \E b \in Blinker : B!Toggles(s[b])
      BY <1>1, <2>1, <2>2 DEF BeginAll, B!BeginScan
    <2>3. CASE ~\E b \in Blinker : B!Toggles(s[b])
      <3>1. \A b \in Blinker : s'[b].Q = s[b].Q
        BY <1>1, <2>3, BlinkRecords DEF BeginAll, B!BeginScan, B!TypeOK
      <3> QED
        BY <1>1, <2>1, <3>1 DEF BeginAll, B!BeginScan, Unseen
    <2> QED
      BY <2>2, <2>3
  <1>2. CASE EndAll
    BY <1>2 DEF EndAll, B!EndScan, Unseen, B!TypeOK
  <1>3. CASE OverwriteAll
    BY <1>3, Displayed DEF OverwriteAll, B!ResetUpdate, Overwritten, B!TypeOK
  <1>4. CASE Touch
    <2>1. s' \in [Blinker -> B!BlinkRecord] /\ \A b \in Blinker : s'[b].Q = s[b].Q
      <3>1. ASSUME NEW b \in Blinker, NEW x \in BlinkerScales, B!ConfigureScale(b, x)
            PROVE  s' \in [Blinker -> B!BlinkRecord] /\ \A k \in Blinker : s'[k].Q = s[k].Q
        BY <3>1, BlinkRecords DEF B!ConfigureScale, B!TypeOK
      <3> QED
        BY <1>4, <3>1 DEF Touch, sVars, B!Configuration, B!TypeOK
    <2> QED
      BY <1>4, <2>1, Keeps DEF Touch, Unseen, sVars, B!TypeOK
  <1> QED
    BY <1>1, <1>2, <1>3, <1>4

-----------------------------------------------------------------------------
(* All of them.                                                            *)

LEMMA KnownInit == InitObserved => Known
  <1> SUFFICES ASSUME InitObserved PROVE Known
    OBVIOUS
  <1> USE DEF InitObserved, Init
  <1>1. InputsKnown /\ OutputsKnown
    BY Displayed DEF I!Init, O!Init, InputsKnown, OutputsKnown
  <1>2. PulsesKnown
    <2>1. M!Init /\ changedM = FALSE /\ shown.pulses = [c \in Counter |-> m[c].PULSE]
      BY Displayed DEF M!Init
    <2>2. \A c \in Counter : m[c].PULSE = FALSE
      BY DEF M!Init
    <2>3. oldPulse = shown.pulses /\ M!PulseBaseline
      BY <2>1, <2>2 DEF M!Init, M!PulseBaseline
    <2>4. M!TypeOK
      <3>1. MP!Init
        BY <2>1 DEF M!Init, MP!Init
      <3> QED
        BY <3>1, MP!TypeInit, SameCounters DEF MP!VModAssumption
    <2> QED
      BY <2>3, <2>4 DEF PulsesKnown
  <1>3. ValuesKnown
    <2>1. TP!Init
      BY DEF T!Init, TP!Init
    <2>2. T!TypeOK
      BY <2>1, TP!TypeInit, SameTimers
         DEF TP!ScalesAssumption, TP!PresetsAssumption, TP!BlinkerScalesAssumption,
             TP!RungsAssumption, TP!TimeAssumption, TP!WordAssumption
    <2> QED
      BY <2>2, Displayed DEF ValuesKnown
  <1>4. BlinksKnown
    <2>1. [Q : {FALSE}, S : BlinkerScales, sn : {0}] \subseteq B!BlinkRecord
      <3>1. 0 \in Nat
        OBVIOUS
      <3> QED
        BY <3>1, Zenon DEF B!BlinkRecord
    <2> QED
      BY <2>1, Displayed DEF BlinksKnown, B!Init, B!TypeOK
  <1>5. phase = "host" /\ changedStatus = FALSE /\ ShownIsDisplay
    BY Displayed DEF I!Init, ShownIsDisplay
  <1> QED
    BY <1>1, <1>2, <1>3, <1>4, <1>5 DEF Known

LEMMA KnownStep == Known /\ [NextObserved]_allvars => Known'
  <1> SUFFICES ASSUME Known, [NextObserved]_allvars PROVE Known'
    OBVIOUS
  <1>1. BeginAll \/ EndAll \/ OverwriteAll \/ Touch
    BY StepKinds
  <1>2. phase' \in {"host", "tasks"} /\ changedStatus' \in BOOLEAN
    BY <1>1 DEF Known, BeginAll, EndAll, OverwriteAll, Touch, I!BeginScan, I!EndScan,
                I!ResetUpdate, Unseen, Overwritten
  <1>3. ShownIsDisplay'
    BY <1>1, Displayed DEF Known, ShownIsDisplay, BeginAll, EndAll, OverwriteAll, Touch,
                           Unseen, Overwritten
  <1> QED
    BY <1>1, <1>2, <1>3, InputsStep, OutputsStep, PulsesStep, ValuesStep, BlinksStep
       DEF Known

LEMMA KnownIsSame == Known => SilenceMeansSame
  <1> SUFFICES ASSUME Known, phase = "host", Silent
               PROVE  shown = IF behind THEN [Display EXCEPT !.outputs = shown.outputs]
                                        ELSE Display
    BY DEF SilenceMeansSame
  <1> USE DEF Known, Silent
  <1>1. shown.inputs = inputs /\ (behind \/ shown.outputs = outputs)
    BY DEF InputsKnown, OutputsKnown
  <1>2. shown.pulses = [c \in Counter |-> m[c].PULSE]
    BY DEF PulsesKnown, M!TypeOK, M!PulseBaseline
  <1>3. shown.values = [i \in Timer |-> t[i].V] /\ shown.blinks = [b \in Blinker |-> s[b].Q]
    BY DEF ValuesKnown, BlinksKnown
  <1> QED
    BY <1>1, <1>2, <1>3 DEF ShownIsDisplay, Display

\* A host that looks only when the update mask is not 0 misses no change of what
\* it displays, through scans that fail, loads, starts, stops and configurations
\* in any order; of the outputs, except from a plc_stop until it has looked after
\* the next scan (plc_func, plc_stop, save_state, plc_reset_update).
THEOREM PlcSilence == SpecObserved => []SilenceMeansSame
  BY KnownInit, KnownStep, KnownIsSame, PTL DEF SpecObserved

-----------------------------------------------------------------------------
(* What the calls do.                                                      *)

\* Instructions and the returns of tasks happen in a scan, and leave the
\* hardware and the life cycle alone.
LEMMA TasksKeep ==
    Instruction \/ (\E result \in {"OK", "ERROR"} : TaskReturns(result))
        => phase = "tasks" /\ UNCHANGED <<phase, field, life>>
  <1>1. ASSUME NEW result \in {"OK", "ERROR"}, TaskReturns(result)
        PROVE  phase = "tasks" /\ UNCHANGED <<phase, field, life>>
    BY <1>1 DEF TaskReturns, registers, oVars
  <1>2. CASE Instruction
    <2>1. CASE O!Program
      BY <1>2, <2>1 DEF Instruction, O!Program, O!CoilInstruction, O!Set, O!Reset,
                        O!Contact, O!WriteCoil, O!StoreBytes
    <2>2. CASE M!Program /\ UNCHANGED oVars
      BY <1>2, <2>2 DEF Instruction, M!Program, M!Store, M!StoreValue, M!Coil, M!Set,
                        M!Reset, M!Contact, M!ExecuteCoil, oVars
    <2>3. CASE T!Program /\ UNCHANGED oVars
      BY <1>2, <2>3 DEF Instruction, T!Program, T!Set, T!Reset, T!Contact,
                        T!StartCommand, oVars
    <2> QED
      BY <1>2, <2>1, <2>2, <2>3 DEF Instruction
  <1> QED
    BY <1>1, <1>2

\* Forcing and configuring leave them alone as well.
LEMMA HostSetsKeep == HostSets => UNCHANGED <<phase, field, life>>
  <1> SUFFICES ASSUME HostSets PROVE UNCHANGED <<phase, field, life>>
    OBVIOUS
  <1>1. CASE I!Masking /\ UNCHANGED oVars
    BY <1>1 DEF HostSets, I!Masking, I!ForceTo, I!Unforce, oVars
  <1>2. CASE O!Masking
    BY <1>2 DEF HostSets, O!Masking, O!ForceTo, O!Unforce, O!ForceCoil
  <1>3. CASE M!Configuration /\ UNCHANGED oVars
    BY <1>3 DEF HostSets, M!Configuration, M!InitVariable, M!ConfigureReadonly,
                M!ConfigureDirection, oVars
  <1>4. CASE T!Configuration /\ UNCHANGED oVars
    BY <1>4 DEF HostSets, T!Configuration, T!ConfigureScale, T!ConfigurePreset,
                T!ConfigureDelay, T!Configure, oVars
  <1>5. CASE B!Configuration /\ UNCHANGED oVars
    BY <1>5 DEF HostSets, B!Configuration, B!ConfigureScale, oVars
  <1> QED
    BY <1>1, <1>2, <1>3, <1>4, <1>5 DEF HostSets

LEMMA ResetUpdateKeeps ==
    ResetUpdate => UNCHANGED <<phase, field, hw, enabled, status>>
  BY DEF ResetUpdate, ClearRegisterBits, O!ResetUpdate

\* Every way to start enables the hardware, where there is any, or fails; none
\* of them ends the error of a PLC, and none drives an output.
LEMMA StartsKeep ==
    ASSUME NEW ok \in BOOLEAN
    PROVE  /\ Start(ok) => /\ status = "STOPPED" /\ phase = "host" /\ hw /\ ok
                           /\ status' = "RUNNING" /\ enabled' = TRUE
           /\ StartAgain(ok) => /\ status # "STOPPED" /\ phase = "host" /\ hw /\ ok
                                /\ status' = status /\ enabled' = TRUE
           /\ StartFails(ok) => /\ phase = "host" /\ ~(hw /\ ok)
                                /\ status' = "ERROR" /\ enabled' = enabled
           /\ Start(ok) \/ StartAgain(ok) \/ StartFails(ok)
                => UNCHANGED <<phase, hw>> /\ (field' = field \/ field' = O!Cleared)
  BY DEF Start, StartAgain, StartFails, EnableOutputs, T!ResetUpdate

\* The end of a scan is the only call that writes to the hardware in earnest.
LEMMA ScansKeep ==
    /\ BeginScan => /\ status = "RUNNING" /\ phase = "host" /\ phase' = "tasks"
                    /\ UNCHANGED <<field, life>>
    /\ EndScan => /\ phase = "tasks" /\ phase' = "host"
                  /\ status' = (IF rv = "OK" THEN status ELSE rv)
                  /\ UNCHANGED <<hw, enabled>>
  BY DEF BeginScan, EndScan, O!BeginScan, O!EndScan

LEMMA StopsKeep ==
    /\ Stop => /\ status = "RUNNING" /\ phase = "host" /\ phase' = phase
               /\ status' = "STOPPED" /\ field' = O!Cleared
               /\ hw' = hw /\ enabled' = FALSE
    /\ StopWithoutHardware => /\ phase = "host" /\ status' = "ERROR"
                              /\ UNCHANGED <<phase, field, hw, enabled>>
  BY DEF Stop, StopWithoutHardware, O!Stop, registers, oVars

LEMMA LoadsKeep ==
    /\ Load => /\ status' \in {"STOPPED", "ERROR"}
               /\ phase = "host" /\ UNCHANGED <<phase, field, hw, enabled>>
    /\ Rejects => /\ status' = "ERROR"
                  /\ phase = "host" /\ UNCHANGED <<phase, field, hw, enabled>>
  BY DEF Load, LoadRung, Rejects, registers, oVars

\* The end of a process leaves the hardware as it is.
LEMMA InterruptKeeps ==
    Interrupted => /\ phase' = "host" /\ status' = "STOPPED" /\ enabled' = FALSE
                   /\ left' = (field # O!Cleared)
                   /\ UNCHANGED <<hw, field, kind, needed>>
                   /\ held' = (IF kind = "sim" THEN needed ELSE {})
                   /\ closed' = FALSE
  BY DEF Interrupted, BackendAnew

-----------------------------------------------------------------------------
(* Who drives the outputs.                                                 *)

\* The tasks run on a running PLC only, and hardware that is not there is not
\* enabled: with these OnlyEnabledDrives is inductive.
LifeInv ==
    /\ phase = "tasks" => status = "RUNNING"
    /\ hw \in BOOLEAN /\ enabled \in BOOLEAN /\ left \in BOOLEAN
    /\ enabled => hw

DriveInv == LifeInv /\ OnlyEnabledDrives

LEMMA DriveInit == InitHost => DriveInv
  BY DEF InitHost, Init, O!Init, DriveInv, LifeInv, OnlyEnabledDrives

LEMMA DriveStep == DriveInv /\ [NextHost]_hostvars => DriveInv'
  <1> SUFFICES ASSUME DriveInv, [NextHost]_hostvars PROVE DriveInv'
    OBVIOUS
  <1> USE DEF DriveInv, LifeInv, OnlyEnabledDrives, life
  <1>0. O!Cleared' = O!Cleared
    BY DEF O!Cleared, O!Byte
  <1>1. ASSUME Called, left' = (left /\ ~enabled') PROVE DriveInv'
    <2>1. ASSUME NEW ok \in BOOLEAN, Start(ok) \/ StartAgain(ok) \/ StartFails(ok)
          PROVE  DriveInv'
      <3>1. CASE Start(ok) \/ StartAgain(ok)
        BY <1>0, <1>1, <2>1, <3>1, StartsKeep
      <3>2. CASE StartFails(ok)
        BY <1>0, <1>1, <2>1, <3>2, StartsKeep
      <3> QED
        BY <2>1, <3>1, <3>2
    <2>2. CASE Stop \/ StopWithoutHardware
      <3>1. CASE Stop
        BY <1>0, <1>1, <3>1, StopsKeep
      <3>2. CASE StopWithoutHardware
        BY <1>0, <1>1, <3>2, StopsKeep
      <3> QED
        BY <2>2, <3>1, <3>2
    <2>3. CASE BeginScan \/ EndScan
      BY <1>0, <1>1, <2>3, ScansKeep
    <2>4. CASE Instruction \/ \E result \in {"OK", "ERROR"} : TaskReturns(result)
      BY <1>0, <1>1, <2>4, TasksKeep
    <2>5. CASE Load \/ Rejects
      BY <1>0, <1>1, <2>5, LoadsKeep
    <2>6. CASE ResetUpdate \/ HostSets
      BY <1>0, <1>1, <2>6, ResetUpdateKeeps, HostSetsKeep
    <2>7. CASE UNCHANGED vars
      BY <1>0, <1>1, <2>7 DEF vars, registers, oVars
    <2> QED
      BY <1>1, <2>1, <2>2, <2>3, <2>4, <2>5, <2>6, <2>7
         DEF Called, HostStarts, HostStops, HostScans, Others
  <1>2. CASE Interrupted
    BY <1>0, <1>2, InterruptKeeps
  <1>3. CASE UNCHANGED hostvars
    BY <1>0, <1>3 DEF hostvars, vars, registers, oVars
  <1> QED
    BY <1>1, <1>2, <1>3 DEF NextHost

\* Outputs are driven, and scans run, on enabled hardware only, whatever fails
\* and in whatever order the host starts, stops, loads and is interrupted
\* (plc_start, plc_stop, plc_func, plc_load_program_file).
THEOREM HostOnlyEnabledDrives == SpecHost => []OnlyEnabledDrives
  <1>1. DriveInv => OnlyEnabledDrives
    BY DEF DriveInv
  <1> QED
    BY <1>1, DriveInit, DriveStep, PTL DEF SpecHost

-----------------------------------------------------------------------------
(* What an error holds.                                                    *)

\* Of a PLC in error every step keeps the outputs, unless it starts it again,
\* and the error, unless it loads a program or ends the process (plc_stop and
\* plc_func of a PLC that does not run have no effect).
THEOREM HostErrorHolds == SpecHost => ErrorHolds
  <1>1. LifeInv /\ [NextHost]_hostvars =>
          [status = "ERROR" /\ ~Interrupted =>
             /\ status' = "ERROR" \/ Load
             /\ field' = field \/ \E ok \in BOOLEAN : StartAgain(ok) \/ StartFails(ok)]_hostvars
    <2> SUFFICES ASSUME LifeInv, NextHost, status = "ERROR", ~Interrupted
                 PROVE  /\ status' = "ERROR" \/ Load
                        /\ field' = field \/ \E ok \in BOOLEAN : StartAgain(ok) \/ StartFails(ok)
      OBVIOUS
    <2> USE DEF LifeInv, life
    <2>1. ASSUME NEW ok \in BOOLEAN, Start(ok) \/ StartAgain(ok) \/ StartFails(ok)
          PROVE  status' = "ERROR" /\ (StartAgain(ok) \/ StartFails(ok))
      BY <2>1, StartsKeep
    <2>2. CASE Stop \/ StopWithoutHardware
      BY <2>2, StopsKeep
    <2>3. CASE BeginScan \/ EndScan
      BY <2>3, ScansKeep
    <2>4. CASE Instruction \/ \E result \in {"OK", "ERROR"} : TaskReturns(result)
      BY <2>4, TasksKeep
    <2>5. CASE Load \/ Rejects
      BY <2>5, LoadsKeep
    <2>6. CASE ResetUpdate \/ HostSets
      BY <2>6, ResetUpdateKeeps, HostSetsKeep
    <2>7. CASE UNCHANGED vars
      BY <2>7 DEF vars, registers, oVars
    <2> QED
      BY <2>1, <2>2, <2>3, <2>4, <2>5, <2>6, <2>7
         DEF NextHost, Called, HostStarts, HostStops, HostScans, Others
  <1>2. DriveInv => LifeInv
    BY DEF DriveInv
  <1> QED
    BY <1>1, <1>2, DriveInit, DriveStep, PTL DEF SpecHost, ErrorHolds

-----------------------------------------------------------------------------
(* What a running PLC holds.                                               *)

\* What each back end needs, and what it holds without being enabled.  Lines of
\* gpiod are all that gpiod ever holds, so that its own block the next enable.
BackendInv ==
    /\ kind = "gpiod" => needed = H!LineSet /\ held \subseteq H!LineSet
    /\ kind = "dry" => needed = {}
    /\ kind = "sim" /\ ~closed => held = needed

\* The first line in the way decides: if there is none, all are requested.
LEMMA AllRequested ==
    H!Blocked = {} => {Lines[k] : k \in H!RequestedBefore} = H!LineSet
  BY DEF H!RequestedBefore, H!LineSet

\* Enabling succeeds only if everything is held; of gpiod it takes no line back
\* and fails if there is one already.
LEMMA EnableHolds ==
    ASSUME NEW ok \in BOOLEAN, H!Enable(ok), BackendInv
    PROVE  /\ UNCHANGED <<kind, needed, closed>>
           /\ ok /\ ~closed => needed \subseteq held'
           /\ kind = "gpiod" => /\ held \subseteq held' /\ held' \subseteq H!LineSet
                                /\ held # {} => ~ok
           /\ kind = "sim" => held' = held
  <1> USE DEF BackendInv
  <1>1. UNCHANGED <<kind, needed, closed>>
    BY DEF H!Enable
  <1>2. CASE H!EnableGpiod(ok)
    <2>1. {Lines[k] : k \in H!RequestedBefore} \subseteq H!LineSet
      BY DEF H!RequestedBefore, H!LineSet
    <2>2. held # {} => ~ok
      <3> SUFFICES ASSUME NEW l \in held PROVE ~ok
        OBVIOUS
      <3>1. PICK k \in DOMAIN Lines : Lines[k] = l
        BY <1>2 DEF H!EnableGpiod, H!LineSet
      <3>2. k \in H!Blocked
        BY <3>1 DEF H!Blocked
      <3> QED
        BY <1>2, <3>2 DEF H!EnableGpiod
    <2>3. ok => H!LineSet \subseteq held'
      BY <1>2, AllRequested DEF H!EnableGpiod
    <2> QED
      BY <1>1, <1>2, <2>1, <2>2, <2>3 DEF H!EnableGpiod
  <1>3. CASE H!EnableComedi(ok)
    BY <1>1, <1>3 DEF H!EnableComedi
  <1>4. CASE H!EnableUspace(ok)
    BY <1>1, <1>4 DEF H!EnableUspace
  <1>5. CASE H!EnableSim(ok)
    BY <1>1, <1>5 DEF H!EnableSim
  <1>6. CASE H!EnableDry(ok)
    BY <1>1, <1>6 DEF H!EnableDry
  <1> QED
    BY <1>2, <1>3, <1>4, <1>5, <1>6 DEF H!Enable

\* Nothing else adds to what is held, and only the simulation loses something
\* in a scan: it is closed for good then.
LEMMA OthersHold ==
    /\ H!Disable => /\ UNCHANGED <<kind, needed>>
                    /\ held' \in {{}, held}
                    /\ kind = "sim" => closed'
    /\ H!Fetch => /\ UNCHANGED <<kind, needed>>
                  /\ UNCHANGED <<held, closed>> \/ (kind = "sim" /\ closed')
    /\ Others => UNCHANGED <<kind, needed, held, closed, status>>
  <1>1. H!Disable => /\ UNCHANGED <<kind, needed>>
                     /\ held' \in {{}, held}
                     /\ kind = "sim" => closed'
    BY DEF H!Disable, H!DisableGpiod, H!DisableComedi, H!DisableUspace, H!DisableSim,
           H!DisableDry
  <1>2. H!Fetch => /\ UNCHANGED <<kind, needed>>
                   /\ UNCHANGED <<held, closed>> \/ (kind = "sim" /\ closed')
    BY DEF H!Fetch, H!DisableSim, H!backend
  <1>3. Others => UNCHANGED <<kind, needed, held, closed, status>>
    BY DEF Others, H!OthersTake, H!OthersRelease, vars, life
  <1> QED
    BY <1>1, <1>2, <1>3

HoldInv == BackendInv /\ RunningHolds

LEMMA HoldInit == InitHost => HoldInv
  BY DEF InitHost, Init, H!Init, H!ConfigureGpiod, H!ConfigureComedi, H!ConfigureUspace,
         H!ConfigureSim, H!ConfigureDry, HoldInv, BackendInv, RunningHolds

LEMMA HoldStep == LifeInv /\ HoldInv /\ [NextHost]_hostvars => HoldInv'
  <1> SUFFICES ASSUME LifeInv, HoldInv, [NextHost]_hostvars PROVE HoldInv'
    OBVIOUS
  <1> USE DEF HoldInv, BackendInv, RunningHolds, life, backend
  <1>0. H!LineSet' = H!LineSet
    BY DEF H!LineSet
  <1>1. CASE HostStarts
    <2>1. PICK ok \in BOOLEAN :
            /\ (hw /\ H!Enable(ok)) \/ (~hw /\ UNCHANGED <<backend, field>>)
            /\ Start(ok) \/ StartAgain(ok) \/ StartFails(ok)
      BY <1>1 DEF HostStarts
    <2>2. CASE hw /\ H!Enable(ok)
      BY <1>0, <2>1, <2>2, StartsKeep, EnableHolds
    <2>3. CASE ~hw /\ UNCHANGED backend
      BY <1>0, <2>1, <2>3, StartsKeep
    <2> QED
      BY <2>1, <2>2, <2>3
  <1>2. CASE HostStops
    BY <1>0, <1>2, StopsKeep, OthersHold DEF HostStops
  <1>3. CASE BeginScan /\ H!Fetch
    BY <1>0, <1>3, ScansKeep, OthersHold
  <1>4. CASE EndScan /\ UNCHANGED backend
    BY <1>0, <1>4, ScansKeep DEF LifeInv
  <1>5. CASE (Instruction \/ \E result \in {"OK", "ERROR"} : TaskReturns(result))
             /\ UNCHANGED backend
    BY <1>0, <1>5, TasksKeep
  <1>6. CASE Others
    BY <1>0, <1>6, OthersHold
  <1>7. CASE (Load \/ Rejects \/ ResetUpdate \/ HostSets) /\ UNCHANGED backend
    BY <1>0, <1>7, LoadsKeep, ResetUpdateKeeps, HostSetsKeep
  <1>8. CASE Interrupted
    BY <1>0, <1>8, InterruptKeeps
  <1>9. CASE UNCHANGED hostvars
    BY <1>0, <1>9 DEF hostvars, vars
  <1> QED
    BY <1>1, <1>2, <1>3, <1>4, <1>5, <1>6, <1>7, <1>8, <1>9 DEF NextHost, Called, HostScans

LEMMA HoldAlways == SpecHost => [](LifeInv /\ HoldInv)
  <1>1. DriveInv => LifeInv
    BY DEF DriveInv
  <1> QED
    BY <1>1, DriveInit, DriveStep, HoldInit, HoldStep, PTL DEF SpecHost

\* No scan and no plc_stop of a running PLC uses a line, device or port that is
\* not held, for any list of lines and however often enable failed or was
\* called before (gpiod_enable, com_enable, usp_enable, sim_fetch).
THEOREM HostRunningHolds == SpecHost => []RunningHolds
  <1>1. HoldInv => RunningHolds
    BY DEF HoldInv
  <1> QED
    BY <1>1, HoldAlways, PTL

\* A PLC on gpiod that is left holding lines without running does not run
\* again, and gives none of them back, before its process ends (gpiod_enable).
THEOREM HostHalfEnabled == SpecHost => HalfEnabledIsFinal
  <1>1. LifeInv /\ HoldInv /\ [NextHost]_hostvars =>
          [kind = "gpiod" /\ status # "RUNNING" /\ held # {} /\ ~Interrupted
              => status' # "RUNNING" /\ held \subseteq held']_hostvars
    <2> SUFFICES ASSUME LifeInv, BackendInv, NextHost, ~Interrupted,
                        kind = "gpiod", status # "RUNNING", held # {}
                 PROVE  status' # "RUNNING" /\ held \subseteq held'
      BY DEF HoldInv
    <2> USE DEF life, backend
    <2>1. CASE HostStarts
      <3>1. PICK ok \in BOOLEAN :
              /\ (hw /\ H!Enable(ok)) \/ (~hw /\ UNCHANGED <<backend, field>>)
              /\ Start(ok) \/ StartAgain(ok) \/ StartFails(ok)
        BY <2>1 DEF HostStarts
      <3>2. CASE hw /\ H!Enable(ok)
        BY <3>1, <3>2, StartsKeep, EnableHolds
      <3>3. CASE ~hw /\ UNCHANGED backend
        BY <3>1, <3>3, StartsKeep
      <3> QED
        BY <3>1, <3>2, <3>3
    <2>2. CASE HostStops
      BY <2>2, StopsKeep DEF HostStops
    <2>3. CASE BeginScan \/ EndScan
      BY <2>3, ScansKeep DEF LifeInv
    <2>4. CASE (Instruction \/ \E result \in {"OK", "ERROR"} : TaskReturns(result))
      BY <2>4, TasksKeep DEF LifeInv
    <2>5. CASE Others
      BY <2>5, OthersHold
    <2>6. CASE (Load \/ Rejects \/ ResetUpdate \/ HostSets) /\ UNCHANGED backend
      BY <2>6, LoadsKeep, ResetUpdateKeeps, HostSetsKeep
    <2> QED
      BY <2>1, <2>2, <2>3, <2>4, <2>5, <2>6 DEF NextHost, Called, HostScans
  <1> QED
    BY <1>1, HoldAlways, PTL DEF SpecHost, HalfEnabledIsFinal
=============================================================================
