--------------------------- MODULE SignalsProofs ----------------------------
(***************************************************************************)
(* Proofs about the signals of a PLC: digital inputs and outputs, for any  *)
(* number of bytes and of bits in a byte, any program and any forcing by   *)
(* the host; and analog channels, for any number of them.                  *)
(***************************************************************************)
EXTENDS Signals, BinaryProofs

USE NIAssumption, BYTESIZEAssumption, ForcingAssumption

LEMMA DecodedType ==
    ASSUME NEW buffer \in Buffer, NEW c \in Contact, NEW r \in DigitalInput
    PROVE  Decoded(buffer, c, r) \in DigitalInput
  <1>1. Masked(buffer, c, r) \in BOOLEAN
    BY DEF Masked
  <1> QED
    BY <1>1 DEF Decoded, DigitalInput

LEMMA TypeInit == Init => TypeOK
  <1> SUFFICES ASSUME Init PROVE TypeOK
    OBVIOUS
  <1>1. inputs \in Buffer /\ oldInputs \in Buffer
    BY DEF Init, Buffer
  <1>2. di \in [Contact -> DigitalInput]
    BY DEF Init, DigitalInput
  <1> QED
    BY <1>1, <1>2 DEF Init, TypeOK

\* Forcing and lifting touch the masks of contacts and nothing else.
LEMMA MaskingKeeps ==
    Masking => UNCHANGED <<inputs, oldInputs, iChanged, changedI, phase>>
  BY DEF Masking, ForceTo, Unforce

LEMMA MaskingType ==
    di \in [Contact -> DigitalInput] /\ Masking => di' \in [Contact -> DigitalInput]
  <1> SUFFICES ASSUME di \in [Contact -> DigitalInput], Masking
               PROVE  di' \in [Contact -> DigitalInput]
    OBVIOUS
  <1>1. PICK c \in Contact : Unforce(c) \/ \E val \in BOOLEAN : ForceTo(c, val)
    BY DEF Masking
  <1>2. CASE Unforce(c)
    BY <1>2 DEF Unforce, DigitalInput
  <1>3. ASSUME NEW val \in BOOLEAN, ForceTo(c, val)
        PROVE  di' \in [Contact -> DigitalInput]
    <2>1. CASE val
      BY <1>3, <2>1 DEF ForceTo, DigitalInput
    <2>2. CASE ~val
      BY <1>3, <2>2 DEF ForceTo, DigitalInput
    <2> QED
      BY <2>1, <2>2
  <1> QED
    BY <1>1, <1>2, <1>3

LEMMA TypeStep == TypeOK /\ [Next]_vars => TypeOK'
  <1> SUFFICES ASSUME TypeOK, [Next]_vars PROVE TypeOK'
    OBVIOUS
  <1> USE DEF TypeOK
  <1>1. CASE BeginScan
    <2>1. inputs' \in Buffer
      BY <1>1 DEF BeginScan
    <2>2. \A c \in Contact : (IF Reached(c) THEN Decoded(inputs', c, di[c]) ELSE di[c])
                                 \in DigitalInput
      BY <2>1, DecodedType
    <2>3. di' \in [Contact -> DigitalInput]
      BY <1>1, <2>2 DEF BeginScan
    <2>4. iChanged' \in BOOLEAN
      BY <1>1 DEF BeginScan
    <2> QED
      BY <1>1, <2>1, <2>3, <2>4 DEF BeginScan
  <1>2. CASE EndScan
    BY <1>2 DEF EndScan
  <1>3. CASE ResetUpdate
    BY <1>3 DEF ResetUpdate
  <1>4. CASE Masking
    BY <1>4, MaskingKeeps, MaskingType
  <1>5. CASE UNCHANGED vars
    BY <1>5 DEF vars
  <1> QED
    BY <1>1, <1>2, <1>3, <1>4, <1>5 DEF Next

\* Buffers and contacts keep their types for every number of bytes and bits.
THEOREM InputsType == Spec => []TypeOK
  BY TypeInit, TypeStep, PTL DEF Spec

-----------------------------------------------------------------------------
(* The saved buffer.                                                       *)

\* While the rungs run, i_changed says whether the buffer differs from the
\* saved one: this is what makes saving it on a change alone enough.
Noticed == phase = "tasks" => iChanged = (inputs # oldInputs)

LEMMA SavedStep ==
    TypeOK /\ Noticed /\ SavedInputs /\ [Next]_vars => Noticed' /\ SavedInputs'
  <1> SUFFICES ASSUME TypeOK, Noticed, SavedInputs, [Next]_vars
               PROVE  Noticed' /\ SavedInputs'
    OBVIOUS
  <1> USE DEF TypeOK, Noticed, SavedInputs
  <1>1. CASE BeginScan
    BY <1>1 DEF BeginScan
  <1>2. CASE EndScan
    BY <1>2 DEF EndScan
  <1>3. CASE ResetUpdate
    BY <1>3 DEF ResetUpdate
  <1>4. CASE Masking
    BY <1>4, MaskingKeeps
  <1>5. CASE UNCHANGED vars
    BY <1>5 DEF vars
  <1> QED
    BY <1>1, <1>2, <1>3, <1>4, <1>5 DEF Next

\* Between scans the buffer is saved, though save_state copies it only when
\* the update mask says that some byte changed.
THEOREM InputsSaved == Spec => []SavedInputs
  <1>1. Init => Noticed /\ SavedInputs
    BY DEF Init, Noticed, SavedInputs
  <1> QED
    BY <1>1, InputsType, SavedStep, PTL DEF Spec

-----------------------------------------------------------------------------
(* What the host knows.                                                    *)

LEMMA ObservedStep == [NextObserved]_allvars => [Next]_vars
  <1>1. HostForces => Masking
    BY DEF HostForces, Masking
  <1> QED
    BY <1>1 DEF NextObserved, HostLooks, allvars, Next

\* While the mask is silent the host knows the saved buffer, in the middle of
\* a scan too.
SavedIsShown == changedI \/ shown = oldInputs

LEMMA ShownStep ==
    TypeOK /\ Noticed /\ SavedInputs /\ SavedIsShown /\ [NextObserved]_allvars
        => SavedIsShown'
  <1> SUFFICES ASSUME TypeOK, Noticed, SavedInputs, SavedIsShown,
                      [NextObserved]_allvars
               PROVE  SavedIsShown'
    OBVIOUS
  <1> USE DEF TypeOK, SavedIsShown, observed
  <1>1. CASE HostLooks
    BY <1>1 DEF HostLooks, ResetUpdate, SavedInputs
  <1>2. CASE HostForces
    <2>1. Masking /\ UNCHANGED shown
      BY <1>2 DEF HostForces, Masking
    <2> QED
      BY <2>1, MaskingKeeps
  <1>3. CASE BeginScan /\ UNCHANGED observed
    BY <1>3 DEF BeginScan
  <1>4. CASE EndScan /\ UNCHANGED observed
    BY <1>4 DEF EndScan
  <1>5. CASE UNCHANGED allvars
    BY <1>5 DEF allvars, vars
  <1> QED
    BY <1>1, <1>2, <1>3, <1>4, <1>5 DEF NextObserved

\* A change of the input buffer stays announced until the host looks, through
\* any number of scans.
THEOREM InputsAreAnnounced == SpecObserved => []InputsAnnounced
  <1> DEFINE Inv == TypeOK /\ Noticed /\ SavedInputs /\ SavedIsShown
  <1>1. InitObserved => Inv
    BY TypeInit DEF InitObserved, Init, Noticed, SavedInputs, SavedIsShown
  <1>2. Inv /\ [NextObserved]_allvars => Inv'
    BY TypeStep, SavedStep, ShownStep, ObservedStep
  <1>3. Inv => InputsAnnounced
    BY DEF SavedInputs, SavedIsShown, InputsAnnounced
  <1> QED
    BY <1>1, <1>2, <1>3, PTL DEF SpecObserved

-----------------------------------------------------------------------------
(* Signals of each sort beside the others, which rest.                     *)

USE OutputsAssumption

LEMMA SignalsSteps ==
    [NextSignals]_signals =>
        \/ use = "di" /\ NextObserved /\ UNCHANGED <<outputside, use>>
        \/ use = "dq" /\ O!NextObserved /\ UNCHANGED <<inputside, use>>
        \/ UNCHANGED <<phase, inputside, outputside, use>>
  BY DEF NextSignals, signals

-----------------------------------------------------------------------------
(* Digital outputs.                                                        *)

LEMMA CoilsKeep ==
    O!CoilInstruction \/ O!Masking
        => UNCHANGED <<outputs, oldOutputs, field, changedO, phase>>
  BY DEF O!CoilInstruction, O!Set, O!Reset, O!Contact, O!WriteCoil,
         O!Masking, O!Unforce, O!ForceTo, O!ForceCoil

\* Up to the first stop the saved buffer is what the hardware drives, in the
\* middle of a scan too: save_state misses no change.
OutputsSaved ==
    ~stopped => /\ field = oldOutputs
                /\ changedO \/ changedStatus \/ fieldShown = oldOutputs

\* Outputs that are not in use stay cleared; a byte that this scan has not
\* stored is as the start of the scan has left it; only a PLC that runs scans, and
\* it was started for that.
OutputsInv ==
    /\ changedO \in BOOLEAN
    /\ status = "RUNNING" => ~dark
    /\ use # "dq" => outputs = O!Cleared
    /\ use = "dq" /\ phase = "tasks" =>
          status = "RUNNING" /\ ~dark /\ \A b \in O!Byte \ stored : outputs[b] = {}
    /\ OutputsSaved
    /\ O!StoppedIsDark

LEMMA OutputsInit == InitSignals => OutputsInv
  BY DEF InitSignals, O!InitObserved, O!Init, OutputsInv, OutputsSaved, O!StoppedIsDark

LEMMA OutputsStep == OutputsInv /\ [NextSignals]_signals => OutputsInv'
  <1> SUFFICES ASSUME OutputsInv, [NextSignals]_signals PROVE OutputsInv'
    OBVIOUS
  <1> USE DEF OutputsInv, OutputsSaved, O!StoppedIsDark, O!observed
  <1>0. O!Cleared' = O!Cleared /\ O!Byte' = O!Byte
    BY DEF O!Cleared, O!Byte
  <1>1. ASSUME use = "dq", use' = use, O!NextObserved PROVE OutputsInv'
    <2>1. CASE O!HostStarts
      BY <1>0, <1>1, <2>1 DEF O!HostStarts, O!ResetUpdate
    <2>2. CASE O!HostStops
      BY <1>0, <1>1, <2>2 DEF O!HostStops, O!Stop
    <2>3. CASE O!HostLooks
      BY <1>0, <1>1, <2>3 DEF O!HostLooks, O!ResetUpdate
    <2>4. CASE O!ScanObserved
      <3>1. \A b \in O!Byte : outputs'[b] = {}
        BY <2>4 DEF O!ScanObserved, O!BeginScan, O!Cleared
      <3> QED
        BY <1>0, <1>1, <2>4, <3>1 DEF O!ScanObserved, O!BeginScan
    <2>5. CASE O!StoreObserved
      <3>1. PICK i \in O!Byte, offs \in O!Byte :
              /\ \E val \in [0 .. offs -> SUBSET O!Bit] : O!StoreBytes(i, offs, val)
              /\ stored' = stored \cup (i .. i + offs)
        BY <2>5 DEF O!StoreObserved
      <3>2. /\ phase = "tasks" /\ UNCHANGED <<phase, oldOutputs, field, changedO>>
            /\ \A b \in O!Byte \ stored' : outputs'[b] = outputs[b]
        BY <3>1 DEF O!StoreBytes
      <3>3. UNCHANGED <<status, changedStatus, fieldShown, stopped, dark>>
        BY <2>5 DEF O!StoreObserved
      <3> QED
        BY <1>0, <1>1, <3>1, <3>2, <3>3
    <2>6. CASE (O!CoilInstruction \/ O!Masking) /\ UNCHANGED O!observed
      BY <1>0, <1>1, <2>6, CoilsKeep
    <2>7. CASE O!ScanEnds
      BY <1>0, <1>1, <2>7 DEF O!ScanEnds, O!EndScan
    <2>8. CASE O!HostLoads \/ O!StartFails
      <3>1. /\ UNCHANGED <<outputs, oldOutputs, field, changedO, phase, changedStatus,
                           fieldShown, stored, stopped, dark>>
            /\ phase = "host" /\ status' \in {"STOPPED", "ERROR"}
        BY <2>8 DEF O!HostLoads, O!StartFails, O!StatusSet, O!vars
      <3> QED
        BY <1>0, <1>1, <3>1
    <2> QED
      BY <1>1, <2>1, <2>2, <2>3, <2>4, <2>5, <2>6, <2>7, <2>8 DEF O!NextObserved
  <1>2. CASE use = "di" /\ UNCHANGED <<outputside, use>>
    BY <1>0, <1>2 DEF outputside
  <1>3. CASE UNCHANGED <<phase, outputside, use>>
    BY <1>0, <1>3 DEF outputside
  <1> QED
    BY <1>1, <1>2, <1>3, SignalsSteps

LEMMA OutputsAlways == SpecSignals => []OutputsInv
  BY OutputsInit, OutputsStep, PTL DEF SpecSignals

\* What the hardware drives is what the host saw last, while the mask is
\* silent and up to the first stop, whatever the program stores and forces
\* (enc_out, write_outputs, save_state).
THEOREM OutputsAreAnnounced == SpecSignals => []OutputsAnnounced
  <1>1. OutputsInv => OutputsAnnounced
    BY DEF OutputsInv, OutputsSaved, OutputsAnnounced, O!OutputsAnnounced
  <1> QED
    BY <1>1, OutputsAlways, PTL

\* Of one scan: a byte that is not stored shows its coils and their masks.
LEMMA MasksOfByte ==
    ASSUME OutputsInv, O!EndScan, 0 \notin stored, NEW j \in O!Bit
    PROVE  /\ dq[j].N_MASK => j \notin field'[0]
           /\ dq[j].MASK /\ ~dq[j].N_MASK => j \in field'[0]
  <1>1. 0 \in O!Byte /\ j \in Int /\ O!Reached(j) /\ OUTBITS * 0 + j = j
    BY DEF O!Byte, O!Bit, O!Reached
  <1>2. outputs[0] = {}
    <2>1. CASE use = "dq"
      BY <1>1, <2>1 DEF OutputsInv, O!EndScan
    <2>2. CASE use # "dq"
      BY <1>1, <2>2 DEF OutputsInv, O!Cleared
    <2> QED
      BY <2>1, <2>2
  <1>3. field'[0] = {k \in O!Bit : O!Reached(OUTBITS * 0 + k) /\ O!Driven(dq[OUTBITS * 0 + k])}
    BY <1>1, <1>2 DEF O!EndScan, O!Encoded
  <1>4. j \in field'[0] <=> O!Driven(dq[j])
    BY <1>1, <1>3
  <1> QED
    BY <1>4 DEF O!Driven

\* Forcing rules the coils of every scan, whatever coils and latches the
\* program executes, in a byte that it does not store (enc_out).
THEOREM SignalsForcedCoils == SpecSignals => ForcedCoils
  <1>1. OutputsInv /\ [NextSignals]_signals => [O!MasksRule]_signals
    BY MasksOfByte DEF O!MasksRule
  <1> QED
    BY <1>1, OutputsAlways, PTL DEF SpecSignals, ForcedCoils

-----------------------------------------------------------------------------
(* Analog outputs of a PLC that is stopped.                                *)

\* Only a PLC that runs, and was started for that, scans.
AnalogDark ==
    /\ busy => run = "RUNNING"
    /\ run = "RUNNING" => ~dim
    /\ dim => \A c \in AQ : lines[c] = 0

LEMMA AnalogSteps == [NextSignals]_signals => A!Next \/ UNCHANGED analogside
  BY DEF NextSignals, AnalogNext, signals

LEMMA AnalogDarkStep == AnalogDark /\ [NextSignals]_signals => AnalogDark'
  <1> SUFFICES ASSUME AnalogDark, [NextSignals]_signals PROVE AnalogDark'
    OBVIOUS
  <1> USE DEF AnalogDark
  <1>1. CASE A!BeginScan
    BY <1>1 DEF A!BeginScan
  <1>2. CASE A!EndScan
    BY <1>2 DEF A!EndScan
  <1>3. CASE A!Start
    BY <1>3 DEF A!Start
  <1>4. CASE A!Stop
    BY <1>4 DEF A!Stop
  <1>5. CASE A!ResetUpdate
    BY <1>5 DEF A!ResetUpdate
  <1>6. ASSUME NEW c \in A!Channel,
               \/ A!Unforce(c) \/ A!Limit(c)
               \/ \E val \in Values : A!Force(c, val) \/ A!Store(c, val)
        PROVE  AnalogDark'
    <2>1. UNCHANGED <<lines, run, dim, busy>>
      <3>1. ASSUME NEW r, NEW what, A!HostSets(c, r, what)
            PROVE  UNCHANGED <<lines, run, dim, busy>>
        BY <3>1 DEF A!HostSets
      <3>2. A!Unforce(c) => UNCHANGED <<lines, run, dim, busy>>
        BY <3>1 DEF A!Unforce
      <3>3. A!Limit(c) => UNCHANGED <<lines, run, dim, busy>>
        BY <3>1 DEF A!Limit
      <3>4. ASSUME NEW val \in Values, A!Force(c, val) \/ A!Store(c, val)
            PROVE  UNCHANGED <<lines, run, dim, busy>>
        BY <3>1, <3>4 DEF A!Force, A!Store
      <3> QED
        BY <1>6, <3>2, <3>3, <3>4
    <2> QED
      BY <2>1
  <1>7. CASE A!StatusSet
    BY <1>7 DEF A!StatusSet
  <1>8. CASE UNCHANGED analogside
    BY <1>8 DEF analogside
  <1> QED
    BY <1>1, <1>2, <1>3, <1>4, <1>5, <1>6, <1>7, <1>8, AnalogSteps DEF A!Next

\* From plc_stop of a running PLC until it is started again nothing is driven,
\* whatever it was stopped after, and whatever is loaded, forced, or fails to
\* start in between (plc_start, plc_stop, plc_func).
THEOREM SignalsStoppedDark == SpecSignals => []StoppedIsDark
  <1>1. InitSignals => AnalogDark
    BY DEF InitSignals, A!Init, AnalogDark
  <1>2. OutputsInv /\ AnalogDark => StoppedIsDark
    BY DEF OutputsInv, AnalogDark, StoppedIsDark
  <1> QED
    BY <1>1, <1>2, AnalogDarkStep, OutputsAlways, PTL DEF SpecSignals

-----------------------------------------------------------------------------
(* Forcing of digital inputs.                                              *)

\* The masks of a contact are the values it has been forced to since the last
\* lift.
ForcedInv ==
    /\ forced \in [Contact -> SUBSET BOOLEAN]
    /\ \A c \in Contact : /\ di[c].MASK <=> TRUE \in forced[c]
                          /\ di[c].N_MASK <=> FALSE \in forced[c]

LEMMA DecodedKeepsMasks ==
    ASSUME NEW buffer \in Buffer, NEW c \in Contact, NEW r \in DigitalInput
    PROVE  /\ Decoded(buffer, c, r).MASK = r.MASK
           /\ Decoded(buffer, c, r).N_MASK = r.N_MASK
           /\ Decoded(buffer, c, r).I = Masked(buffer, c, r)
  BY DEF Decoded, DigitalInput

LEMMA ForcedStep == TypeOK /\ ForcedInv /\ [NextObserved]_allvars => ForcedInv'
  <1> SUFFICES ASSUME TypeOK, ForcedInv, [NextObserved]_allvars PROVE ForcedInv'
    OBVIOUS
  <1> USE DEF TypeOK, ForcedInv, observed
  <1>1. CASE BeginScan /\ UNCHANGED observed
    <2>1. inputs' \in Buffer
      BY <1>1 DEF BeginScan
    <2>2. \A c \in Contact : di'[c].MASK = di[c].MASK /\ di'[c].N_MASK = di[c].N_MASK
      BY <1>1, <2>1, DecodedKeepsMasks DEF BeginScan
    <2> QED
      BY <1>1, <2>2
  <1>2. CASE EndScan /\ UNCHANGED observed
    BY <1>2 DEF EndScan
  <1>3. CASE HostLooks
    BY <1>3 DEF HostLooks, ResetUpdate
  <1>4. ASSUME NEW c \in Contact, Unforce(c), forced' = [forced EXCEPT ![c] = {}]
        PROVE  ForcedInv'
    <2>1. forced' \in [Contact -> SUBSET BOOLEAN]
      BY <1>4
    <2>2. ASSUME NEW k \in Contact
          PROVE  /\ di'[k].MASK = IF k = c THEN FALSE ELSE di[k].MASK
                 /\ di'[k].N_MASK = IF k = c THEN FALSE ELSE di[k].N_MASK
                 /\ forced'[k] = IF k = c THEN {} ELSE forced[k]
      BY <1>4 DEF Unforce, DigitalInput
    <2>3. TRUE \notin {} /\ FALSE \notin {}
      OBVIOUS
    <2>4. ASSUME NEW k \in Contact
          PROVE  /\ di'[k].MASK <=> TRUE \in forced'[k]
                 /\ di'[k].N_MASK <=> FALSE \in forced'[k]
      <3>1. CASE k = c
        BY <2>2, <2>3, <3>1
      <3>2. CASE k # c
        BY <2>2, <3>2
      <3> QED
        BY <3>1, <3>2
    <2> QED
      BY <2>1, <2>4
  <1>5. ASSUME NEW c \in Contact, NEW val \in BOOLEAN,
               ForceTo(c, val), forced' = [forced EXCEPT ![c] = @ \cup {val}]
        PROVE  ForcedInv'
    <2>1. forced' \in [Contact -> SUBSET BOOLEAN]
      BY <1>5
    <2>2. ASSUME NEW k \in Contact
          PROVE  /\ di'[k].MASK = IF k = c /\ val THEN TRUE ELSE di[k].MASK
                 /\ di'[k].N_MASK = IF k = c /\ ~val THEN TRUE ELSE di[k].N_MASK
                 /\ forced'[k] = IF k = c THEN forced[k] \cup {val} ELSE forced[k]
      BY <1>5 DEF ForceTo, DigitalInput
    <2>3. /\ val => TRUE \in {val} /\ FALSE \notin {val}
          /\ ~val => TRUE \notin {val} /\ FALSE \in {val}
      BY Zenon
    <2>4. ASSUME NEW k \in Contact
          PROVE  /\ di'[k].MASK <=> TRUE \in forced'[k]
                 /\ di'[k].N_MASK <=> FALSE \in forced'[k]
      <3>1. CASE k = c
        <4>1. /\ TRUE \in forced'[k] <=> TRUE \in forced[k] \/ TRUE \in {val}
              /\ FALSE \in forced'[k] <=> FALSE \in forced[k] \/ FALSE \in {val}
          BY <2>2, <3>1
        <4> QED
          BY <2>2, <2>3, <3>1, <4>1
      <3>2. CASE k # c
        BY <2>2, <3>2
      <3> QED
        BY <3>1, <3>2
    <2> QED
      BY <2>1, <2>4
  <1>6. CASE UNCHANGED allvars
    BY <1>6 DEF allvars, vars
  <1> QED
    BY <1>1, <1>2, <1>3, <1>4, <1>5, <1>6 DEF NextObserved, HostForces

\* Inputs that are not in use rest.
InputsInv ==
    /\ TypeOK /\ ForcedInv
    /\ Noticed /\ SavedInputs /\ SavedIsShown
    /\ use # "di" => inputs = oldInputs /\ iChanged = FALSE

LEMMA InputsInit == InitSignals => InputsInv
  <1>1. InitObserved => ForcedInv
    <2> SUFFICES ASSUME InitObserved PROVE ForcedInv
      OBVIOUS
    <2>1. forced = [c \in Contact |-> {}]
      BY DEF InitObserved
    <2>2. \A c \in Contact : ~di[c].MASK /\ ~di[c].N_MASK
      BY DEF InitObserved, Init
    <2>3. /\ forced \in [Contact -> SUBSET BOOLEAN]
          /\ \A c \in Contact : TRUE \notin forced[c] /\ FALSE \notin forced[c]
      BY <2>1
    <2> QED
      BY <2>2, <2>3 DEF ForcedInv
  <1> QED
    BY <1>1, TypeInit DEF InitSignals, InitObserved, Init, InputsInv, Noticed, SavedInputs,
                          SavedIsShown

LEMMA InputsStep == InputsInv /\ [NextSignals]_signals => InputsInv'
  <1> SUFFICES ASSUME InputsInv, [NextSignals]_signals PROVE InputsInv'
    OBVIOUS
  <1> USE DEF InputsInv
  <1>1. CASE use = "di" /\ NextObserved /\ use' = use
    BY <1>1, TypeStep, SavedStep, ShownStep, ForcedStep, ObservedStep
  <1>2. CASE use = "dq" /\ O!NextObserved /\ UNCHANGED <<inputside, use>>
    <2>1. phase' \in {"host", "tasks"}
      BY <1>2, CoilsKeep DEF O!NextObserved, O!HostStarts, O!HostStops, O!HostLooks,
         O!ScanObserved, O!StoreObserved, O!BeginScan, O!EndScan, O!Stop, O!ResetUpdate,
         O!StoreBytes, O!ScanEnds, O!HostLoads, O!StartFails, O!StatusSet, O!vars, TypeOK
    <2> QED
      BY <1>2, <2>1 DEF TypeOK, ForcedInv, Noticed, SavedInputs, SavedIsShown, inputside,
                        observed
  <1>3. CASE UNCHANGED <<phase, inputside, use>>
    BY <1>3 DEF TypeOK, ForcedInv, Noticed, SavedInputs, SavedIsShown, inputside, observed
  <1> QED
    BY <1>1, <1>2, <1>3, SignalsSteps

LEMMA InputsAlways == SpecSignals => []InputsInv
  BY InputsInit, InputsStep, PTL DEF SpecSignals

\* The same, and the types, beside signals of other sorts.
THEOREM SignalsInputs == SpecSignals => [](TypeOK /\ InputsAnnounced)
  <1>1. InputsInv => TypeOK /\ InputsAnnounced
    BY DEF InputsInv, SavedInputs, SavedIsShown, InputsAnnounced
  <1> QED
    BY <1>1, InputsAlways, PTL

\* A contact within the reach of dec_inp shows what it was forced to since the
\* last lift, 0 before 1, or its bit of the buffer if it was not (plc_force,
\* plc_unforce).
THEOREM SignalsForcedContacts == SpecSignals => ForcedContacts
  <1>1. InputsInv /\ [NextSignals]_signals => [ForcedRule]_allvars
    <2> SUFFICES ASSUME InputsInv, BeginScan, NEW c \in Contact, Reached(c)
                 PROVE  di'[c].I = IF forced[c] = {}
                                   THEN (c % BYTESIZE) \in inputs'[c \div BYTESIZE]
                                   ELSE FALSE \notin forced[c]
      BY DEF ForcedRule
    <2> DEFINE bit == (c % BYTESIZE) \in inputs'[c \div BYTESIZE]
    <2>1. inputs' \in Buffer /\ di[c] \in DigitalInput
      BY DEF BeginScan, InputsInv, TypeOK
    <2>2. di'[c].I = Masked(inputs', c, di[c])
      BY <2>1, DecodedKeepsMasks DEF BeginScan
    <2>3. di'[c].I = ((bit \/ di[c].MASK) /\ ~di[c].N_MASK)
      BY <2>2 DEF Masked
    <2>4. /\ forced[c] \subseteq BOOLEAN
          /\ di[c].MASK <=> TRUE \in forced[c]
          /\ di[c].N_MASK <=> FALSE \in forced[c]
      BY DEF InputsInv, ForcedInv
    <2>5. bit \in BOOLEAN
      OBVIOUS
    <2> HIDE DEF bit
    <2>6. CASE forced[c] = {}
      <3>1. di[c].MASK = FALSE /\ di[c].N_MASK = FALSE
        <4>1. TRUE \notin forced[c] /\ FALSE \notin forced[c]
          BY <2>6
        <4> QED
          BY <2>1, <2>4, <4>1 DEF DigitalInput
      <3>2. di'[c].I = bit
        BY <2>3, <2>5, <3>1
      <3> QED
        BY <2>6, <3>2 DEF bit
    <2>7. CASE forced[c] # {}
      <3>1. TRUE \in forced[c] \/ FALSE \in forced[c]
        BY <2>4, <2>7
      <3>2. di'[c].I = (FALSE \notin forced[c])
        BY <2>3, <2>4, <2>5, <3>1
      <3> QED
        BY <2>7, <3>2
    <2> QED
      BY <2>6, <2>7
  <1> QED
    BY <1>1, InputsAlways, PTL DEF SpecSignals, ForcedContacts

-----------------------------------------------------------------------------
(* Forcing of analog values.                                               *)

\* The whole numbers, in units of 1/FULL.
Whole == {k * FULL : k \in Int}

\* What is divided is the quotient and a rest.
LEMMA Quotient ==
    ASSUME NEW a \in Int, NEW b \in Nat \ {0}
    PROVE  a \div b \in Int /\ 0 <= a - (a \div b) * b /\ a - (a \div b) * b < b
  OBVIOUS

LEMMA LimitsAreWhole == Limits \subseteq Whole /\ 0 \in Whole /\ Whole \subseteq Int
  <1> USE AnalogAssumption
  <1>1. ASSUME NEW limit \in Limits PROVE limit \in Whole
    <2>1. limit \in Int /\ limit = (limit \div FULL) * FULL + (limit % FULL)
          /\ limit % FULL = 0
      OBVIOUS
    <2>2. limit = (limit \div FULL) * FULL /\ limit \div FULL \in Int
      BY <2>1
    <2> QED
      BY <2>2 DEF Whole
  <1>2. 0 \in Whole
    <2>1. 0 = 0 * FULL
      OBVIOUS
    <2> QED
      BY <2>1 DEF Whole
  <1>3. ASSUME NEW w \in Whole PROVE w \in Int
    <2>1. PICK k \in Int : w = k * FULL
      BY DEF Whole
    <2> QED
      BY <2>1
  <1> QED
    BY <1>1, <1>2, <1>3

\* Within whole limits an input is scaled without a rest.
LEMMA ScaledExactly ==
    ASSUME NEW low \in Whole, NEW high \in Whole, NEW word \in Int
    PROVE  /\ ((high - low) * word) \div FULL \in Int
           /\ FULL * (((high - low) * word) \div FULL) = word * (high - low)
  <1> USE AnalogAssumption
  <1>1. PICK i \in Int, j \in Int : low = i * FULL /\ high = j * FULL
    BY DEF Whole
  <1> DEFINE k == (j - i) * word
  <1>2. k \in Int /\ (high - low) * word = k * FULL
    BY <1>1
  <1>3. word * (high - low) = k * FULL
    BY <1>1
  <1> HIDE DEF k
  <1>4. (k * FULL) \div FULL = k
    BY <1>2
  <1> QED
    BY <1>2, <1>3, <1>4

\* The word of a value below the upper limit is the nearest one below it.
LEMMA WordsNearest ==
    ASSUME NEW v \in Int, NEW r \in [V : Int, min : Int, max : Int, mask : Int],
           r.min <= v, v < r.max, NEW word \in A!Words(v, r)
    PROVE  /\ 0 <= FULL * (v - r.min) - word * (r.max - r.min)
           /\ FULL * (v - r.min) - word * (r.max - r.min) < r.max - r.min
  <1> USE AnalogAssumption
  <1> DEFINE over == v - r.min
             span == r.max - r.min
  <1>1. over \in Int /\ span \in Nat \ {0} /\ 0 <= over /\ over < span
    OBVIOUS
  <1>2. word = (FULL * over) \div span
    BY <1>1 DEF A!Words
  <1>3. FULL * over \in Int
    BY <1>1
  <1> HIDE DEF over, span
  <1>4. 0 <= FULL * over - word * span /\ FULL * over - word * span < span
    BY <1>1, <1>2, <1>3, Quotient
  <1> QED
    BY <1>4 DEF over, span

Requests == {"nothing", "force", "lift", "limit"}

AnalogType ==
    /\ io \in [A!Channel -> [V : Int, min : Whole, max : Whole, mask : Int]]
    /\ asked \in [A!Channel -> [what : Requests, val : Int]]

\* The masks are as the host asked last, and a forced value lies within the
\* limits as long as these are not moved.
MasksAsAsked ==
    \A c \in A!Channel :
        /\ asked[c].what = "force" => io[c].mask = asked[c].val /\ A!IsForced(io[c])
        /\ asked[c].what = "lift" => io[c].mask = io[c].min

AnalogInv == AnalogType /\ MasksAsAsked

LEMMA AnalogInit == InitSignals => AnalogInv
  <1> SUFFICES ASSUME A!Init PROVE AnalogInv
    BY DEF InitSignals
  <1>1. A!AnalogIO \in [V : Int, min : Whole, max : Whole, mask : Int]
    BY LimitsAreWhole DEF A!AnalogIO
  <1>2. A!Asked("nothing", 0) \in [what : Requests, val : Int]
        /\ A!Asked("nothing", 0).what = "nothing"
    BY DEF A!Asked, Requests
  <1>3. \A c \in A!Channel : asked[c].what = "nothing"
    BY <1>2 DEF A!Init
  <1> QED
    BY <1>1, <1>2, <1>3 DEF A!Init, AnalogInv, AnalogType, MasksAsAsked

\* A call of the host that leaves the channel c as r, with what it asked.
LEMMA HostSetsStep ==
    ASSUME AnalogInv, NEW c \in A!Channel,
           NEW r \in [V : Int, min : Whole, max : Whole, mask : Int],
           NEW what \in [what : Requests, val : Int],
           A!HostSets(c, r, what),
           what.what = "force" => r.mask = what.val /\ A!IsForced(r),
           what.what = "lift" => r.mask = r.min
    PROVE  AnalogInv'
  <1> USE DEF AnalogInv, AnalogType, MasksAsAsked
  <1>1. io' = [io EXCEPT ![c] = r] /\ asked' = [asked EXCEPT ![c] = what]
    BY DEF A!HostSets
  <1>2. AnalogType'
    BY <1>1
  <1>3. ASSUME NEW k \in A!Channel
        PROVE  /\ asked'[k].what = "force" => io'[k].mask = asked'[k].val /\ A!IsForced(io'[k])
               /\ asked'[k].what = "lift" => io'[k].mask = io'[k].min
    <2>1. CASE k = c
      BY <1>1, <2>1
    <2>2. CASE k # c
      BY <1>1, <2>2
    <2> QED
      BY <2>1, <2>2
  <1> QED
    BY <1>2, <1>3 DEF A!IsForced

\* Scans and the program move values alone.
LEMMA ValuesKeepMasks ==
    ASSUME AnalogInv, asked' = asked,
           io' \in [A!Channel -> [V : Int, min : Whole, max : Whole, mask : Int]],
           \A c \in A!Channel : /\ io'[c].min = io[c].min /\ io'[c].max = io[c].max
                                /\ io'[c].mask = io[c].mask
    PROVE  AnalogInv'
  BY DEF AnalogInv, AnalogType, MasksAsAsked, A!IsForced

LEMMA AnalogStep == AnalogInv /\ [NextSignals]_signals => AnalogInv'
  <1> SUFFICES ASSUME AnalogInv, [NextSignals]_signals PROVE AnalogInv'
    OBVIOUS
  <1> DEFINE IO == [V : Int, min : Whole, max : Whole, mask : Int]
  <1> USE AnalogAssumption, LimitsAreWhole
  <1>1. io \in [A!Channel -> IO] /\ asked \in [A!Channel -> [what : Requests, val : Int]]
    BY DEF AnalogInv, AnalogType
  <1>2. CASE A!BeginScan
    <2>1. ASSUME NEW c \in A!Channel
          PROVE  /\ io'[c] \in IO
                 /\ io'[c].min = io[c].min /\ io'[c].max = io[c].max
                 /\ io'[c].mask = io[c].mask
      <3>1. CASE c \in AI
        <4>1. io'[c] = A!Decoded(realIn'[c], io[c]) /\ realIn'[c] \in Int
          BY <1>2, <3>1 DEF A!BeginScan, A!Channel, A!Raw
        <4>2. PICK q \in Int : q = ((io[c].max - io[c].min) * realIn'[c]) \div FULL
          BY <1>1, <4>1, ScaledExactly
        <4>3. A!Scaled(realIn'[c], io[c]) = io[c].min + q /\ io[c].min \in Int
          BY <1>1, <4>2 DEF A!Scaled
        <4> QED
          BY <1>1, <4>1, <4>3 DEF A!Decoded
      <3>2. CASE c \notin AI
        BY <1>1, <1>2, <3>2 DEF A!BeginScan
      <3> QED
        BY <3>1, <3>2
    <2>2. io' = [c \in A!Channel |-> io'[c]] /\ asked' = asked
      BY <1>2 DEF A!BeginScan
    <2> QED
      BY <2>1, <2>2, ValuesKeepMasks
  <1>3. CASE A!EndScan \/ A!Start \/ A!Stop \/ A!StatusSet \/ A!ResetUpdate
    <2>1. io' = io /\ asked' = asked
      BY <1>3 DEF A!EndScan, A!Start, A!Stop, A!StatusSet, A!ResetUpdate
    <2> QED
      BY <1>1, <2>1, ValuesKeepMasks
  <1>4. ASSUME NEW c \in A!Channel, A!Unforce(c) PROVE AnalogInv'
    <2> DEFINE r == [io[c] EXCEPT !.mask = io[c].min]
    <2>1. r \in IO /\ r.mask = r.min
      BY <1>1
    <2>2. A!Asked("lift", 0) \in [what : Requests, val : Int]
          /\ A!Asked("lift", 0).what = "lift"
      BY DEF A!Asked, Requests
    <2>3. A!HostSets(c, r, A!Asked("lift", 0))
      BY <1>4 DEF A!Unforce
    <2> HIDE DEF r
    <2> QED
      BY <2>1, <2>2, <2>3, HostSetsStep
  <1>5. ASSUME NEW c \in A!Channel, NEW val \in Values, A!Force(c, val) PROVE AnalogInv'
    <2> DEFINE r == [io[c] EXCEPT !.mask = val]
    <2>1. r \in IO /\ r.mask = val /\ A!IsForced(r)
      BY <1>1, <1>5 DEF A!Force
    <2>2. A!Asked("force", val) \in [what : Requests, val : Int]
          /\ A!Asked("force", val).what = "force" /\ A!Asked("force", val).val = val
      BY DEF A!Asked, Requests
    <2>3. A!HostSets(c, r, A!Asked("force", val))
      BY <1>5 DEF A!Force
    <2> HIDE DEF r
    <2> QED
      BY <2>1, <2>2, <2>3, HostSetsStep
  <1>6. ASSUME NEW c \in A!Channel, A!Limit(c) PROVE AnalogInv'
    <2>1. /\ A!Moved(c) \in [what : Requests, val : Int]
          /\ A!Moved(c).what \notin {"force", "lift"}
      <3>1. CASE asked[c].what = "nothing"
        BY <1>1, <3>1 DEF A!Moved
      <3>2. CASE asked[c].what # "nothing"
        BY <3>2 DEF A!Moved, A!Asked, Requests
      <3> QED
        BY <3>1, <3>2
    <2>2. PICK val \in Limits :
              \/ A!HostSets(c, [io[c] EXCEPT !.max = val], A!Moved(c))
              \/ A!HostSets(c, [io[c] EXCEPT !.min = val], A!Moved(c))
      BY <1>6 DEF A!Limit
    <2>3. [io[c] EXCEPT !.max = val] \in IO /\ [io[c] EXCEPT !.min = val] \in IO
      BY <1>1
    <2> QED
      BY <2>1, <2>2, <2>3, HostSetsStep
  <1>7. ASSUME NEW c \in A!Channel, NEW val \in Values, A!Store(c, val) PROVE AnalogInv'
    <2>1. io' = [io EXCEPT ![c].V = val] /\ asked' = asked
      BY <1>7 DEF A!Store
    <2> QED
      BY <1>1, <2>1, ValuesKeepMasks
  <1>8. CASE UNCHANGED analogside
    <2>1. io' = io /\ asked' = asked
      BY <1>8 DEF analogside
    <2> QED
      BY <1>1, <2>1, ValuesKeepMasks
  <1> QED
    BY <1>2, <1>3, <1>4, <1>5, <1>6, <1>7, <1>8, AnalogSteps DEF A!Next

\* What is forced is read and driven, and what is lifted comes from the plant
\* and the program again, in the scale of any whole limits, for any values
\* (plc_force, plc_unforce, dec_inp, enc_out).
THEOREM SignalsForcedValues == SpecSignals => ForcedValues
  <1>1. AnalogInv => ValuesRule
    <2> SUFFICES ASSUME AnalogInv PROVE ValuesRule
      OBVIOUS
    <2> USE AnalogAssumption, LimitsAreWhole
    <2>1. /\ io \in [A!Channel -> [V : Int, min : Whole, max : Whole, mask : Int]]
          /\ asked \in [A!Channel -> [what : Requests, val : Int]]
      BY DEF AnalogInv, AnalogType
    <2>2. ASSUME A!BeginScan, NEW c \in AI
          PROVE  /\ asked[c].what = "force" => io'[c].V = asked[c].val
                 /\ asked[c].what = "lift" =>
                       FULL * (io'[c].V - io[c].min) = realIn'[c] * (io[c].max - io[c].min)
      <3>1. c \in A!Channel /\ realIn'[c] \in Int /\ io'[c] = A!Decoded(realIn'[c], io[c])
        BY <2>2 DEF A!BeginScan, A!Channel, A!Raw
      <3>2. io'[c].V = IF A!IsForced(io[c]) THEN io[c].mask ELSE A!Scaled(realIn'[c], io[c])
        BY <2>1, <3>1 DEF A!Decoded
      <3>3. asked[c].what = "force" => io'[c].V = asked[c].val
        BY <3>1, <3>2 DEF AnalogInv, MasksAsAsked
      <3>4. ASSUME asked[c].what = "lift"
            PROVE  FULL * (io'[c].V - io[c].min) = realIn'[c] * (io[c].max - io[c].min)
        <4>1. ~A!IsForced(io[c])
          BY <2>1, <3>1, <3>4 DEF AnalogInv, MasksAsAsked, A!IsForced
        <4>2. PICK q \in Int : /\ q = ((io[c].max - io[c].min) * realIn'[c]) \div FULL
                               /\ FULL * q = realIn'[c] * (io[c].max - io[c].min)
          BY <2>1, <3>1, ScaledExactly
        <4>3. io'[c].V = io[c].min + q /\ io[c].min \in Int
          BY <2>1, <3>1, <3>2, <4>1, <4>2 DEF A!Scaled
        <4>4. io'[c].V - io[c].min = q
          BY <4>2, <4>3
        <4> QED
          BY <4>2, <4>4
      <3> QED
        BY <3>3, <3>4
    <2>3. ASSUME A!EndScan, NEW c \in AQ, NEW v,
                 v = IF asked[c].what = "force" THEN asked[c].val ELSE io[c].V,
                 asked[c].what \in {"force", "lift"}, io[c].min <= v, v < io[c].max
          PROVE  LET rest == FULL * (v - io[c].min) - lines'[c] * (io[c].max - io[c].min)
                 IN 0 <= rest /\ rest < io[c].max - io[c].min
      <3>1. c \in A!Channel /\ lines'[c] \in A!Encodings(io[c])
        BY <2>3 DEF A!EndScan, A!Channel
      <3>2. io[c] \in [V : Int, min : Int, max : Int, mask : Int]
        BY <2>1, <3>1
      <3>3. v \in Int /\ v = IF A!IsForced(io[c]) THEN io[c].mask ELSE io[c].V
        BY <2>1, <2>3, <3>1 DEF AnalogInv, MasksAsAsked, A!IsForced
      <3>4. lines'[c] \in A!Words(v, io[c])
        BY <3>1, <3>3 DEF A!Encodings
      <3> QED
        BY <2>3, <3>2, <3>3, <3>4, WordsNearest
    <2> QED
      BY <2>2, <2>3 DEF ValuesRule
  <1> QED
    BY <1>1, AnalogInit, AnalogStep, PTL DEF SpecSignals, ForcedValues

-----------------------------------------------------------------------------
(* Bits and samples on their way.                                          *)

LEMMA PowersOfTransfer ==
    /\ T!Power = Power
    /\ \A v, k : T!BitIn(v, k) = BitIn(v, k)
    /\ \A buffer, k : T!BitOf(buffer, k) = BitIn(buffer[k \div BYTESIZE], k % BYTESIZE)
  <1>1. T!Power = Power
    BY DEF T!Power, Power
  <1> QED
    BY <1>1 DEF T!BitIn, BitIn, T!BitOf

\* What the buffers of transfers hold.
Bytes == [T!Byte -> T!Value]

\* A pin is a bit of one byte, and every bit of a byte is a pin.
LEMMA PinsAreBits ==
    ASSUME NEW k \in T!Pin
    PROVE  /\ k \in Nat /\ k \div BYTESIZE \in T!Byte /\ k % BYTESIZE \in 0 .. BYTESIZE - 1
           /\ k = (k \div BYTESIZE) * BYTESIZE + (k % BYTESIZE)
  <1>1. k \in Nat /\ k < NI * BYTESIZE
    BY DEF T!Pin
  <1> DEFINE q == k \div BYTESIZE
             r == k % BYTESIZE
  <1>2. q \in Int /\ r \in 0 .. BYTESIZE - 1 /\ k = q * BYTESIZE + r
    BY <1>1, Division
  <1> HIDE DEF q, r
  <1>3. q >= 0
    <2> SUFFICES ASSUME q <= -1 PROVE FALSE
      BY <1>2
    <2>1. q * BYTESIZE <= (-1) * BYTESIZE
      BY <1>2
    <2> QED
      BY <1>1, <1>2, <2>1
  <1>4. q < NI
    <2> SUFFICES ASSUME q >= NI PROVE FALSE
      BY <1>2
    <2>1. q * BYTESIZE >= NI * BYTESIZE
      BY <1>2
    <2> QED
      BY <1>1, <1>2, <2>1
  <1>5. q \in 0 .. NI - 1
    BY <1>2, <1>3, <1>4
  <1> QED
    BY <1>1, <1>2, <1>5 DEF q, r, T!Byte

LEMMA BitsArePins ==
    ASSUME NEW i \in T!Byte, NEW e \in 0 .. BYTESIZE - 1
    PROVE  /\ i * BYTESIZE + e \in T!Pin
           /\ (i * BYTESIZE + e) \div BYTESIZE = i /\ (i * BYTESIZE + e) % BYTESIZE = e
  <1>1. i \in Nat /\ i <= NI - 1
    BY DEF T!Byte
  <1>2. i * BYTESIZE <= (NI - 1) * BYTESIZE /\ i * BYTESIZE >= 0
    BY <1>1
  <1>3. (NI - 1) * BYTESIZE = NI * BYTESIZE - BYTESIZE
    OBVIOUS
  <1>4. i * BYTESIZE \in Int /\ NI * BYTESIZE \in Int
    BY <1>1
  <1>5. i * BYTESIZE + e \in 0 .. NI * BYTESIZE - 1
    BY <1>2, <1>3, <1>4
  <1>6. (i * BYTESIZE + e) \div BYTESIZE = i /\ (i * BYTESIZE + e) % BYTESIZE = e
    <2>1. i \in Int /\ i * BYTESIZE + e \in Int
      BY <1>1, <1>4
    <2> QED
      BY <2>1, DivisionUnique
  <1> QED
    BY <1>5, <1>6 DEF T!Pin

LEMMA ValueRange == T!Value = 0 .. Power[BYTESIZE] - 1 /\ 0 \in T!Value /\ T!Value \subseteq Nat
  BY Powers, PowersOfTransfer DEF T!Value

LEMMA PinBit ==
    ASSUME NEW buffer \in Bytes, NEW k \in T!Pin
    PROVE  T!BitOf(buffer, k) \in {0, 1}
  <1>1. buffer[k \div BYTESIZE] \in Int /\ k % BYTESIZE \in Nat
    BY PinsAreBits, ValueRange DEF Bytes
  <1> QED
    BY <1>1, BitRange, PowersOfTransfer

\* Bit k of a buffer is set (c = 1), cleared (-1) or left.
Changed(buffer, k, c) == [buffer EXCEPT ![k \div BYTESIZE] = @ + c * T!Power[k % BYTESIZE]]

LEMMA PinChanged ==
    ASSUME NEW buffer \in Bytes, NEW k \in T!Pin, NEW c \in {-1, 0, 1},
           T!BitOf(buffer, k) + c \in {0, 1}
    PROVE  /\ Changed(buffer, k, c) \in Bytes
           /\ \A j \in T!Pin : T!BitOf(Changed(buffer, k, c), j) =
                  IF j = k THEN T!BitOf(buffer, k) + c ELSE T!BitOf(buffer, j)
  <1> DEFINE b == k \div BYTESIZE
             e == k % BYTESIZE
             v == buffer[b]
             w == v + c * Power[e]
             changed == Changed(buffer, k, c)
  <1>1. b \in T!Byte /\ e \in 0 .. BYTESIZE - 1 /\ e \in Nat /\ k = b * BYTESIZE + e
    BY PinsAreBits
  <1>2. v \in 0 .. Power[BYTESIZE] - 1 /\ v \in Int
    BY <1>1, ValueRange DEF Bytes
  <1>3. T!BitOf(buffer, k) = BitIn(v, e)
    BY PowersOfTransfer
  <1>4. w \in T!Value
    <2>1. w \in 0 .. Power[BYTESIZE] - 1
      BY <1>1, <1>2, <1>3, ChangedRange
    <2> QED
      BY <2>1, ValueRange
  <1>5. changed = [buffer EXCEPT ![b] = w]
    BY <1>1, PowersOfTransfer DEF Bytes, Changed
  <1> HIDE DEF w, changed
  <1>6. changed \in Bytes /\ changed[b] = w /\ \A i \in T!Byte : i # b => changed[i] = buffer[i]
    BY <1>1, <1>4, <1>5 DEF Bytes
  <1>7. ASSUME NEW j \in T!Pin
        PROVE  T!BitOf(changed, j) = IF j = k THEN T!BitOf(buffer, k) + c
                                     ELSE T!BitOf(buffer, j)
    <2> DEFINE i == j \div BYTESIZE
               f == j % BYTESIZE
    <2>1. i \in T!Byte /\ f \in Nat /\ j = i * BYTESIZE + f
      BY PinsAreBits
    <2>2. T!BitOf(changed, j) = BitIn(changed[i], f) /\ T!BitOf(buffer, j) = BitIn(buffer[i], f)
      BY PowersOfTransfer
    <2> HIDE DEF i, f
    <2>3. CASE i # b
      <3>1. j # k
        BY <2>3 DEF i
      <3> QED
        BY <1>6, <2>1, <2>2, <2>3, <3>1
    <2>4. CASE i = b
      <3>1. f = e <=> j = k
        BY <1>1, <2>1, <2>4 DEF f
      <3>2. BitIn(w, f) = IF f = e THEN BitIn(v, e) + c ELSE BitIn(v, f)
        BY <1>1, <1>2, <1>3, <2>1, BitChanged DEF w
      <3> QED
        BY <1>3, <1>6, <2>2, <2>4, <3>1, <3>2
    <2> QED
      BY <2>3, <2>4
  <1> QED
    BY <1>6, <1>7 DEF changed

LEMMA WithBit ==
    ASSUME NEW buffer \in Bytes, NEW k \in T!Pin, NEW bit \in {0, 1}
    PROVE  /\ T!With(buffer, k, bit) \in Bytes
           /\ \A j \in T!Pin : T!BitOf(T!With(buffer, k, bit), j) =
                                   IF j = k THEN bit ELSE T!BitOf(buffer, j)
  <1> DEFINE c == bit - T!BitOf(buffer, k)
  <1>1. c \in {-1, 0, 1} /\ T!BitOf(buffer, k) + c = bit
    BY PinBit
  <1>2. T!With(buffer, k, bit) = Changed(buffer, k, c)
    BY DEF T!With, Changed
  <1> HIDE DEF c
  <1> QED
    BY <1>1, <1>2, PinChanged

LEMMA OrBit ==
    ASSUME NEW buffer \in Bytes, NEW k \in T!Pin, NEW bit \in {0, 1}
    PROVE  /\ T!Or(buffer, k, bit) \in Bytes
           /\ \A j \in T!Pin : T!BitOf(T!Or(buffer, k, bit), j) =
                                   IF j = k /\ bit = 1 THEN 1 ELSE T!BitOf(buffer, j)
  <1> DEFINE c == (1 - T!BitOf(buffer, k)) * bit
  <1>1. c \in {-1, 0, 1} /\ T!BitOf(buffer, k) + c = (IF bit = 1 THEN 1 ELSE T!BitOf(buffer, k))
        /\ T!BitOf(buffer, k) + c \in {0, 1}
    BY PinBit
  <1>2. T!Or(buffer, k, bit) = Changed(buffer, k, c)
    BY DEF T!Or, Changed
  <1> HIDE DEF c
  <1> QED
    BY <1>1, <1>2, PinChanged

\* Buffers with the same bits are the same.
LEMMA SamePins ==
    ASSUME NEW a \in Bytes, NEW b \in Bytes, \A k \in T!Pin : T!BitOf(a, k) = T!BitOf(b, k)
    PROVE  a = b
  <1>1. ASSUME NEW i \in T!Byte PROVE a[i] = b[i]
    <2>1. a[i] \in 0 .. Power[BYTESIZE] - 1 /\ b[i] \in 0 .. Power[BYTESIZE] - 1
      BY ValueRange DEF Bytes
    <2>2. ASSUME NEW e \in 0 .. BYTESIZE - 1 PROVE BitIn(a[i], e) = BitIn(b[i], e)
      <3> DEFINE k == i * BYTESIZE + e
      <3>1. k \in T!Pin /\ k \div BYTESIZE = i /\ k % BYTESIZE = e
        BY BitsArePins
      <3> HIDE DEF k
      <3>2. T!BitOf(a, k) = BitIn(a[i], e) /\ T!BitOf(b, k) = BitIn(b[i], e)
        BY <3>1, PowersOfTransfer
      <3> QED
        BY <3>1, <3>2
    <2> QED
      BY <2>1, <2>2, SameBits
  <1> QED
    BY <1>1 DEF Bytes

\* A character counts as a digit, whole or with its sign.
LEMMA SignedRange ==
    ASSUME NEW c \in T!Value
    PROVE  T!Signed(c) \in Int /\ (c < T!Power[BYTESIZE - 1] => T!Signed(c) = c)
  <1>1. Power[BYTESIZE] \in Int /\ c \in Int
    BY Powers, ValueRange
  <1> QED
    BY <1>1, PowersOfTransfer DEF T!Signed

\* How a word is spelled, character by character.
LEMMA Spelling ==
    ASSUME bufIn \in Bytes
    PROVE  /\ T!Spelled \in [0 .. NI -> Nat] /\ T!Spelled[0] = 0
           /\ \A i \in 1 .. NI : T!Spelled[i] =
                  (T!Spelled[i - 1] + T!Signed(bufIn[NI - i]) * Power[BYTESIZE * (i - 1)])
                      % Power[NI * BYTESIZE]
  <1> DEFINE add == [i \in 1 .. NI |-> T!Signed(bufIn[NI - i]) * Power[BYTESIZE * (i - 1)]]
             word == Power[NI * BYTESIZE]
             H == [p \in (1 .. NI) \X Nat |-> (p[2] + add[p[1]]) % word]
             Body(f) == [i \in 0 .. NI |-> IF i = 0 THEN 0 ELSE (f[i - 1] + add[i]) % word]
  <1>1. word \in Nat \ {0}
    BY Powers
  <1>2. \A i \in 1 .. NI : add[i] \in Int
    <2> SUFFICES ASSUME NEW i \in 1 .. NI PROVE add[i] \in Int
      OBVIOUS
    <2>1. NI - i \in T!Byte /\ BYTESIZE * (i - 1) \in Nat
      BY DEF T!Byte
    <2>2. bufIn[NI - i] \in T!Value
      BY <2>1 DEF Bytes
    <2>3. T!Signed(bufIn[NI - i]) \in Int /\ Power[BYTESIZE * (i - 1)] \in Int
      BY <2>1, <2>2, SignedRange, Powers
    <2> QED
      BY <2>3
  <1>a. \A i \in 1 .. NI : add[i] = T!Signed(bufIn[NI - i]) * Power[BYTESIZE * (i - 1)]
    OBVIOUS
  <1>b. T!Spelled = CHOOSE f : f = Body(f)
    <2>1. ASSUME NEW f
          PROVE  Body(f) = [i \in 0 .. NI |-> IF i = 0 THEN 0 ELSE
                     (f[i - 1] + T!Signed(bufIn[NI - i]) * T!Power[BYTESIZE * (i - 1)]) % T!WORD]
      <3>1. \A i \in 0 .. NI : i # 0 => i \in 1 .. NI
        OBVIOUS
      <3> HIDE DEF add
      <3> QED
        BY <1>a, <3>1, PowersOfTransfer DEF T!WORD
    <2> HIDE DEF Body
    <2> QED
      BY <2>1 DEF T!Spelled
  <1> HIDE DEF add, word
  <1>3. ASSUME NEW i \in 1 .. NI, NEW v \in Nat PROVE (v + add[i]) % word \in Nat
    <2>1. v + add[i] \in Int
      BY <1>2
    <2>2. (v + add[i]) % word \in 0 .. word - 1
      BY <1>1, <2>1, Division
    <2> QED
      BY <1>1, <2>2
  <1>4. H \in [(1 .. NI) \X Nat -> Nat] /\ 0 \in Nat
    BY <1>3
  <1>5. \A i \in 1 .. NI, v \in Nat : H[<<i, v>>] = (v + add[i]) % word
    OBVIOUS
  <1> HIDE DEF H
  <1>6. Recursed(NI, Nat, 0, H)
    BY <1>4, Recursion
  <1>7. PICK g \in [0 .. NI -> Nat] : g[0] = 0 /\ \A i \in 1 .. NI : g[i] = H[<<i, g[i - 1]>>]
    BY <1>6 DEF Recursed
  <1>8. \A i \in 1 .. NI : g[i] = (g[i - 1] + add[i]) % word
    <2> SUFFICES ASSUME NEW i \in 1 .. NI PROVE g[i] = (g[i - 1] + add[i]) % word
      OBVIOUS
    <2>1. i - 1 \in 0 .. NI
      OBVIOUS
    <2>2. g[i - 1] \in Nat
      BY <2>1
    <2> QED
      BY <1>5, <1>7, <2>2
  <1>c. \A i \in 0 .. NI : i # 0 => i \in 1 .. NI
    OBVIOUS
  <1>d. \A i \in 1 .. NI : i \in 0 .. NI /\ i # 0 /\ i - 1 \in 0 .. NI
    OBVIOUS
  <1>9. g = Body(g)
    <2>1. \A i \in 0 .. NI : g[i] = IF i = 0 THEN 0 ELSE (g[i - 1] + add[i]) % word
      BY <1>7, <1>8, <1>c
    <2>2. g = [i \in 0 .. NI |-> g[i]]
      OBVIOUS
    <2> QED
      BY <2>1, <2>2
  <1>10. T!Spelled = Body(T!Spelled)
    <2> HIDE DEF Body
    <2> QED
      BY <1>b, <1>9
  <1>11. T!Spelled[0] = 0 /\ \A i \in 1 .. NI : T!Spelled[i] = (T!Spelled[i - 1] + add[i]) % word
    <2>1. \A i \in 0 .. NI :
              T!Spelled[i] = IF i = 0 THEN 0 ELSE (T!Spelled[i - 1] + add[i]) % word
      BY <1>10
    <2>2. 0 \in 0 .. NI
      OBVIOUS
    <2> QED
      BY <1>d, <2>1, <2>2
  <1>12. \A i \in 0 .. NI : T!Spelled[i] \in Nat
    <2> DEFINE S == {i \in 0 .. NI : T!Spelled[i] \in Nat}
    <2>1. 0 \in S
      BY <1>11
    <2>2. ASSUME NEW i \in 1 .. NI, i - 1 \in S PROVE i \in S
      <3>1. T!Spelled[i - 1] \in Nat
        BY <2>2
      <3>2. T!Spelled[i] \in Nat
        BY <1>3, <1>11, <3>1
      <3> QED
        BY <1>d, <3>2
    <2> HIDE DEF S
    <2>3. \A i \in 0 .. NI : i \in S
      BY <2>1, <2>2, Induction
    <2> QED
      BY <2>3 DEF S
  <1>13. T!Spelled \in [0 .. NI -> Nat]
    BY <1>10, <1>12
  <1> QED
    BY <1>a, <1>11, <1>13 DEF word

\* A number of b digits with one more digit before it.
LEMMA DigitBefore ==
    ASSUME NEW a \in Nat, NEW v \in 0 .. Power[a] - 1, NEW w \in Nat, NEW d \in 0 .. Power[w] - 1
    PROVE  /\ v + d * Power[a] \in 0 .. Power[a + w] - 1
           /\ (v + d * Power[a]) \div Power[a] = d
  <1>1. Power[a] \in Nat \ {0} /\ Power[w] \in Nat \ {0} /\ Power[a + w] = Power[a] * Power[w]
    BY Powers, PowerOfSum
  <1> DEFINE p == Power[a]
             q == Power[w]
  <1>2. p \in Nat \ {0} /\ q \in Nat \ {0} /\ Power[a + w] = p * q
        /\ v \in 0 .. p - 1 /\ d \in 0 .. q - 1
    BY <1>1
  <1> HIDE DEF p, q
  <1>3. d * p >= 0 /\ d * p <= (q - 1) * p /\ d * p \in Int
    BY <1>2
  <1>4. (q - 1) * p = p * q - p /\ p * q \in Int
    BY <1>2
  <1>5. v + d * p \in 0 .. p * q - 1
    BY <1>2, <1>3, <1>4
  <1>6. (v + d * p) \div p = d
    <2>1. v + d * p = d * p + v /\ v + d * p \in Int /\ d \in Int
      BY <1>2, <1>3
    <2> QED
      BY <1>2, <2>1, DivisionUnique
  <1> QED
    BY <1>2, <1>5, <1>6 DEF p

\* The word spells its characters, the first of them first, if none is negative.
LEMMA SpelledOut ==
    ASSUME bufIn \in Bytes, \A i \in T!Byte : bufIn[i] \in 1 .. T!Power[BYTESIZE - 1] - 1
    PROVE  \A i \in T!Byte :
               (T!Spelled[NI] \div Power[BYTESIZE * (NI - 1 - i)]) % Power[BYTESIZE] = bufIn[i]
  <1> DEFINE s == T!Spelled
             S == {k \in 0 .. NI :
                     /\ s[k] \in 0 .. Power[BYTESIZE * k] - 1
                     /\ \A j \in 0 .. k - 1 :
                          (s[k] \div Power[BYTESIZE * j]) % Power[BYTESIZE] = bufIn[NI - 1 - j]}
  <1>1. 0 \in S
    <2>1. s[0] = 0 /\ BYTESIZE * 0 = 0
      BY Spelling
    <2> QED
      BY <2>1, Powers
  <1>2. ASSUME NEW k \in 1 .. NI, k - 1 \in S PROVE k \in S
    <2> DEFINE a == BYTESIZE * (k - 1)
               c == bufIn[NI - k]
    <2>1. NI - k \in T!Byte
      BY DEF T!Byte
    <2>2. c \in T!Value /\ c \in 1 .. T!Power[BYTESIZE - 1] - 1
      BY <2>1 DEF Bytes
    <2>3. c \in 0 .. Power[BYTESIZE] - 1 /\ T!Signed(c) = c
      <3>1. c \in 0 .. Power[BYTESIZE] - 1
        BY <2>2, ValueRange
      <3>2. T!Power[BYTESIZE - 1] \in Nat
        BY Powers, PowersOfTransfer
      <3>3. c < T!Power[BYTESIZE - 1]
        BY <2>2, <3>2
      <3> QED
        BY <2>2, <3>1, <3>3, SignedRange
    <2>4. a \in Nat /\ a + BYTESIZE = BYTESIZE * k /\ BYTESIZE * k <= NI * BYTESIZE
          /\ BYTESIZE * k \in Nat
      OBVIOUS
    <2>5. s[k - 1] \in 0 .. Power[a] - 1
      BY <1>2
    <2>6. s[k] = (s[k - 1] + c * Power[a]) % Power[NI * BYTESIZE]
      BY <2>3, Spelling
    <2> DEFINE v == s[k - 1] + c * Power[a]
    <2> HIDE DEF a, s, c
    <2>7. v \in 0 .. Power[BYTESIZE * k] - 1 /\ v \div Power[a] = c
      BY <2>3, <2>4, <2>5, DigitBefore
    <2>8. v \in 0 .. Power[NI * BYTESIZE] - 1
      <3> DEFINE more == NI * BYTESIZE - BYTESIZE * k
      <3>1. more \in Nat /\ NI * BYTESIZE = BYTESIZE * k + more
        BY <2>4
      <3> HIDE DEF more
      <3>2. Power[NI * BYTESIZE] = Power[BYTESIZE * k] * Power[more]
            /\ Power[BYTESIZE * k] \in Nat \ {0} /\ Power[more] \in Nat \ {0}
        <4>1. Power[BYTESIZE * k + more] = Power[BYTESIZE * k] * Power[more]
          BY <2>4, <3>1, PowerOfSum
        <4> QED
          BY <2>4, <3>1, <4>1, Powers
      <3>3. Power[BYTESIZE * k] * Power[more] >= Power[BYTESIZE * k]
        BY <3>2
      <3> QED
        BY <2>7, <3>2, <3>3
    <2>9. s[k] = v
      <3>1. NI * BYTESIZE \in Nat
        OBVIOUS
      <3>2. Power[NI * BYTESIZE] \in Nat \ {0}
        BY <3>1, Powers
      <3>3. v % Power[NI * BYTESIZE] = v
        BY <2>8, <3>2, DivisionBelow
      <3> QED
        BY <2>6, <3>3
    <2>10. ASSUME NEW j \in 0 .. k - 1
           PROVE  (s[k] \div Power[BYTESIZE * j]) % Power[BYTESIZE] = bufIn[NI - 1 - j]
      <3>1. CASE j = k - 1
        <4>1. (v \div Power[a]) % Power[BYTESIZE] = c
          BY <2>3, <2>7, DivisionBelow, Powers
        <4> QED
          BY <2>9, <3>1, <4>1 DEF a, c
      <3>2. CASE j # k - 1
        <4> DEFINE b == BYTESIZE * j
                   d == BYTESIZE * (k - 2 - j)
                   t == c * Power[d]
        <4>1. j \in 0 .. (k - 1) - 1 /\ b \in Nat /\ d \in Nat /\ a = (d + BYTESIZE) + b
          BY <3>2 DEF a
        <4>2. (s[k - 1] \div Power[b]) % Power[BYTESIZE] = bufIn[NI - 1 - j]
          BY <1>2, <4>1 DEF s
        <4> HIDE DEF b, d
        <4>3. /\ Power[a] = Power[d + BYTESIZE] * Power[b]
              /\ Power[d + BYTESIZE] = Power[d] * Power[BYTESIZE]
          <5>1. d + BYTESIZE \in Nat /\ BYTESIZE \in Nat
            BY <4>1
          <5>2. Power[(d + BYTESIZE) + b] = Power[d + BYTESIZE] * Power[b]
            BY <4>1, <5>1, PowerOfSum
          <5> QED
            BY <4>1, <5>1, <5>2, PowerOfSum
        <4>4. /\ Power[b] \in Nat \ {0} /\ Power[BYTESIZE] \in Nat \ {0} /\ Power[d] \in Nat
              /\ c \in Int /\ s[k - 1] \in Int /\ t \in Int
          BY <2>3, <2>5, <4>1, Powers
        <4>5. c * Power[a] = (t * Power[BYTESIZE]) * Power[b] /\ t * Power[BYTESIZE] \in Int
          BY <4>3, <4>4
        <4> HIDE DEF t
        <4>6. (s[k - 1] + (t * Power[BYTESIZE]) * Power[b]) \div Power[b]
                  = s[k - 1] \div Power[b] + t * Power[BYTESIZE]
          BY <4>4, <4>5, DivisionOfSum
        <4>7. s[k - 1] \div Power[b] \in Int
          BY <4>4, Division
        <4>8. (s[k - 1] \div Power[b] + t * Power[BYTESIZE]) % Power[BYTESIZE]
                  = (s[k - 1] \div Power[b]) % Power[BYTESIZE]
          BY <4>4, <4>7, DivisionOfSum
        <4> QED
          BY <2>9, <4>2, <4>5, <4>6, <4>8 DEF b
      <3> QED
        BY <3>1, <3>2
    <2> QED
      BY <2>7, <2>9, <2>10 DEF s
  <1> HIDE DEF S
  <1>3. \A k \in 0 .. NI : k \in S
    BY <1>1, <1>2, Induction
  <1>4. NI \in S
    BY <1>3
  <1> SUFFICES ASSUME NEW i \in T!Byte
               PROVE  (s[NI] \div Power[BYTESIZE * (NI - 1 - i)]) % Power[BYTESIZE] = bufIn[i]
    OBVIOUS
  <1>5. NI - 1 - i \in 0 .. NI - 1 /\ NI - 1 - (NI - 1 - i) = i
    BY DEF T!Byte
  <1> HIDE DEF s
  <1> QED
    BY <1>4, <1>5 DEF S

\* The sorts of what is counted are not mixed, and buffers hold bytes.
TransferType ==
    /\ kind \in {"gpiod", "comedi", "uspace", "sim", "dry"}
    /\ ni \in {0, NI} /\ nq \in {0, NI} /\ nai \in {0, 1} /\ naq \in {0, 1}
    /\ ni > 0 => nai = 0
    /\ nq > 0 => naq = 0
    /\ nai > 0 => ni = 0 /\ nq = 0 /\ naq = 0 /\ NI > 0
    /\ naq > 0 => ni = 0 /\ nq = 0 /\ nai = 0 /\ NI > 0 /\ kind # "sim"
    /\ at \in {"host", "read", "tasks", "write"} /\ n \in Nat
    /\ read \in Bytes /\ written \in Bytes /\ bufIn \in Bytes /\ bufOut \in Bytes
    /\ plant \in Bytes /\ device \in Bytes
    /\ raw \in Nat
    /\ DOMAIN seen = T!Pin \cup {T!SAMPLE}

LEMMA TransferSteps == [NextSignals]_signals => T!Next \/ UNCHANGED transferside
  BY DEF NextSignals, signals

LEMMA TransferTypeInit == T!Init => TransferType
  <1> SUFFICES ASSUME T!Init PROVE TransferType
    OBVIOUS
  <1>1. T!Zeros \in Bytes
    BY ValueRange DEF T!Zeros, Bytes
  <1>2. /\ ni \in {0, NI} /\ nq \in {0, NI} /\ nai \in {0, 1} /\ naq \in {0, 1}
        /\ ni + nq + NI * (nai + naq) = NI /\ (NI = 0 => nai + naq = 0)
    BY DEF T!Init
  <1>3. /\ ni > 0 => nai = 0
        /\ nq > 0 => naq = 0
        /\ nai > 0 => ni = 0 /\ nq = 0 /\ naq = 0 /\ NI > 0
        /\ naq > 0 => ni = 0 /\ nq = 0 /\ nai = 0 /\ NI > 0
    <2>1. CASE nai = 0 /\ naq = 0
      BY <1>2, <2>1
    <2>2. CASE nai = 1 /\ naq = 0
      BY <1>2, <2>2
    <2>3. CASE nai = 0 /\ naq = 1
      BY <1>2, <2>3
    <2>4. CASE nai = 1 /\ naq = 1
      BY <1>2, <2>4
    <2> QED
      BY <1>2, <2>1, <2>2, <2>3, <2>4
  <1> QED
    BY <1>1, <1>2, <1>3 DEF T!Init, TransferType

LEMMA PlainRange ==
    ASSUME NEW c \in T!Value
    PROVE  T!Plain(c) \in T!Value
  <1>1. c \in Nat /\ c \in 0 .. Power[BYTESIZE] - 1 /\ Power[BYTESIZE] \in Nat
        /\ T!Power[BYTESIZE - 1] \in Nat
    <2>1. BYTESIZE \in Nat /\ BYTESIZE - 1 \in Nat
      OBVIOUS
    <2>2. Power[BYTESIZE] \in Nat \ {0} /\ Power[BYTESIZE - 1] \in Nat \ {0}
      BY <2>1, Powers
    <2> QED
      BY <2>2, ValueRange, PowersOfTransfer
  <1>2. T!Plain(c) \in 0 .. Power[BYTESIZE] - 1
    BY <1>1, HardwareAssumption DEF T!Plain
  <1> QED
    BY <1>2, ValueRange

LEMMA CodedRange ==
    ASSUME NEW q \in T!Value
    PROVE  T!Coded(q) \in T!Value
  <1>1. q + ASCIISTART \in Int /\ Power[BYTESIZE] \in Nat \ {0}
    BY ValueRange, Powers, HardwareAssumption
  <1>2. (q + ASCIISTART) % Power[BYTESIZE] \in 0 .. Power[BYTESIZE] - 1
    BY <1>1, Division
  <1> QED
    BY <1>2, ValueRange, PowersOfTransfer DEF T!Coded

LEMMA FirstByte == NI > 0 => 0 \in T!Byte
  BY DEF T!Byte

\* What a simulation fetches are bytes.
LEMMA FetchType ==
    ASSUME bufIn \in Bytes, plant' \in Bytes, T!Fetch
    PROVE  bufIn' \in Bytes /\ DOMAIN seen' = DOMAIN seen
  <1>1. ASSUME NEW count \in 0 .. NI, T!SimFetch(count) PROVE bufIn' \in Bytes
    <2>1. ASSUME NEW i \in T!Byte
          PROVE  (IF i >= count THEN bufIn[i]
                  ELSE IF nai > 0 THEN plant'[i] ELSE T!Plain(plant'[i])) \in T!Value
      <3>1. bufIn[i] \in T!Value /\ plant'[i] \in T!Value
        BY DEF Bytes
      <3> QED
        BY <3>1, PlainRange
    <2> QED
      BY <1>1, <2>1 DEF T!SimFetch, Bytes
  <1> QED
    BY <1>1 DEF T!Fetch

\* A back end reads a bit.
LEMMA DioReadRange ==
    ASSUME TransferType, NEW k \in T!Pin
    PROVE  T!DioRead(k) \in {0, 1}
  BY PinBit DEF TransferType, T!DioRead, T!GpiodDioRead, T!ComediDioRead, T!UspaceDioRead,
                T!SimDioRead, T!DryDioRead

\* The byte of a pin is as it was, or cleared for its first bit, before the
\* bit is added.
LEMMA StartedBits ==
    ASSUME read \in Bytes, NEW k \in T!Pin, NEW base,
           base = [read EXCEPT ![k \div BYTESIZE] = T!Started(k)]
    PROVE  /\ base \in Bytes
           /\ \A j \in T!Pin : T!BitOf(base, j) =
                  IF k % BYTESIZE = 0 /\ j \div BYTESIZE = k \div BYTESIZE THEN 0
                  ELSE T!BitOf(read, j)
  <1> DEFINE b == k \div BYTESIZE
  <1>1. b \in T!Byte
    BY PinsAreBits
  <1>2. T!Started(k) = IF k % BYTESIZE = 0 THEN 0 ELSE read[b]
    BY DEF T!Started
  <1>3. T!Started(k) \in T!Value
    BY <1>1, <1>2, ValueRange DEF Bytes
  <1> HIDE DEF b
  <1>4. base = [read EXCEPT ![b] = T!Started(k)]
    BY DEF b
  <1>5. base \in Bytes /\ base[b] = T!Started(k) /\ \A i \in T!Byte : i # b => base[i] = read[i]
    BY <1>1, <1>3, <1>4 DEF Bytes
  <1>6. ASSUME NEW j \in T!Pin
        PROVE  T!BitOf(base, j) = IF k % BYTESIZE = 0 /\ j \div BYTESIZE = b THEN 0
                                  ELSE T!BitOf(read, j)
    <2> DEFINE i == j \div BYTESIZE
               f == j % BYTESIZE
    <2>1. i \in T!Byte /\ f \in Nat
      BY PinsAreBits
    <2>2. T!BitOf(base, j) = BitIn(base[i], f) /\ T!BitOf(read, j) = BitIn(read[i], f)
      BY PowersOfTransfer
    <2>3. BitIn(0, f) = 0
      BY <2>1, BitOfZero
    <2> HIDE DEF f, i
    <2>4. T!BitOf(base, j) = IF k % BYTESIZE = 0 /\ i = b THEN 0 ELSE T!BitOf(read, j)
      BY <1>2, <1>5, <2>1, <2>2, <2>3
    <2> QED
      BY <2>4 DEF i
  <1> QED
    BY <1>5, <1>6 DEF b

LEMMA TransferTypeStep == TransferType /\ [NextSignals]_signals => TransferType'
  <1> SUFFICES ASSUME TransferType, [NextSignals]_signals PROVE TransferType'
    OBVIOUS
  <1> USE DEF TransferType, T!counts
  <1>0. T!Pin' = T!Pin /\ T!SAMPLE' = T!SAMPLE /\ Bytes' = Bytes
    BY DEF T!Pin, T!SAMPLE, Bytes, T!Byte, T!Value, T!Power
  <1>1. CASE T!BeginScan
    <2>1. plant' \in Bytes
      BY <1>1 DEF T!BeginScan, Bytes
    <2>2. bufIn' \in Bytes /\ DOMAIN seen' = DOMAIN seen
      BY <1>1, <2>1, FetchType DEF T!BeginScan
    <2> QED
      BY <1>0, <1>1, <2>1, <2>2 DEF T!BeginScan
  <1>2. CASE T!ReadBit
    <2>1. n \in T!Pin
      BY <1>2 DEF T!ReadBit, T!Pin
    <2> DEFINE base == [read EXCEPT ![n \div BYTESIZE] = T!Started(n)]
    <2>2. base \in Bytes
      BY <2>1, StartedBits
    <2>3. read' = T!Or(base, n, T!DioRead(n))
      BY <1>2 DEF T!ReadBit
    <2> HIDE DEF base
    <2>4. read' \in Bytes
      BY <2>1, <2>2, <2>3, DioReadRange, OrBit
    <2>5. n' = n + 1 /\ n' \in Nat
      BY <1>2 DEF T!ReadBit
    <2> QED
      BY <1>0, <1>2, <2>4, <2>5 DEF T!ReadBit
  <1>3. CASE T!ReadSample
    <2>1. nai > 0 /\ n' \in Nat
      BY <1>3 DEF T!ReadSample
    <2>2. plant[0] \in Nat
      BY <2>1, FirstByte, ValueRange DEF Bytes
    <2>3. T!Spelled[NI] \in Nat
      BY Spelling
    <2>4. raw' \in Nat
      BY <1>3, <2>2, <2>3 DEF T!ReadSample, T!DataRead, T!GpiodDataRead, T!ComediDataRead,
             T!UspaceDataRead, T!SimDataRead, T!DryDataRead
    <2> QED
      BY <1>0, <1>3, <2>1, <2>4 DEF T!ReadSample
  <1>4. CASE T!PlantMoves
    <2>1. plant' \in Bytes
      BY <1>4 DEF T!PlantMoves, Bytes
    <2> QED
      BY <1>0, <1>4, <2>1 DEF T!PlantMoves
  <1>5. CASE T!EndRead
    BY <1>0, <1>5 DEF T!EndRead
  <1>6. CASE T!Tasks
    <2>1. T!WORD \in Nat \ {0}
      BY Powers, PowersOfTransfer DEF T!WORD
    <2>2. raw' \in Nat /\ written' \in Bytes
      BY <1>6, <2>1 DEF T!Tasks, Bytes
    <2> QED
      BY <1>0, <1>6, <2>2 DEF T!Tasks
  <1>7. CASE T!WriteBit
    <2>1. n \in T!Pin
      BY <1>7 DEF T!WriteBit, T!Pin
    <2>2. T!BitOf(written, n) \in {0, 1} /\ n \div BYTESIZE \in T!Byte
      BY <2>1, PinBit, PinsAreBits
    <2>3. written[n \div BYTESIZE] \in T!Value
      BY <2>2 DEF Bytes
    <2>4. T!With(device, n, T!BitOf(written, n)) \in Bytes
      BY <2>1, <2>2, WithBit
    <2>5. T!Coded(written[n \div BYTESIZE]) \in T!Value
      BY <2>3, CodedRange
    <2>6. device' \in Bytes /\ bufOut' \in Bytes
      <3>1. CASE T!GpiodDioWrite(n, T!BitOf(written, n)) \/ T!ComediDioWrite(n, T!BitOf(written, n))
                 \/ T!DryDioWrite(n, T!BitOf(written, n))
        BY <2>4, <3>1 DEF T!GpiodDioWrite, T!ComediDioWrite, T!DryDioWrite
      <3>2. CASE T!UspaceDioWrite(n, T!BitOf(written, n))
        BY <2>3, <3>2 DEF T!UspaceDioWrite, Bytes
      <3>3. CASE T!SimDioWrite(n, T!BitOf(written, n))
        BY <2>5, <3>3 DEF T!SimDioWrite, Bytes
      <3> QED
        BY <1>7, <3>1, <3>2, <3>3 DEF T!WriteBit, T!DioWrite
    <2>7. n' \in Nat
      BY <1>7 DEF T!WriteBit
    <2> QED
      BY <1>0, <1>7, <2>6, <2>7 DEF T!WriteBit
  <1>8. CASE T!WriteSample
    <2>1. raw % Power[BYTESIZE] \in T!Value
      <3>1. Power[BYTESIZE] \in Nat \ {0} /\ raw \in Int
        BY Powers
      <3>2. raw % Power[BYTESIZE] \in 0 .. Power[BYTESIZE] - 1
        BY <3>1, Division
      <3> QED
        BY <3>2, ValueRange
    <2>2. device' \in Bytes
      BY <1>8, <2>1, PowersOfTransfer DEF T!WriteSample, T!DataWrite, T!ComediDataWrite,
             T!GpiodDataWrite, T!UspaceDataWrite, T!DryDataWrite, Bytes
    <2>3. n' \in Nat
      BY <1>8 DEF T!WriteSample
    <2> QED
      BY <1>0, <1>8, <2>2, <2>3 DEF T!WriteSample
  <1>9. CASE T!EndWrite
    <2>1. device' \in Bytes
      BY <1>9 DEF T!EndWrite, T!SimFlush
    <2> QED
      BY <1>0, <1>9, <2>1 DEF T!EndWrite
  <1>10. CASE UNCHANGED transferside
    BY <1>0, <1>10 DEF transferside
  <1> QED
    BY <1>1, <1>2, <1>3, <1>4, <1>5, <1>6, <1>7, <1>8, <1>9, <1>10, TransferSteps DEF T!Next

\* What a bit of the buffer may be.
Found(k) == IF T!Connected(k) THEN seen[k] ELSE {0}

SampleFound ==
    /\ kind = "comedi" => raw \in seen[T!SAMPLE]
    /\ kind = "sim" =>
          ((\A i \in T!Byte : bufIn[i] \in 1 .. T!Power[BYTESIZE - 1] - 1) =>
              \A i \in T!Byte :
                  (raw \div T!Power[BYTESIZE * (NI - 1 - i)]) % T!Power[BYTESIZE] = bufIn[i])

\* Before n the bits of this scan, after it what is left of the last one: but
\* for the byte n is in, whose other bits are cleared.
BitsSoFar ==
    /\ n <= NI * BYTESIZE
    /\ \A k \in T!Pin : k < n => T!BitOf(read, k) \in Found(k)
    /\ \A k \in T!Pin : k >= n /\ k \div BYTESIZE = n \div BYTESIZE /\ n % BYTESIZE # 0
                           => T!BitOf(read, k) = 0

\* The plant shows what is in the history; of a file, the buffer.
PlantSeen ==
    /\ at = "read" /\ kind # "sim" =>
          \A k \in T!Pin \cup {T!SAMPLE} : T!Shown(plant, k) \in seen[k]
    /\ kind = "sim" /\ ni > 0 => \A k \in T!Pin : T!BitOf(bufIn, k) \in seen[k]

ReadInv ==
    /\ PlantSeen
    /\ ni > 0 => /\ at = "read" => BitsSoFar
                 /\ at = "tasks" => \A k \in T!Pin : T!BitOf(read, k) \in Found(k)
    /\ nai > 0 => /\ kind \notin {"comedi", "sim"} => raw = 0
                  /\ at = "read" => n <= 1 /\ (n = 1 => SampleFound)
                  /\ at = "tasks" => SampleFound

LEMMA PinIsNoSample == \A k \in T!Pin : k # T!SAMPLE /\ k \in T!Pin \cup {T!SAMPLE}
  BY DEF T!Pin, T!SAMPLE

\* The history begins anew with every scan.
LEMMA FetchSees ==
    ASSUME TransferType, ReadInv, T!BeginScan
    PROVE  PlantSeen'
  <1> USE DEF TransferType, T!counts
  <1>1. kind' = kind /\ ni' = ni /\ plant' \in Bytes
    BY DEF T!BeginScan, Bytes
  <1>2. CASE kind = "sim" /\ ni + nai > 0
    <2> SUFFICES ASSUME ni > 0, NEW k \in T!Pin
                 PROVE  BitIn(bufIn'[k \div BYTESIZE], k % BYTESIZE) \in seen'[k]
      BY <1>1, <1>2, PowersOfTransfer DEF PlantSeen, T!BitOf, T!Pin, T!BitIn, BitIn, T!Power
    <2>0. nai = 0
      OBVIOUS
    <2>1. PICK count \in 0 .. NI :
            /\ T!SimFetch(count)
            /\ seen' = [j \in DOMAIN seen |-> IF j # T!SAMPLE /\ j \div BYTESIZE < count
                            THEN {T!BitOf([i \in T!Byte |-> T!Plain(plant'[i])], j)}
                            ELSE seen[j]]
      BY <1>2 DEF T!BeginScan, T!Fetch
    <2> DEFINE b == k \div BYTESIZE
               f == k % BYTESIZE
               plain == [i \in T!Byte |-> T!Plain(plant'[i])]
    <2>2. b \in T!Byte /\ b \in Int
      BY PinsAreBits DEF T!Byte
    <2>3. bufIn'[b] = IF b >= count THEN bufIn[b] ELSE plain[b]
      BY <2>0, <2>1, <2>2 DEF T!SimFetch
    <2>4. seen'[k] = IF b < count THEN {T!BitOf(plain, k)} ELSE seen[k]
      BY <2>1, PinIsNoSample
    <2>5. T!BitOf(plain, k) = BitIn(plain[b], f) /\ T!BitOf(bufIn, k) = BitIn(bufIn[b], f)
      BY PowersOfTransfer
    <2>6. T!BitOf(bufIn, k) \in seen[k]
      BY <1>2 DEF ReadInv, PlantSeen
    <2> HIDE DEF b, f, plain
    <2>7. BitIn(bufIn'[b], f) \in seen'[k]
      BY <2>2, <2>3, <2>4, <2>5, <2>6
    <2> QED
      BY <2>7 DEF b, f
  <1>3. CASE kind # "sim" \/ ni + nai = 0
    <2>1. /\ seen' = [k \in T!Pin \cup {T!SAMPLE} |-> {T!Shown(plant', k)}]
      BY <1>3 DEF T!BeginScan, T!Fetch
    <2>2. \A k \in T!Pin \cup {T!SAMPLE} : T!Shown(plant', k) \in seen'[k]
      BY <2>1
    <2>3. ~(kind = "sim" /\ ni > 0)
      BY <1>3
    <2> QED
      BY <1>1, <2>2, <2>3 DEF PlantSeen, T!Shown, T!BitOf, T!BitIn, T!Power, T!Pin, T!SAMPLE
  <1> QED
    BY <1>2, <1>3

\* One bit is read.
LEMMA ReadBitStep ==
    ASSUME TransferType, ReadInv, T!ReadBit
    PROVE  BitsSoFar'
  <1> USE DEF TransferType, T!counts
  <1>0. /\ ni = NI /\ NI > 0 /\ nai = 0 /\ n \in T!Pin /\ n' = n + 1
        /\ kind' = kind /\ seen' = seen /\ bufIn' = bufIn
        /\ at = "read"
    BY DEF T!ReadBit, T!Pin
  <1>1. BitsSoFar /\ PlantSeen
    BY <1>0 DEF ReadInv
  <1> DEFINE base == [read EXCEPT ![n \div BYTESIZE] = T!Started(n)]
             bit == T!DioRead(n)
  <1>2. /\ base \in Bytes
        /\ \A j \in T!Pin : T!BitOf(base, j) =
               IF n % BYTESIZE = 0 /\ j \div BYTESIZE = n \div BYTESIZE THEN 0
               ELSE T!BitOf(read, j)
    BY <1>0, StartedBits
  <1>3. read' = T!Or(base, n, bit) /\ bit \in {0, 1}
    BY <1>0, DioReadRange DEF T!ReadBit
  <1>4. bit \in Found(n)
    <2>1. n # T!SAMPLE /\ n \in T!Pin \cup {T!SAMPLE} /\ T!Shown(plant, n) = T!BitOf(plant, n)
      BY <1>0, PinIsNoSample DEF T!Shown
    <2>2. kind # "sim" => T!BitOf(plant, n) \in seen[n]
      BY <1>0, <1>1, <2>1 DEF PlantSeen
    <2>3. kind = "sim" => T!BitOf(bufIn, n) \in seen[n]
      BY <1>0, <1>1 DEF PlantSeen
    <2> QED
      BY <2>2, <2>3 DEF Found, T!Connected, T!DioRead, T!GpiodDioRead, T!ComediDioRead,
         T!UspaceDioRead, T!SimDioRead, T!DryDioRead
  <1> HIDE DEF base, bit
  <1>5. \A j \in T!Pin : T!BitOf(read', j) = IF j = n /\ bit = 1 THEN 1 ELSE T!BitOf(base, j)
    BY <1>0, <1>2, <1>3, OrBit
  <1>6. T!BitOf(base, n) = 0
    BY <1>0, <1>1, <1>2 DEF BitsSoFar
  <1>7. \A j \in T!Pin : T!BitOf(read', j) =
            IF j = n THEN bit
            ELSE IF n % BYTESIZE = 0 /\ j \div BYTESIZE = n \div BYTESIZE THEN 0
            ELSE T!BitOf(read, j)
    BY <1>0, <1>2, <1>3, <1>5, <1>6
  <1>8. \A k : T!BitOf(read, k)' = T!BitOf(read', k) /\ Found(k)' = Found(k)
    BY <1>0 DEF T!BitOf, T!BitIn, T!Power, Found, T!Connected, T!Reaches
  <1> DEFINE q == n \div BYTESIZE
             r == n % BYTESIZE
  <1>9. q \in Nat /\ r \in 0 .. BYTESIZE - 1 /\ n = q * BYTESIZE + r
    BY <1>0, PinsAreBits DEF T!Byte
  <1>10. ASSUME NEW k \in T!Pin, k < n + 1 PROVE T!BitOf(read', k) \in Found(k)
    <2>1. CASE k = n
      BY <1>4, <1>7, <2>1
    <2>2. CASE k # n
      <3>0. k \in Nat /\ k = (k \div BYTESIZE) * BYTESIZE + (k % BYTESIZE)
            /\ k % BYTESIZE \in 0 .. BYTESIZE - 1
        BY PinsAreBits
      <3>1. k < n /\ k \in Nat /\ k = (k \div BYTESIZE) * BYTESIZE + (k % BYTESIZE)
            /\ k % BYTESIZE \in Nat
        <4>1. n \in Nat
          OBVIOUS
        <4> QED
          BY <1>10, <2>2, <3>0, <4>1
      <3>2. T!BitOf(read, k) \in Found(k)
        BY <1>1, <3>1 DEF BitsSoFar
      <3>3. ~(r = 0 /\ k \div BYTESIZE = q)
        <4> SUFFICES ASSUME r = 0, k \div BYTESIZE = q PROVE FALSE
          OBVIOUS
        <4> HIDE DEF q, r
        <4>1. k = q * BYTESIZE + (k % BYTESIZE) /\ n = q * BYTESIZE /\ q * BYTESIZE \in Nat
          BY <1>9, <3>1
        <4> QED
          BY <3>1, <4>1
      <3> QED
        BY <1>7, <2>2, <3>2, <3>3
    <2> QED
      BY <2>1, <2>2
  <1>11. ASSUME NEW k \in T!Pin, k >= n + 1, k \div BYTESIZE = (n + 1) \div BYTESIZE,
                (n + 1) % BYTESIZE # 0
         PROVE  T!BitOf(read', k) = 0
    <2>1. (n + 1) \div BYTESIZE = q
      <3> HIDE DEF q, r
      <3>1. CASE r + 1 < BYTESIZE
        <4>1. n + 1 = q * BYTESIZE + (r + 1) /\ r + 1 \in 0 .. BYTESIZE - 1 /\ n + 1 \in Int
          BY <1>9, <3>1
        <4> QED
          BY <1>9, <4>1, DivisionUnique
      <3>2. CASE r + 1 = BYTESIZE
        <4>1. n + 1 = (q + 1) * BYTESIZE /\ q + 1 \in Int
          BY <1>9, <3>2
        <4>2. (n + 1) % BYTESIZE = 0
          BY <4>1, MultipleRest
        <4> QED
          BY <1>11, <4>2
      <3> QED
        BY <1>9, <3>1, <3>2
    <2>2. k # n /\ k >= n
      <3>1. k \in Nat /\ n \in Nat
        BY PinsAreBits
      <3> QED
        BY <1>11, <3>1
    <2> QED
      BY <1>1, <1>7, <1>11, <2>1, <2>2 DEF BitsSoFar
  <1>12. n + 1 <= NI * BYTESIZE
    BY <1>0 DEF T!Pin
  <1>13. T!Pin' = T!Pin
    BY DEF T!Pin
  <1> QED
    BY <1>0, <1>8, <1>10, <1>11, <1>12, <1>13 DEF BitsSoFar

LEMMA ReadInit == T!Init => ReadInv
  <1> SUFFICES ASSUME T!Init PROVE ReadInv
    OBVIOUS
  <1>1. at = "host" /\ raw = 0
    BY DEF T!Init
  <1>2. ASSUME NEW k \in T!Pin PROVE T!BitOf(bufIn, k) \in seen[k]
    <2>1. bufIn[k \div BYTESIZE] = 0 /\ k % BYTESIZE \in Nat
      BY PinsAreBits DEF T!Init, T!Zeros
    <2>2. T!BitOf(bufIn, k) = 0
      BY <2>1, BitOfZero, PowersOfTransfer
    <2>3. seen[k] = {0}
      BY PinIsNoSample DEF T!Init
    <2> QED
      BY <2>2, <2>3
  <1> QED
    BY <1>1, <1>2 DEF ReadInv, PlantSeen

\* A sample is read.
LEMMA ReadSampleStep ==
    ASSUME TransferType, ReadInv, T!ReadSample
    PROVE  /\ n' = 1 /\ SampleFound' /\ (kind \notin {"comedi", "sim"} => raw' = 0)
  <1> USE DEF TransferType, T!counts
  <1>1. nai = 1 /\ n = 0 /\ n' = 1 /\ at = "read" /\ NI > 0
        /\ kind' = kind /\ bufIn' = bufIn /\ seen' = seen
    BY DEF T!ReadSample
  <1>2. raw' = T!DataRead
    BY DEF T!ReadSample
  <1>3. kind = "comedi" => raw' \in seen[T!SAMPLE]
    <2> SUFFICES ASSUME kind = "comedi" PROVE raw' \in seen[T!SAMPLE]
      OBVIOUS
    <2>1. T!Shown(plant, T!SAMPLE) \in seen[T!SAMPLE]
      BY <1>1 DEF ReadInv, PlantSeen
    <2>2. T!Shown(plant, T!SAMPLE) = plant[0]
      BY DEF T!Shown
    <2>3. raw' = plant[0]
      BY <1>2 DEF T!DataRead, T!ComediDataRead
    <2> QED
      BY <2>1, <2>2, <2>3
  <1>4. ASSUME kind = "sim", \A i \in T!Byte : bufIn[i] \in 1 .. T!Power[BYTESIZE - 1] - 1
        PROVE  \A i \in T!Byte :
                  (raw' \div T!Power[BYTESIZE * (NI - 1 - i)]) % T!Power[BYTESIZE] = bufIn[i]
    <2>1. 0 \in T!Byte /\ T!Power[BYTESIZE - 1] \in Nat
      <3>1. BYTESIZE - 1 \in Nat
        OBVIOUS
      <3> QED
        BY <1>1, <3>1, FirstByte, Powers, PowersOfTransfer
    <2>2. bufIn[0] # 0
      BY <1>4, <2>1
    <2>3. T!Reaches(bufIn, 0)
      BY <2>2 DEF T!Reaches
    <2>4. raw' = T!Spelled[NI]
      BY <1>2, <1>4, <2>3 DEF T!DataRead, T!SimDataRead
    <2> QED
      BY <1>4, <2>4, SpelledOut, PowersOfTransfer
  <1>5. kind \notin {"comedi", "sim"} => raw' = raw
    BY <1>2 DEF T!DataRead, T!GpiodDataRead, T!UspaceDataRead, T!DryDataRead
  <1>6. T!Power' = T!Power /\ T!Byte' = T!Byte /\ T!SAMPLE' = T!SAMPLE
    BY DEF T!Power, T!Byte, T!SAMPLE
  <1> QED
    BY <1>1, <1>3, <1>4, <1>5, <1>6 DEF SampleFound, ReadInv

\* What has been read stays found while the history grows and nothing else moves.
LEMMA FoundStays ==
    ASSUME ReadInv, UNCHANGED <<kind, ni, nai, n, read, raw, bufIn, at>>,
           \A k \in T!Pin \cup {T!SAMPLE} : seen[k] \subseteq seen'[k], PlantSeen'
    PROVE  ReadInv'
  <1>1. T!Power' = T!Power /\ T!Byte' = T!Byte /\ T!SAMPLE' = T!SAMPLE /\ T!Pin' = T!Pin
    BY DEF T!Power, T!Byte, T!SAMPLE, T!Pin
  <1>2. \A k : T!BitOf(read, k)' = T!BitOf(read, k)
    BY DEF T!BitOf, T!BitIn, T!Power
  <1>3. ASSUME NEW k \in T!Pin, T!BitOf(read, k) \in Found(k) PROVE T!BitOf(read, k) \in Found(k)'
    <2>1. T!Connected(k)' = T!Connected(k)
      BY DEF T!Connected, T!Reaches
    <2>2. seen[k] \subseteq seen'[k]
      BY PinIsNoSample
    <2> QED
      BY <1>3, <2>1, <2>2 DEF Found
  <1>4. BitsSoFar => BitsSoFar'
    BY <1>1, <1>2, <1>3 DEF BitsSoFar
  <1>5. SampleFound => SampleFound'
    BY <1>1 DEF SampleFound
  <1> QED
    BY <1>1, <1>2, <1>3, <1>4, <1>5 DEF ReadInv

LEMMA ReadStep == TransferType /\ ReadInv /\ [NextSignals]_signals => ReadInv'
  <1> SUFFICES ASSUME TransferType, ReadInv, [NextSignals]_signals PROVE ReadInv'
    OBVIOUS
  <1> USE DEF T!counts
  <1>0. /\ T!Power' = T!Power /\ T!Byte' = T!Byte /\ T!SAMPLE' = T!SAMPLE /\ T!Pin' = T!Pin
        /\ \A b, k : T!BitOf(b, k)' = T!BitOf(b', k)
    BY DEF T!Power, T!Byte, T!SAMPLE, T!Pin, T!BitOf, T!BitIn
  <1>a. UNCHANGED <<kind, ni, bufIn, seen>> /\ (at' = "read" => kind = "sim" \/ (plant' = plant /\ at = "read"))
          => PlantSeen'
    BY <1>0 DEF ReadInv, PlantSeen, T!Shown, T!BitOf, T!BitIn
  <1>1. CASE T!BeginScan
    <2>1. PlantSeen'
      BY <1>1, FetchSees
    <2>2. /\ at' = "read" /\ n' = 0 /\ ni' = ni /\ nai' = nai /\ kind' = kind /\ raw' = raw
          /\ read' = read
      BY <1>1 DEF T!BeginScan
    <2>3. BitsSoFar'
      <3>1. 0 <= NI * BYTESIZE /\ 0 % BYTESIZE = 0
        BY DivisionBelow
      <3>2. \A k \in T!Pin : ~(k < 0)
        BY PinsAreBits
      <3> QED
        BY <1>0, <2>2, <3>1, <3>2 DEF BitsSoFar
    <2> QED
      BY <2>1, <2>2, <2>3 DEF ReadInv
  <1>2. CASE T!ReadBit
    <2>1. BitsSoFar'
      BY <1>2, ReadBitStep
    <2>2. ni > 0 /\ nai = 0 /\ at = "read"
      BY <1>2 DEF T!ReadBit, TransferType
    <2>3. UNCHANGED <<kind, ni, nai, at, bufIn, seen, plant>>
      BY <1>2 DEF T!ReadBit
    <2>4. PlantSeen'
      BY <1>a, <2>2, <2>3
    <2> QED
      BY <2>1, <2>2, <2>3, <2>4 DEF ReadInv
  <1>3. CASE T!ReadSample
    <2>1. /\ n' = 1 /\ SampleFound' /\ (kind \notin {"comedi", "sim"} => raw' = 0)
      BY <1>3, ReadSampleStep
    <2>2. ni = 0 /\ at = "read" /\ UNCHANGED <<kind, ni, nai, at, bufIn, seen, plant>>
      BY <1>3 DEF T!ReadSample, TransferType
    <2>3. PlantSeen'
      BY <1>a, <2>2
    <2> QED
      BY <2>1, <2>2, <2>3 DEF ReadInv
  <1>4. CASE T!PlantMoves
    <2>1. /\ kind # "sim" /\ UNCHANGED <<kind, ni, nai, n, read, raw, bufIn, at>> /\ at = "read"
          /\ seen' = [k \in T!Pin \cup {T!SAMPLE} |-> seen[k] \cup {T!Shown(plant', k)}]
      BY <1>4 DEF T!PlantMoves, TransferType
    <2>2. \A k \in T!Pin \cup {T!SAMPLE} : seen[k] \subseteq seen'[k] /\ T!Shown(plant', k) \in seen'[k]
      BY <2>1
    <2>3. PlantSeen'
      BY <1>0, <2>1, <2>2 DEF PlantSeen, T!Shown, T!BitOf, T!BitIn
    <2> QED
      BY <2>1, <2>2, <2>3, FoundStays
  <1>5. CASE T!EndRead
    <2>1. /\ UNCHANGED <<kind, ni, nai, read, raw, bufIn, seen>>
          /\ at = "read" /\ at' = "tasks" /\ n = ni * BYTESIZE + nai
      BY <1>5 DEF T!EndRead
    <2>2. ni > 0 => \A k \in T!Pin : T!BitOf(read, k) \in Found(k)
      <3> SUFFICES ASSUME ni > 0, NEW k \in T!Pin PROVE T!BitOf(read, k) \in Found(k)
        OBVIOUS
      <3>1. n = NI * BYTESIZE /\ BitsSoFar
        BY <2>1 DEF ReadInv, TransferType
      <3>2. k < n
        BY <3>1 DEF T!Pin
      <3> QED
        BY <3>1, <3>2 DEF BitsSoFar
    <2>3. nai > 0 => SampleFound
      <3> SUFFICES ASSUME nai > 0 PROVE SampleFound
        OBVIOUS
      <3>1. n = 1
        BY <2>1 DEF TransferType
      <3> QED
        BY <2>1, <3>1 DEF ReadInv
    <2>4. PlantSeen'
      BY <1>a, <2>1
    <2>5. \A k : Found(k)' = Found(k) /\ T!BitOf(read, k)' = T!BitOf(read, k)
      BY <1>0, <2>1 DEF Found, T!Connected, T!Reaches
    <2>6. SampleFound' <=> SampleFound
      BY <1>0, <2>1 DEF SampleFound
    <2> QED
      BY <1>0, <2>1, <2>2, <2>3, <2>4, <2>5, <2>6 DEF ReadInv
  <1>6. CASE T!Tasks
    <2>1. UNCHANGED <<kind, ni, nai, bufIn, seen>> /\ at' = "write" /\ (nai > 0 => raw' = raw)
      BY <1>6 DEF T!Tasks, TransferType
    <2>2. PlantSeen'
      BY <1>a, <2>1
    <2> QED
      BY <2>1, <2>2 DEF ReadInv
  <1>7. CASE T!WriteBit \/ T!WriteSample \/ T!EndWrite
    <2>1. UNCHANGED <<kind, ni, nai, bufIn, seen, raw>> /\ at' \notin {"read", "tasks"}
      BY <1>7 DEF T!WriteBit, T!WriteSample, T!EndWrite
    <2>2. PlantSeen'
      BY <1>a, <2>1
    <2> QED
      BY <2>1, <2>2 DEF ReadInv
  <1>8. CASE UNCHANGED transferside
    <2>1. UNCHANGED <<kind, ni, nai, n, read, raw, bufIn, seen, plant, at>>
      BY <1>8 DEF transferside
    <2>2. PlantSeen'
      BY <1>a, <2>1
    <2> QED
      BY <2>1, <2>2, FoundStays
  <1> QED
    BY <1>1, <1>2, <1>3, <1>4, <1>5, <1>6, <1>7, <1>8, TransferSteps DEF T!Next

\* A program finds every input as its pin, its file or its channel has had it
\* while this scan was reading, whatever the plant does meanwhile, and the
\* bytes of a file in the order in which they spell a word (read_inputs,
\* dio_read, data_read and sim_fetch of the back ends).
THEOREM SignalsAsFound == SpecSignals => []InputsAsFound
  <1>1. InitSignals => TransferType /\ ReadInv
    BY TransferTypeInit, ReadInit DEF InitSignals
  <1>2. TransferType /\ ReadInv => InputsAsFound
    BY DEF TransferType, ReadInv, SampleFound, Found, InputsAsFound, T!InputsAsFound
  <1> QED
    BY <1>1, <1>2, TransferTypeStep, ReadStep, PTL DEF SpecSignals

\* What has been written of the outputs when n bits have passed.
BitsWritten ==
    /\ n <= NI * BYTESIZE
    /\ kind = "gpiod" => \A k \in T!Pin :
          k < n /\ k < Wired => T!BitOf(device, k) = T!BitOf(written, k)
    /\ kind = "comedi" => \A k \in T!Pin : k < n => T!BitOf(device, k) = T!BitOf(written, k)
    /\ kind = "uspace" => \A i \in T!Byte : i * BYTESIZE < n => device[i] = written[i]
    /\ kind = "sim" => \A i \in T!Byte :
          i * BYTESIZE < n /\ (\A j \in 0 .. i - 1 : T!Coded(written[j]) # 0)
              => bufOut[i] = T!Coded(written[i])

WriteInv ==
    /\ kind = "dry" => device = T!Zeros
    /\ naq > 0 /\ kind # "comedi" => device[0] = 0
    /\ at = "tasks" => n = 0
    /\ at = "write" /\ nq > 0 => BitsWritten
    /\ at = "write" /\ naq > 0 =>
          n <= 1 /\ (n = 1 /\ kind = "comedi" => device[0] = raw % T!Power[BYTESIZE])

\* Pins change to what they are to be alone.
PinsRule ==
    \A k \in T!Pin :
        T!BitOf(device', k) # T!BitOf(device, k) =>
            kind = "sim" \/ T!BitOf(device', k) = IF naq > 0 THEN T!BitIn(raw, k)
                                                  ELSE T!BitOf(written, k)

LEMMA WriteInit == T!Init => WriteInv
  <1> SUFFICES ASSUME T!Init PROVE WriteInv
    OBVIOUS
  <1>1. naq > 0 => NI > 0
    BY TransferTypeInit DEF TransferType
  <1>2. naq > 0 => device[0] = 0
    BY <1>1, FirstByte DEF T!Init, T!Zeros
  <1> QED
    BY <1>2 DEF T!Init, WriteInv

\* A pin of a byte that has begun.
LEMMA ByteBegun ==
    ASSUME NEW k \in T!Pin, NEW i \in T!Byte, i * BYTESIZE < k + 1
    PROVE  i <= k \div BYTESIZE
  <1> DEFINE q == k \div BYTESIZE
             r == k % BYTESIZE
  <1>1. q \in Nat /\ r \in 0 .. BYTESIZE - 1 /\ k = q * BYTESIZE + r
    BY PinsAreBits DEF T!Byte
  <1>2. i \in Nat
    BY DEF T!Byte
  <1> HIDE DEF q, r
  <1> SUFFICES ASSUME i >= q + 1 PROVE FALSE
    BY <1>1, <1>2 DEF q
  <1>3. i * BYTESIZE >= (q + 1) * BYTESIZE
    BY <1>1, <1>2
  <1>4. (q + 1) * BYTESIZE = q * BYTESIZE + BYTESIZE
    BY <1>1
  <1>5. i * BYTESIZE \in Int /\ q * BYTESIZE \in Int
    BY <1>1, <1>2
  <1> QED
    BY <1>1, <1>3, <1>4, <1>5

LEMMA WriteBitStep ==
    ASSUME TransferType, WriteInv, T!WriteBit
    PROVE  WriteInv' /\ PinsRule
  <1> USE DEF TransferType, T!counts
  <1>0. /\ nq = NI /\ NI > 0 /\ naq = 0 /\ n \in T!Pin /\ n' = n + 1 /\ n \in Nat
        /\ UNCHANGED <<kind, nq, naq, at, written, raw>> /\ at = "write"
    BY DEF T!WriteBit, T!Pin
  <1>1. BitsWritten
    BY <1>0 DEF WriteInv
  <1> DEFINE b == n \div BYTESIZE
             bit == T!BitOf(written, n)
  <1>2. b \in T!Byte /\ bit \in {0, 1}
    BY <1>0, PinBit, PinsAreBits
  <1>3. \A k \in T!Pin : k < n + 1 => k = n \/ k < n
    <2>1. \A k \in T!Pin : k \in Nat
      BY PinsAreBits
    <2> QED
      BY <1>0, <2>1
  <1>4. n + 1 <= NI * BYTESIZE
    BY <1>0 DEF T!Pin
  <1>5. /\ T!Power' = T!Power /\ T!Byte' = T!Byte /\ T!Pin' = T!Pin /\ T!Zeros' = T!Zeros
        /\ \A k : T!BitOf(device, k)' = T!BitOf(device', k)
        /\ \A k : T!BitOf(written, k)' = T!BitOf(written, k)
        /\ \A k : T!Coded(written[k])' = T!Coded(written[k])
    BY <1>0 DEF T!Power, T!Byte, T!Pin, T!Zeros, T!BitOf, T!BitIn, T!Coded
  <1>6. /\ T!With(device, n, bit) \in Bytes
        /\ \A j \in T!Pin : T!BitOf(T!With(device, n, bit), j) =
                                IF j = n THEN bit ELSE T!BitOf(device, j)
    BY <1>0, <1>2, WithBit
  <1>7. CASE kind = "gpiod"
    <2>1. device' = IF n < Wired THEN T!With(device, n, bit) ELSE device
      BY <1>7 DEF T!WriteBit, T!DioWrite, T!GpiodDioWrite
    <2>2. \A j \in T!Pin : T!BitOf(device', j) =
              IF j = n /\ n < Wired THEN bit ELSE T!BitOf(device, j)
      BY <1>6, <2>1
    <2> HIDE DEF bit
    <2>3. BitsWritten'
      BY <1>0, <1>1, <1>3, <1>4, <1>5, <1>7, <2>2 DEF BitsWritten, bit
    <2>4. PinsRule
      BY <1>0, <2>2 DEF PinsRule, bit
    <2> QED
      BY <1>0, <1>7, <2>3, <2>4 DEF WriteInv
  <1>8. CASE kind = "comedi"
    <2>1. device' = T!With(device, n, bit)
      BY <1>8 DEF T!WriteBit, T!DioWrite, T!ComediDioWrite
    <2>2. \A j \in T!Pin : T!BitOf(device', j) = IF j = n THEN bit ELSE T!BitOf(device, j)
      BY <1>6, <2>1
    <2> HIDE DEF bit
    <2>3. BitsWritten'
      BY <1>0, <1>1, <1>3, <1>4, <1>5, <1>8, <2>2 DEF BitsWritten, bit
    <2>4. PinsRule
      BY <1>0, <2>2 DEF PinsRule, bit
    <2> QED
      BY <1>0, <1>8, <2>3, <2>4 DEF WriteInv
  <1>9. CASE kind = "uspace"
    <2>1. device' = [device EXCEPT ![b] = written[b]]
      BY <1>9 DEF T!WriteBit, T!DioWrite, T!UspaceDioWrite
    <2>2. \A i \in T!Byte : device'[i] = IF i = b THEN written[b] ELSE device[i]
      BY <1>2, <2>1 DEF Bytes
    <2>3. ASSUME NEW i \in T!Byte, i * BYTESIZE < n + 1, i # b PROVE i * BYTESIZE < n
      <3>1. i <= b
        BY <1>0, <2>3, ByteBegun
      <3> DEFINE r == n % BYTESIZE
      <3>2. r \in Nat /\ n = b * BYTESIZE + r /\ i \in Nat /\ b \in Nat
        BY <1>0, <1>2, PinsAreBits DEF T!Byte
      <3> HIDE DEF b, r
      <3>3. i <= b - 1
        BY <2>3, <3>1, <3>2
      <3>4. i * BYTESIZE <= (b - 1) * BYTESIZE /\ (b - 1) * BYTESIZE = b * BYTESIZE - BYTESIZE
            /\ i * BYTESIZE \in Int /\ b * BYTESIZE \in Int
        BY <3>2, <3>3
      <3> QED
        BY <3>2, <3>4
    <2>4. BitsWritten'
      BY <1>0, <1>1, <1>4, <1>5, <1>9, <2>2, <2>3 DEF BitsWritten
    <2>5. PinsRule
      <3> SUFFICES ASSUME NEW k \in T!Pin, T!BitOf(device', k) # T!BitOf(device, k)
                   PROVE  T!BitOf(device', k) = T!BitOf(written, k)
        BY <1>0 DEF PinsRule
      <3>1. k \div BYTESIZE \in T!Byte
        BY PinsAreBits
      <3>2. CASE k \div BYTESIZE = b
        BY <2>2, <3>1, <3>2 DEF T!BitOf
      <3>3. CASE k \div BYTESIZE # b
        BY <2>2, <3>1, <3>3 DEF T!BitOf
      <3> QED
        BY <3>2, <3>3
    <2> QED
      BY <1>0, <1>9, <2>4, <2>5 DEF WriteInv
  <1>10. CASE kind = "sim"
    <2>1. bufOut' = IF b = 0 \/ T!Reaches(bufOut, b - 1)
                    THEN [bufOut EXCEPT ![b] = T!Coded(written[b])] ELSE bufOut
      BY <1>10 DEF T!WriteBit, T!DioWrite, T!SimDioWrite
    <2>2. ASSUME NEW i \in T!Byte, i * BYTESIZE < n + 1,
                 \A j \in 0 .. i - 1 : T!Coded(written[j]) # 0
          PROVE  bufOut'[i] = T!Coded(written[i])
      <3>1. i <= b
        BY <1>0, <2>2, ByteBegun
      <3> DEFINE r == n % BYTESIZE
      <3>2. r \in Nat /\ n = b * BYTESIZE + r /\ i \in Nat /\ b \in Nat /\ b <= NI - 1
        BY <1>0, <1>2, PinsAreBits DEF T!Byte
      <3> HIDE DEF b, r
      <3>3. ASSUME NEW j \in T!Byte, j < b PROVE j * BYTESIZE < n
        <4>1. j \in Nat /\ j <= b - 1
          BY <3>2, <3>3 DEF T!Byte
        <4>2. j * BYTESIZE <= (b - 1) * BYTESIZE /\ (b - 1) * BYTESIZE = b * BYTESIZE - BYTESIZE
              /\ j * BYTESIZE \in Int /\ b * BYTESIZE \in Int
          BY <3>2, <4>1
        <4> QED
          BY <3>2, <4>2
      <3>4. CASE i # b
        <4>1. i < b
          BY <3>1, <3>2, <3>4
        <4>2. bufOut[i] = T!Coded(written[i])
          BY <1>1, <1>10, <2>2, <3>3, <4>1 DEF BitsWritten
        <4> QED
          BY <1>2, <2>1, <3>4, <4>2 DEF Bytes
      <3>5. CASE i = b
        <4>1. \A j \in 0 .. b - 1 : j \in T!Byte /\ j < b
          BY <3>2 DEF T!Byte
        <4>2. ASSUME NEW j \in 0 .. b - 1 PROVE bufOut[j] # 0
          <5>1. \A l \in 0 .. j - 1 : T!Coded(written[l]) # 0
            <6>1. \A l \in 0 .. j - 1 : l \in 0 .. i - 1
              BY <3>2, <3>5
            <6> QED
              BY <2>2, <6>1
          <5>2. bufOut[j] = T!Coded(written[j])
            BY <1>1, <1>10, <3>3, <4>1, <5>1 DEF BitsWritten
          <5> QED
            BY <2>2, <3>5, <5>2
        <4>3. b = 0 \/ T!Reaches(bufOut, b - 1)
          BY <4>2 DEF T!Reaches
        <4>4. bufOut' = [bufOut EXCEPT ![b] = T!Coded(written[b])]
          BY <2>1, <4>3
        <4> QED
          BY <1>2, <3>5, <4>4 DEF Bytes
      <3> QED
        BY <3>4, <3>5
    <2>3. BitsWritten'
      BY <1>0, <1>4, <1>5, <1>10, <2>2 DEF BitsWritten
    <2> QED
      BY <1>0, <1>10, <2>3 DEF WriteInv, PinsRule
  <1>11. CASE kind = "dry"
    <2>1. device' = device
      BY <1>11 DEF T!WriteBit, T!DioWrite, T!DryDioWrite
    <2>2. BitsWritten'
      BY <1>0, <1>4, <1>11 DEF BitsWritten
    <2> QED
      BY <1>0, <1>5, <1>11, <2>1, <2>2 DEF WriteInv, PinsRule
  <1> QED
    BY <1>7, <1>8, <1>9, <1>10, <1>11

LEMMA WriteSampleStep ==
    ASSUME TransferType, WriteInv, T!WriteSample
    PROVE  WriteInv' /\ PinsRule
  <1> USE DEF TransferType, T!counts
  <1>0. /\ naq = 1 /\ NI > 0 /\ nq = 0 /\ n = 0 /\ n' = 1 /\ kind # "sim"
        /\ UNCHANGED <<kind, nq, naq, at, raw>> /\ at = "write"
    BY DEF T!WriteSample
  <1>1. T!Power' = T!Power /\ T!Zeros' = T!Zeros
    BY DEF T!Power, T!Zeros, T!Byte
  <1>2. CASE kind = "comedi"
    <2>1. device' = [device EXCEPT ![0] = raw % T!Power[BYTESIZE]]
      BY <1>2 DEF T!WriteSample, T!DataWrite, T!ComediDataWrite
    <2>2. device'[0] = raw % T!Power[BYTESIZE] /\ \A i \in T!Byte : i # 0 => device'[i] = device[i]
      BY <1>0, <2>1, FirstByte DEF Bytes
    <2>3. ASSUME NEW k \in T!Pin, T!BitOf(device', k) # T!BitOf(device, k)
          PROVE  T!BitOf(device', k) = T!BitIn(raw, k)
      <3> DEFINE f == k % BYTESIZE
      <3>1. k \div BYTESIZE = 0
        <4>1. k \div BYTESIZE \in T!Byte
          BY PinsAreBits
        <4> QED
          BY <2>2, <2>3, <4>1 DEF T!BitOf
      <3>2. k = f /\ f \in 0 .. BYTESIZE - 1
        BY <3>1, PinsAreBits
      <3>3. T!BitOf(device', k) = BitIn(raw % Power[BYTESIZE], k)
        BY <2>2, <3>1, <3>2, PowersOfTransfer DEF T!BitOf
      <3>4. k \in 0 .. BYTESIZE - 1 /\ raw \in Int /\ BYTESIZE \in Nat
        BY <3>2
      <3>5. BitIn(raw % Power[BYTESIZE], k) = BitIn(raw, k)
        BY <3>4, BitsOfRest
      <3> QED
        BY <3>3, <3>5, PowersOfTransfer
    <2> QED
      BY <1>0, <1>1, <1>2, <2>2, <2>3 DEF WriteInv, PinsRule
  <1>3. CASE kind # "comedi"
    <2>1. device' = device
      BY <1>0, <1>3 DEF T!WriteSample, T!DataWrite, T!GpiodDataWrite, T!UspaceDataWrite,
                        T!DryDataWrite
    <2> QED
      BY <1>0, <1>1, <1>3, <2>1 DEF WriteInv, PinsRule
  <1> QED
    BY <1>2, <1>3

\* In the end everything is written.
LEMMA EndWriteRule ==
    ASSUME TransferType, WriteInv, T!EndWrite
    PROVE  T!WrittenRule
  <1> USE DEF TransferType
  <1>0. /\ at = "write" /\ n = nq * BYTESIZE + naq
        /\ IF kind = "sim" THEN device' = bufOut ELSE device' = device
    BY DEF T!EndWrite, T!SimFlush
  <1>1. PinsRule
    BY <1>0 DEF PinsRule
  <1>2. ASSUME nq > 0
        PROVE  CASE kind = "gpiod" -> \A k \in T!Pin : k < Wired =>
                                          T!BitOf(device', k) = T!BitOf(written, k)
                 [] kind = "sim"   -> \A i \in T!Byte : (\A j \in 0 .. i - 1 : T!Coded(written[j]) # 0)
                                          => device'[i] = T!Coded(written[i])
                 [] kind = "dry"   -> device' = T!Zeros
                 [] OTHER          -> device' = written
    <2>1. n = NI * BYTESIZE /\ BitsWritten
      BY <1>0, <1>2 DEF WriteInv
    <2>2. \A k \in T!Pin : k < n
      BY <2>1 DEF T!Pin
    <2>3. ASSUME NEW i \in T!Byte PROVE i * BYTESIZE < n
      <3>1. i * BYTESIZE + 0 \in T!Pin
        <4>1. 0 \in 0 .. BYTESIZE - 1
          OBVIOUS
        <4> QED
          BY <4>1, BitsArePins
      <3>2. i * BYTESIZE + 0 = i * BYTESIZE
        BY DEF T!Byte
      <3> QED
        BY <2>2, <3>1, <3>2
    <2>4. kind = "gpiod" => \A k \in T!Pin : k < Wired => T!BitOf(device', k) = T!BitOf(written, k)
      BY <1>0, <2>1, <2>2 DEF BitsWritten
    <2>5. kind = "sim" => \A i \in T!Byte : (\A j \in 0 .. i - 1 : T!Coded(written[j]) # 0)
                                          => device'[i] = T!Coded(written[i])
      BY <1>0, <2>1, <2>3 DEF BitsWritten
    <2>6. kind = "dry" => device' = T!Zeros
      BY <1>0 DEF WriteInv
    <2>7. kind = "comedi" => device' = written
      BY <1>0, <2>1, <2>2, SamePins DEF BitsWritten
    <2>8. kind = "uspace" => device' = written
      <3>1. kind = "uspace" => \A i \in T!Byte : device[i] = written[i]
        BY <2>1, <2>3 DEF BitsWritten
      <3> QED
        BY <1>0, <3>1 DEF Bytes
    <2> QED
      BY <2>4, <2>5, <2>6, <2>7, <2>8
  <1>3. ASSUME naq > 0
        PROVE  device'[0] = IF kind = "comedi" THEN raw % T!Power[BYTESIZE] ELSE 0
    <2>1. n = 1
      BY <1>0, <1>3
    <2> QED
      BY <1>0, <1>3, <2>1 DEF WriteInv
  <1> QED
    BY <1>1, <1>2, <1>3 DEF T!WrittenRule, PinsRule

LEMMA WriteStep ==
    TransferType /\ WriteInv /\ [NextSignals]_signals => WriteInv' /\ [T!WrittenRule]_signals
  <1> SUFFICES ASSUME TransferType, WriteInv, [NextSignals]_signals
               PROVE  WriteInv' /\ T!WrittenRule
    OBVIOUS
  <1> USE DEF T!counts
  <1>0. T!Power' = T!Power /\ T!Zeros' = T!Zeros
    BY DEF T!Power, T!Zeros, T!Byte
  <1>1. ASSUME ~T!EndWrite, PinsRule PROVE T!WrittenRule
    BY <1>1 DEF PinsRule, T!WrittenRule
  <1>2. CASE T!WriteBit
    <2>1. WriteInv' /\ PinsRule
      BY <1>2, WriteBitStep
    <2>2. ~T!EndWrite
      BY <1>2 DEF T!WriteBit, T!EndWrite
    <2> QED
      BY <1>1, <2>1, <2>2
  <1>3. CASE T!WriteSample
    <2>1. WriteInv' /\ PinsRule
      BY <1>3, WriteSampleStep
    <2>2. ~T!EndWrite
      BY <1>3 DEF T!WriteSample, T!EndWrite
    <2> QED
      BY <1>1, <2>1, <2>2
  <1>4. CASE T!EndWrite
    <2>1. T!WrittenRule
      BY <1>4, EndWriteRule
    <2>2. at' = "host" /\ UNCHANGED <<kind, nq, naq>> /\ (kind # "sim" => device' = device)
      BY <1>4 DEF T!EndWrite
    <2>3. naq > 0 => kind # "sim"
      BY DEF TransferType
    <2> QED
      BY <1>0, <2>1, <2>2, <2>3 DEF WriteInv
  <1>5. CASE \/ T!BeginScan \/ T!ReadBit \/ T!ReadSample \/ T!PlantMoves \/ T!EndRead \/ T!Tasks
             \/ UNCHANGED transferside
    <2>1. UNCHANGED <<kind, nq, naq, device>>
      BY <1>5 DEF T!BeginScan, T!ReadBit, T!ReadSample, T!PlantMoves, T!EndRead, T!Tasks,
                  transferside
    <2>2. PinsRule
      BY <2>1 DEF PinsRule
    <2>3. CASE T!Tasks
      <3>1. n' = 0 /\ at' = "write" /\ at = "tasks"
        BY <2>3 DEF T!Tasks, WriteInv
      <3>2. BitsWritten'
        <4>1. 0 <= NI * BYTESIZE /\ (\A k \in T!Pin : ~(k < 0)) /\ \A i \in T!Byte : ~(i * BYTESIZE < 0)
          <5>1. \A k \in T!Pin : k \in Nat
            BY PinsAreBits
          <5>2. \A i \in T!Byte : i \in Nat
            BY DEF T!Byte
          <5> QED
            BY <5>1, <5>2
        <4>2. T!Pin' = T!Pin /\ T!Byte' = T!Byte
          BY DEF T!Pin, T!Byte
        <4> QED
          BY <3>1, <4>1, <4>2 DEF BitsWritten
      <3>3. ~T!EndWrite
        BY <3>1 DEF T!EndWrite
      <3> QED
        BY <1>0, <1>1, <2>1, <2>2, <3>1, <3>2, <3>3 DEF WriteInv
    <2>4. CASE \/ T!BeginScan \/ T!ReadBit \/ T!ReadSample \/ T!PlantMoves \/ T!EndRead
      <3>1. at' \in {"read", "tasks"} /\ (at' = "tasks" => n' = 0) /\ ~T!EndWrite
        BY <2>4 DEF T!BeginScan, T!ReadBit, T!ReadSample, T!PlantMoves, T!EndRead, T!EndWrite
      <3> QED
        BY <1>0, <1>1, <2>1, <2>2, <3>1 DEF WriteInv
    <2>5. CASE UNCHANGED transferside
      <3>1. UNCHANGED <<kind, nq, naq, device, at, n, written, raw, bufOut>>
        BY <2>5 DEF transferside
      <3>2. ~T!EndWrite
        BY <3>1 DEF T!EndWrite
      <3>3. BitsWritten' <=> BitsWritten
        BY <3>1 DEF BitsWritten, T!Byte, T!Pin, T!BitOf, T!BitIn, T!Power, T!Coded
      <3> QED
        BY <1>0, <1>1, <2>2, <3>1, <3>2, <3>3 DEF WriteInv
    <2> QED
      BY <1>5, <2>3, <2>4, <2>5
  <1> QED
    BY <1>2, <1>3, <1>4, <1>5, TransferSteps DEF T!Next

\* While a scan writes, no pin takes any value but the one it is to have, and in
\* the end every connected one has it, whatever the program and the plant do,
\* for every back end (write_outputs, dio_write and data_write, flush).
THEOREM SignalsWrittenOnce == SpecSignals => WrittenOnce
  <1>1. InitSignals => TransferType /\ WriteInv
    BY TransferTypeInit, WriteInit DEF InitSignals
  <1> QED
    BY <1>1, TransferTypeStep, WriteStep, PTL DEF SpecSignals, WrittenOnce
=============================================================================
