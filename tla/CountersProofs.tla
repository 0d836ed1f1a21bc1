--------------------------- MODULE CountersProofs ---------------------------
(***************************************************************************)
(* Proofs about the memory registers of module Counters, for any set of    *)
(* registers, any width of V and any program of coils; and that registers  *)
(* whose coil is executed once per scan implement module PulseCounter.     *)
(***************************************************************************)
EXTENDS CountersOneCoil, TLAPS

USE VModAssumption

\* Counting stays within the word: V wraps at both ends.
LEMMA CountedInWord ==
    ASSUME NEW r \in Register
    PROVE  Counted(r) % VMod \in Value
  BY DEF Counted, Register, Value

\* What the end of a scan makes of a register is a register.
LEMMA RegisterSteps ==
    ASSUME NEW r \in Register, NEW b \in BOOLEAN
    PROVE  /\ ReadMvar(r) \in Register
           /\ Contacted(r, b) \in Register
           /\ SetCoil(r) \in Register
           /\ ResetCoil(r) \in Register
           /\ CheckPulse(r, b) \in Register
           /\ WriteMvar(r) \in Register
  <1>1. ReadMvar(r) \in Register /\ Contacted(r, b) \in Register
    BY DEF ReadMvar, Contacted, Register
  <1>2. SetCoil(r) \in Register /\ ResetCoil(r) \in Register
    BY DEF SetCoil, ResetCoil, Register
  <1>3. CheckPulse(r, b) \in Register
    BY DEF CheckPulse, Register
  <1>4. WriteMvar(r) \in Register
    BY CountedInWord DEF WriteMvar, Register
  <1> QED
    BY <1>1, <1>2, <1>3, <1>4

\* Types are kept by every step.
LEMMA TypeStep == TypeOK /\ [Next]_vars => TypeOK'
  <1> SUFFICES ASSUME TypeOK, [Next]_vars PROVE TypeOK'
    OBVIOUS
  <1> USE DEF TypeOK
  <1>1. CASE BeginScan
    BY <1>1, RegisterSteps DEF BeginScan
  <1>2. CASE Program
    <2>1. ASSUME NEW c \in Counter, Coil(c) PROVE TypeOK'
      <3>1. PICK r \in Register, k \in {"ST", "S", "R"} : ExecuteCoil(c, k, r)
        BY <2>1, RegisterSteps DEF Coil, Contact, Set, Reset
      <3> QED
        BY <3>1 DEF ExecuteCoil
    <2>2. ASSUME NEW c \in Counter, NEW v \in Value, StoreValue(c, v) PROVE TypeOK'
      BY <2>2 DEF StoreValue, Register
    <2> QED
      BY <1>2, <2>1, <2>2 DEF Program, Store
  <1>3. CASE EndScan
    <2>1. \A c \in Counter : WriteMvar(CheckPulse(m[c], oldPulse[c])) \in Register
      BY RegisterSteps
    <2>2. \A c \in Counter : m[c].PULSE \in BOOLEAN
      BY DEF Register
    <2>3. PulseChanged \in BOOLEAN
      BY DEF PulseChanged
    <2> QED
      BY <1>3, <2>1, <2>2, <2>3 DEF EndScan
  <1>4. CASE ResetUpdate
    BY <1>4 DEF ResetUpdate
  <1>5. CASE Configuration
    BY <1>5 DEF Configuration, InitVariable, ConfigureReadonly, ConfigureDirection, Register
  <1>6. CASE UNCHANGED vars
    BY <1>6 DEF vars
  <1> QED
    BY <1>1, <1>2, <1>3, <1>4, <1>5, <1>6 DEF Next

LEMMA TypeInit == Init => TypeOK
  <1>1. 0 \in Value
    BY DEF Value
  <1>2. [V : {0}, RO : BOOLEAN, DOWN : BOOLEAN, PULSE : {FALSE}, EDGE : {FALSE},
         SET : {FALSE}, RESET : {FALSE}] \subseteq Register
    BY <1>1 DEF Register
  <1> QED
    BY <1>2 DEF Init, TypeOK

\* Every field of every register keeps its width, V in particular, which
\* counts up and down without leaving its word.
THEOREM CountersType == Spec => []TypeOK
  BY TypeInit, TypeStep, PTL DEF Spec

-----------------------------------------------------------------------------

\* The end of a scan leaves the pulse of a register alone.
LEMMA EndScanKeepsPulse ==
    ASSUME NEW r \in Register, NEW b \in BOOLEAN
    PROVE  WriteMvar(CheckPulse(r, b)).PULSE = r.PULSE
  BY DEF WriteMvar, CheckPulse, Register

LEMMA BaselineStep == TypeOK /\ PulseBaseline /\ [Next]_vars => PulseBaseline'
  <1> SUFFICES ASSUME TypeOK, PulseBaseline, [Next]_vars, phase' = "host"
               PROVE  \A c \in Counter : oldPulse'[c] = m'[c].PULSE
    BY DEF PulseBaseline
  <1> USE DEF TypeOK
  <1>1. CASE BeginScan
    BY <1>1 DEF BeginScan
  <1>2. CASE Program
    <2>1. phase = "tasks" /\ phase' = phase
      BY <1>2 DEF Program, Store, StoreValue, Coil, Contact, Set, Reset, ExecuteCoil
    <2> QED
      BY <2>1
  <1>3. CASE EndScan
    <2>1. \A c \in Counter : m'[c].PULSE = m[c].PULSE
      BY <1>3, EndScanKeepsPulse DEF EndScan
    <2>2. CASE changedM \/ PulseChanged
      BY <1>3, <2>1, <2>2 DEF EndScan
    <2>3. CASE ~(changedM \/ PulseChanged)
      BY <1>3, <2>1, <2>3 DEF EndScan, PulseChanged
    <2> QED
      BY <2>2, <2>3
  <1>4. CASE ResetUpdate
    BY <1>4 DEF ResetUpdate, PulseBaseline
  <1>5. CASE Configuration
    BY <1>5 DEF Configuration, InitVariable, ConfigureReadonly, ConfigureDirection,
                PulseBaseline, Register
  <1>6. CASE UNCHANGED vars
    BY <1>6 DEF vars, PulseBaseline
  <1> QED
    BY <1>1, <1>2, <1>3, <1>4, <1>5, <1>6 DEF Next

\* Between scans the saved pulses are the present ones: the update mask, by
\* which save_state decides to copy, never hides a change of a pulse.
THEOREM CountersBaseline == Spec => []PulseBaseline
  <1>1. Init => PulseBaseline
    BY DEF Init, PulseBaseline, Register
  <1> QED
    BY <1>1, CountersType, BaselineStep, PTL DEF Spec

-----------------------------------------------------------------------------

\* A pulse that is higher than the saved one is counted, whatever EDGE says.
LEMMA RiseIsCounted ==
    ASSUME NEW r \in Register, r.PULSE, ~r.RO
    PROVE  WriteMvar(CheckPulse(r, FALSE)).V = Counted(r) % VMod
  BY DEF WriteMvar, CheckPulse, Counted, Register

\* Every rise of a pulse from scan to scan is counted, up or down, whichever
\* coils drove the register and how often.
THEOREM CountersCountRises == Spec => RisesCounted
  <1>1. TypeOK /\ [Next]_vars =>
          [EndScan => \A c \in Counter :
             (m[c].PULSE /\ ~oldPulse[c] /\ ~m[c].RO)
                => m'[c].V = Counted(m[c]) % VMod]_vars
    <2> SUFFICES ASSUME TypeOK, EndScan, NEW c \in Counter,
                        m[c].PULSE, ~oldPulse[c], ~m[c].RO
                 PROVE  m'[c].V = Counted(m[c]) % VMod
      OBVIOUS
    <2>1. m[c] \in Register /\ oldPulse[c] = FALSE
      BY DEF TypeOK
    <2>2. m'[c] = WriteMvar(CheckPulse(m[c], FALSE))
      BY <2>1 DEF EndScan
    <2> QED
      BY <2>1, <2>2, RiseIsCounted
  <1> QED
    BY <1>1, CountersType, PTL DEF Spec, RisesCounted

-----------------------------------------------------------------------------

\* After the end of a scan a counting register has no edge left under a high
\* pulse.
LEMMA EdgeConsumed ==
    ASSUME NEW r \in Register
    PROVE  ~(~WriteMvar(r).RO /\ WriteMvar(r).PULSE /\ WriteMvar(r).EDGE)
  BY DEF WriteMvar, Register

LEMMA HeldStep ==
    ~Reconfigure /\ TypeOK /\ HeldPulseCounted /\ [Next]_vars => HeldPulseCounted'
  <1> SUFFICES ASSUME ~Reconfigure, TypeOK, HeldPulseCounted, [Next]_vars,
                      phase' = "host", NEW c \in Counter
               PROVE  ~(~m'[c].RO /\ m'[c].PULSE /\ m'[c].EDGE)
    BY DEF HeldPulseCounted
  <1> USE DEF TypeOK
  <1>1. CASE BeginScan
    BY <1>1 DEF BeginScan
  <1>2. CASE Program
    <2>1. phase = "tasks" /\ phase' = phase
      BY <1>2 DEF Program, Store, StoreValue, Coil, Contact, Set, Reset, ExecuteCoil
    <2> QED
      BY <2>1
  <1>3. CASE EndScan
    <2>1. CheckPulse(m[c], oldPulse[c]) \in Register
      BY RegisterSteps
    <2> QED
      BY <1>3, <2>1, EdgeConsumed DEF EndScan
  <1>4. CASE ResetUpdate
    BY <1>4 DEF ResetUpdate, HeldPulseCounted
  <1>5. CASE Configuration
    BY <1>5 DEF Configuration, InitVariable, ConfigureReadonly, ConfigureDirection,
                HeldPulseCounted, Register
  <1>6. CASE UNCHANGED vars
    BY <1>6 DEF vars, HeldPulseCounted
  <1> QED
    BY <1>1, <1>2, <1>3, <1>4, <1>5, <1>6 DEF Next

\* A register that is not reconfigured while the PLC runs counts a pulse held
\* over many scans once.
THEOREM CountersHeldPulse == ~Reconfigure => (Spec => []HeldPulseCounted)
  <1> SUFFICES ASSUME ~Reconfigure PROVE Spec => []HeldPulseCounted
    OBVIOUS
  <1>1. Init => HeldPulseCounted
    BY DEF Init, HeldPulseCounted
  <1>2. TypeOK /\ HeldPulseCounted /\ [Next]_vars => HeldPulseCounted'
    BY HeldStep
  <1> QED
    BY <1>1, <1>2, CountersType, PTL DEF Spec

-----------------------------------------------------------------------------
(* One coil per register: the pulse counter.                               *)

\* The register of a program that keeps the rule is never latched.  Before its
\* coil is executed the pulse is the saved one and, if high, has been counted;
\* from then on the edge says whether the pulse differs from the saved one.
OneCoil(c) ==
    /\ ~m[c].SET /\ ~m[c].RESET
    /\ phase = "host" \/ c \notin hit =>
          /\ m[c].PULSE = oldPulse[c]
          /\ ~(~m[c].RO /\ m[c].PULSE /\ m[c].EDGE)
    /\ phase = "tasks" /\ c \in hit => (m[c].EDGE <=> m[c].PULSE # oldPulse[c])

OnceInv ==
    /\ TypeOK /\ PulseBaseline /\ HeldPulseCounted
    /\ ruled \in BOOLEAN
    /\ ruled => \A c \in Counter : OneCoil(c)

LEMMA OnceIsNext == [NextOnce]_allvars => [Next]_vars
  BY DEF NextOnce, FreeCoil, CoilOnce, Coil, Program, Next, allvars

LEMMA OnceInit == InitOnce => OnceInv
  <1> SUFFICES ASSUME InitOnce PROVE OnceInv
    OBVIOUS
  <1> USE DEF InitOnce
  <1>1. TypeOK
    BY TypeInit
  <1>2. PulseBaseline /\ HeldPulseCounted
    BY DEF Init, PulseBaseline, HeldPulseCounted
  <1>3. \A c \in Counter : OneCoil(c)
    BY DEF Init, OneCoil
  <1> QED
    BY <1>1, <1>2, <1>3 DEF OnceInv

\* What one step of a program that keeps the rule does to the register c.
LEMMA OneCoilStep ==
    ASSUME OnceInv, ruled, ~Reconfigure, [NextOnce]_allvars, NEW c \in Counter
    PROVE  OneCoil(c)'
  <1> USE DEF OnceInv, TypeOK
  <1>0. OneCoil(c) /\ m[c] \in Register /\ oldPulse[c] \in BOOLEAN
    OBVIOUS
  <1>1. CASE BeginScan /\ hit' = {}
    <2>1. m'[c] = m[c] /\ oldPulse' = oldPulse /\ phase = "host"
      BY <1>0, <1>1 DEF BeginScan, ReadMvar, OneCoil
    <2> QED
      BY <1>0, <1>1, <2>1 DEF OneCoil
  <1>2. CASE CoilOnce
    <2>1. PICK k \in Counter \ hit, val \in BOOLEAN : Contact(k, val) /\ hit' = hit \cup {k}
      BY <1>2 DEF CoilOnce
    <2>2. phase = "tasks" /\ phase' = phase /\ oldPulse' = oldPulse
      BY <2>1 DEF Contact, ExecuteCoil
    <2>3. CASE c = k
      <3>1. m'[c] = Contacted(m[c], val)
        BY <2>1, <2>3 DEF Contact, ExecuteCoil
      <3>2. m[c].PULSE = oldPulse[c] /\ ~m[c].SET /\ ~m[c].RESET
        BY <1>0, <2>1, <2>3 DEF OneCoil
      <3>3. /\ m'[c].PULSE = val /\ m'[c].EDGE = (m[c].PULSE # val)
            /\ m'[c].SET = m[c].SET /\ m'[c].RESET = m[c].RESET
        BY <1>0, <3>1 DEF Contacted, Register
      <3> QED
        BY <2>1, <2>2, <2>3, <3>2, <3>3 DEF OneCoil
    <2>4. CASE c # k
      <3>1. m'[c] = m[c] /\ (c \in hit' <=> c \in hit)
        BY <2>1, <2>4 DEF Contact, ExecuteCoil
      <3> QED
        BY <1>0, <2>2, <3>1 DEF OneCoil
    <2> QED
      BY <2>3, <2>4
  <1>3. CASE (Store \/ Configuration) /\ UNCHANGED hit
    <2>1. PICK k \in Counter, v \in Value : StoreValue(k, v) \/ InitVariable(k, v)
      BY <1>3 DEF Store, Configuration, ConfigureReadonly, ConfigureDirection
    <2>2. UNCHANGED <<oldPulse, phase, hit>> /\ m' = [m EXCEPT ![k].V = v]
      BY <1>3, <2>1 DEF StoreValue, InitVariable
    <2>3. /\ m'[c].PULSE = m[c].PULSE /\ m'[c].EDGE = m[c].EDGE /\ m'[c].RO = m[c].RO
          /\ m'[c].SET = m[c].SET /\ m'[c].RESET = m[c].RESET
      BY <1>0, <2>2 DEF Register
    <2> QED
      BY <1>0, <2>2, <2>3 DEF OneCoil
  <1>4. CASE EndScan /\ UNCHANGED hit
    <2>1. m'[c] = WriteMvar(CheckPulse(m[c], oldPulse[c])) /\ phase' = "host"
      BY <1>4 DEF EndScan
    <2>2. CheckPulse(m[c], oldPulse[c]) \in Register
      BY <1>0, RegisterSteps
    <2>3. ~(~m'[c].RO /\ m'[c].PULSE /\ m'[c].EDGE)
      BY <2>1, <2>2, EdgeConsumed
    <2>4. m'[c].SET = m[c].SET /\ m'[c].RESET = m[c].RESET
      BY <1>0, <2>1 DEF WriteMvar, CheckPulse, Register
    <2>5. m'[c].PULSE = oldPulse'[c]
      <3>1. PulseBaseline'
        BY BaselineStep, OnceIsNext
      <3> QED
        BY <2>1, <3>1 DEF PulseBaseline
    <2> QED
      BY <1>0, <2>1, <2>3, <2>4, <2>5 DEF OneCoil
  <1>5. CASE ResetUpdate /\ UNCHANGED hit
    BY <1>0, <1>5 DEF ResetUpdate, OneCoil
  <1>6. CASE UNCHANGED allvars
    BY <1>0, <1>6 DEF allvars, vars, OneCoil
  <1> QED
    BY <1>1, <1>2, <1>3, <1>4, <1>5, <1>6 DEF NextOnce, FreeCoil

LEMMA OnceStep == ~Reconfigure /\ OnceInv /\ [NextOnce]_allvars => OnceInv'
  <1> SUFFICES ASSUME ~Reconfigure, OnceInv, [NextOnce]_allvars PROVE OnceInv'
    OBVIOUS
  <1>1. TypeOK' /\ PulseBaseline' /\ HeldPulseCounted'
    BY OnceIsNext, TypeStep, BaselineStep, HeldStep DEF OnceInv
  <1>2. ruled' = ruled
    BY DEF NextOnce, allvars
  <1>3. ruled => \A c \in Counter : OneCoil(c)'
    BY OneCoilStep
  <1> QED
    BY <1>1, <1>2, <1>3 DEF OnceInv

\* A scan of a program that keeps the rule samples its pulses.
LEMMA ScanSamples ==
    ASSUME OnceInv, ruled, ruled', EndScan
    PROVE  Abstract!Next
  <1>a. \A c \in Counter : m[c] \in Register /\ oldPulse[c] \in BOOLEAN
    BY DEF OnceInv, TypeOK
  <1>b. PICK pulses \in [Counter -> BOOLEAN] : \A c \in Counter : pulses[c] = m[c].PULSE
    <2>1. [c \in Counter |-> m[c].PULSE] \in [Counter -> BOOLEAN]
      BY <1>a DEF Register
    <2> QED
      BY <2>1
  <1>1. \A c \in Counter : oldPulse'[c] = pulses[c]
    <2>1. CASE changedM \/ PulseChanged
      BY <1>b, <2>1 DEF EndScan
    <2>2. CASE ~(changedM \/ PulseChanged)
      BY <1>b, <2>2 DEF EndScan, PulseChanged
    <2> QED
      BY <2>1, <2>2
  <1>2. ASSUME NEW c \in Counter
        PROVE  /\ m'[c].V = IF pulses[c] /\ ~oldPulse[c] /\ ~m[c].RO
                            THEN Counted(m[c]) % VMod ELSE m[c].V
               /\ m'[c].RO = m[c].RO /\ m'[c].DOWN = m[c].DOWN
    <2>1. m'[c] = WriteMvar(CheckPulse(m[c], oldPulse[c]))
      BY DEF EndScan
    <2>2. OneCoil(c) /\ phase = "tasks"
      BY DEF OnceInv, EndScan
    <2>3. m[c].PULSE /\ ~m[c].RO => (m[c].EDGE \/ m[c].PULSE # oldPulse[c] <=> ~oldPulse[c])
      BY <1>a, <1>b, <2>2 DEF OneCoil, Register
    <2> QED
      BY <1>a, <1>b, <2>1, <2>3 DEF WriteMvar, CheckPulse, Counted, Register
  <1>3. Abstract!Sample(pulses)
    BY <1>a, <1>b, <1>1, <1>2 DEF Abstract!Sample, Abstract!OneStep, Counted
  <1> QED
    BY <1>3 DEF Abstract!Next

\* A value that an instruction or the host stores is stored of the counter too.
LEMMA StoresStore ==
    ASSUME OnceInv, ruled, ruled', NEW k \in Counter, NEW v \in Value,
           m' = [m EXCEPT ![k].V = v], oldPulse' = oldPulse
    PROVE  Abstract!Next
  <1>1. \A c \in Counter : m[c] \in Register
    BY DEF OnceInv, TypeOK
  <1>2. \A c \in Counter : /\ m'[c].V = IF c = k THEN v ELSE m[c].V
                           /\ m'[c].RO = m[c].RO /\ m'[c].DOWN = m[c].DOWN
    BY <1>1 DEF OnceInv, TypeOK, Register
  <1>3. Abstract!Store(k, v)
    BY <1>2 DEF Abstract!Store
  <1> QED
    BY <1>3 DEF Abstract!Next, Value

\* A step that leaves values, saved pulses and configuration is no step of the
\* counters; nor is one of a program that does not keep the rule.
LEMMA Stutters ==
    ASSUME ruled' = ruled,
           \A c \in Counter : m'[c].RO = m[c].RO /\ m'[c].DOWN = m[c].DOWN,
           ruled => oldPulse' = oldPulse /\ \A c \in Counter : m'[c].V = m[c].V
    PROVE  UNCHANGED Abstract!vars
  BY DEF Abstract!vars

\* Nobody but the host, when it may, configures a register.
LEMMA ConfigurationKept ==
    ASSUME ~Reconfigure, TypeOK, [Next]_vars, NEW c \in Counter
    PROVE  m'[c].RO = m[c].RO /\ m'[c].DOWN = m[c].DOWN
  <1> USE DEF TypeOK
  <1>0. m[c] \in Register /\ oldPulse[c] \in BOOLEAN
    OBVIOUS
  <1>1. CASE BeginScan
    BY <1>0, <1>1 DEF BeginScan, ReadMvar, Register
  <1>2. ASSUME NEW k \in Counter, Coil(k) PROVE m'[c].RO = m[c].RO /\ m'[c].DOWN = m[c].DOWN
    <2>1. ASSUME NEW kind, NEW r \in Register, ExecuteCoil(k, kind, r),
                 r.RO = m[k].RO, r.DOWN = m[k].DOWN
          PROVE  m'[c].RO = m[c].RO /\ m'[c].DOWN = m[c].DOWN
      BY <2>1 DEF ExecuteCoil
    <2>2. /\ SetCoil(m[k]).RO = m[k].RO /\ SetCoil(m[k]).DOWN = m[k].DOWN
          /\ ResetCoil(m[k]).RO = m[k].RO /\ ResetCoil(m[k]).DOWN = m[k].DOWN
          /\ \A val : /\ Contacted(m[k], val).RO = m[k].RO
                      /\ Contacted(m[k], val).DOWN = m[k].DOWN
      BY DEF SetCoil, ResetCoil, Contacted, Register
    <2> QED
      BY <1>2, <2>1, <2>2, RegisterSteps DEF Coil, Contact, Set, Reset
  <1>3. CASE Store
    BY <1>0, <1>3 DEF Store, StoreValue, Register
  <1>4. CASE EndScan
    BY <1>0, <1>4 DEF EndScan, WriteMvar, CheckPulse, Register
  <1>5. CASE ResetUpdate
    BY <1>5 DEF ResetUpdate
  <1>6. CASE Configuration
    BY <1>0, <1>6 DEF Configuration, InitVariable, ConfigureReadonly, ConfigureDirection,
                      Register
  <1>7. CASE UNCHANGED vars
    BY <1>7 DEF vars
  <1> QED
    BY <1>1, <1>2, <1>3, <1>4, <1>5, <1>6, <1>7 DEF Next, Program

\* Every step of the registers is a step of the counters, or none.
LEMMA OnceImplements ==
    ASSUME ~Reconfigure, OnceInv, [NextOnce]_allvars
    PROVE  Abstract!Next \/ UNCHANGED Abstract!vars
  <1>0. /\ ruled' = ruled
        /\ \A c \in Counter : m'[c].RO = m[c].RO /\ m'[c].DOWN = m[c].DOWN
        /\ \A c \in Counter : m[c] \in Register
    BY OnceIsNext, ConfigurationKept DEF NextOnce, allvars, OnceInv, TypeOK
  <1>1. CASE ~ruled
    BY <1>0, <1>1, Stutters
  <1>2. CASE ruled /\ BeginScan
    <2>1. \A c \in Counter : m'[c].V = m[c].V
      BY <1>0, <1>2 DEF BeginScan, ReadMvar, Register
    <2> QED
      BY <1>0, <1>2, <2>1, Stutters DEF BeginScan
  <1>3. CASE CoilOnce
    <2>1. PICK k \in Counter, val \in BOOLEAN : Contact(k, val)
      BY <1>3 DEF CoilOnce
    <2>2. \A c \in Counter : m'[c].V = m[c].V
      BY <1>0, <2>1 DEF Contact, ExecuteCoil, Contacted, Register
    <2> QED
      BY <1>0, <2>1, <2>2, Stutters DEF Contact, ExecuteCoil
  <1>4. CASE ruled /\ (Store \/ Configuration)
    <2>1. PICK k \in Counter, v \in Value : StoreValue(k, v) \/ InitVariable(k, v)
      BY <1>4 DEF Store, Configuration, ConfigureReadonly, ConfigureDirection
    <2> QED
      BY <1>0, <1>4, <2>1, StoresStore DEF StoreValue, InitVariable
  <1>5. CASE ruled /\ EndScan
    BY <1>0, <1>5, ScanSamples
  <1>6. CASE ResetUpdate \/ UNCHANGED allvars
    BY <1>0, <1>6, Stutters DEF ResetUpdate, allvars, vars
  <1> QED
    BY <1>0, <1>1, <1>2, <1>3, <1>4, <1>5, <1>6 DEF NextOnce, FreeCoil

LEMMA OnceInitImplements == InitOnce => Abstract!Init
  <1> SUFFICES ASSUME InitOnce PROVE Abstract!Init
    OBVIOUS
  <1>1. \A c \in Counter : /\ m[c].V = 0 /\ m[c].RO \in BOOLEAN /\ m[c].DOWN \in BOOLEAN
                           /\ oldPulse[c] = FALSE
    BY DEF InitOnce, Init
  <1>2. \A c \in Counter : (ruled /\ oldPulse[c]) = FALSE
    BY <1>1
  <1> QED
    BY <1>1, <1>2 DEF Abstract!Init

\* Registers that are configured before the first scan, driven by one coil each
\* once in a scan, are pulse counters, however many, of whatever width, and
\* whatever the host and the program store in them (the rule of the README).
THEOREM CountersImplement == ~Reconfigure => (SpecOnce => ImplementsPulseCounter)
  <1> SUFFICES ASSUME ~Reconfigure PROVE SpecOnce => ImplementsPulseCounter
    OBVIOUS
  <1>1. OnceInv /\ [NextOnce]_allvars => OnceInv'
    BY OnceStep
  <1>2. OnceInv /\ [NextOnce]_allvars => [Abstract!Next]_Abstract!vars
    BY OnceImplements
  <1> QED
    BY <1>1, <1>2, OnceInit, OnceInitImplements, PTL
       DEF SpecOnce, ImplementsPulseCounter, Abstract!Spec
=============================================================================
