---------------------------- MODULE PacingProofs ----------------------------
(***************************************************************************)
(* Proofs about the timeout of a rung, module Task, for any number of      *)
(* rungs and instructions, any timeout and any granularity of the clock;   *)
(* and about the pacing of plc_func, module Pacing, whose scans contain    *)
(* these tasks, for any step and any time between scans.  The clock shows  *)
(* no seconds, so that the invariant of the pacing says where it is by the *)
(* history variable age as long as no second has gone by.                  *)
(***************************************************************************)
EXTENDS Times, TLAPS

USE RungsAssumption, TimeAssumption

-----------------------------------------------------------------------------
(* The tasks of a scan.                                                    *)

\* An instruction moves tv_usec on, at most once past the end of a second.
LEMMA ClockAfter ==
    ASSUME NEW now \in 0 .. Second - 1, NEW d \in 0 .. MaxTime
    PROVE  (now + d) % Second = IF now + d < Second THEN now + d ELSE now + d - Second
  <1>1. CASE now + d < Second
    BY <1>1
  <1>2. CASE now + d >= Second
    <2>1. now + d - Second \in 0 .. Second - 1
      BY <1>2
    <2> QED
      BY <1>2, <2>1
  <1> QED
    BY <1>1, <1>2

\* The range of a difference of two readings of tv_usec.
LEMMA LapseRange ==
    ASSUME NEW a \in 0 .. Second - 1, NEW b \in 0 .. Second - 1
    PROVE  a - b \in 1 - Second .. Second - 1
  OBVIOUS

LEMMA TypeStep == TaskTypeOK /\ [NextTask]_taskvars => TaskTypeOK'
  <1> SUFFICES ASSUME TaskTypeOK, [NextTask]_taskvars PROVE TaskTypeOK'
    OBVIOUS
  <1> USE DEF TaskTypeOK
  <1>1. CASE AllTasks
    BY <1>1 DEF AllTasks, Results
  <1>2. CASE EnterTask
    BY <1>2 DEF EnterTask, MoreRungs, Results
  <1>3. CASE AllTasksReturn
    BY <1>3 DEF AllTasksReturn
  <1>4. CASE TimeOut
    BY <1>4 DEF TimeOut, Results
  <1>5. ASSUME NEW d \in 0 .. MaxTime, NEW next \in 0 .. InsNo,
               NEW result \in {"ok", "error"}, Execute(d, next, result)
        PROVE  TaskTypeOK'
    <2>1. clock' \in 0 .. Second - 1
      BY <1>5, ClockAfter DEF Execute
    <2>2. delta' = clock' - start /\ start' = start
      BY <1>5 DEF Execute, Lapse
    <2>3. delta' \in 1 - Second .. Second - 1
      BY <2>1, <2>2, LapseRange
    <2>4. elapsed' \in 0 .. Horizon
      BY <1>5 DEF Execute
    <2>5. pc' = "task" /\ rung' = rung /\ ip' = next /\ rv' = result
      BY <1>5 DEF Execute, InLoop
    <2>6. start' \in 0 .. Second - 1 /\ rung < Rungs
      BY <1>5, <2>2 DEF Execute, InLoop
    <2> QED
      BY <2>1, <2>3, <2>4, <2>5, <2>6 DEF Results
  <1>6. CASE TaskReturn
    BY <1>6 DEF TaskReturn
  <1>7. CASE UNCHANGED taskvars
    BY <1>7 DEF taskvars
  <1> QED
    BY <1>1, <1>2, <1>3, <1>4, <1>5, <1>6, <1>7 DEF NextTask, ExecuteIn

\* all_tasks stays within the rungs and task within the instructions.
THEOREM TaskType == SpecTask => []TaskTypeOK
  <1>1. InitTask => TaskTypeOK
    BY DEF InitTask, TaskTypeOK, Results
  <1> QED
    BY <1>1, TypeStep, PTL DEF SpecTask

-----------------------------------------------------------------------------

\* What task measures: the distance of two readings of tv_usec, which is never
\* more than the time that has passed.
Measured ==
    pc = "task" => delta = clock - start /\ (delta <= elapsed \/ elapsed = Horizon)

LEMMA MeasuredStep ==
    TaskTypeOK /\ Measured /\ NoSpuriousTimeout /\ [NextTask]_taskvars
        => Measured' /\ NoSpuriousTimeout'
  <1> SUFFICES ASSUME TaskTypeOK, Measured, NoSpuriousTimeout, [NextTask]_taskvars
               PROVE  Measured' /\ NoSpuriousTimeout'
    OBVIOUS
  <1> USE DEF TaskTypeOK, Measured, NoSpuriousTimeout
  <1>1. CASE AllTasks
    BY <1>1 DEF AllTasks
  <1>2. CASE EnterTask
    BY <1>2 DEF EnterTask
  <1>3. CASE AllTasksReturn
    BY <1>3 DEF AllTasksReturn
  <1>4. CASE TimeOut
    BY <1>4 DEF TimeOut, InLoop, TimedOut
  <1>5. ASSUME NEW d \in 0 .. MaxTime, NEW next \in 0 .. InsNo,
               NEW result \in {"ok", "error"}, Execute(d, next, result)
        PROVE  Measured' /\ NoSpuriousTimeout'
    <2>1. clock' <= clock + d /\ clock' \in Int
      <3>1. clock' = IF clock + d < Second THEN clock + d ELSE clock + d - Second
        BY <1>5, ClockAfter DEF Execute
      <3> QED
        BY <3>1
    <2>2. delta' = clock' - start /\ start' = start /\ pc' = pc /\ pc = "task"
      BY <1>5 DEF Execute, Lapse, InLoop
    <2>3. elapsed' = elapsed + d \/ elapsed' = Horizon
      BY <1>5 DEF Execute
    <2>4. elapsed = Horizon => elapsed' = Horizon
      BY <1>5 DEF Execute
    <2>5. rv' # "timeout"
      BY <1>5 DEF Execute
    <2> QED
      BY <2>1, <2>2, <2>3, <2>4, <2>5
  <1>6. CASE TaskReturn
    BY <1>6 DEF TaskReturn
  <1>7. CASE UNCHANGED taskvars
    BY <1>7 DEF taskvars
  <1> QED
    BY <1>1, <1>2, <1>3, <1>4, <1>5, <1>6, <1>7 DEF NextTask, ExecuteIn

\* A rung that is reported to have timed out has run for the whole timeout,
\* although the code compares tv_usec alone.
THEOREM TaskNoSpuriousTimeout == SpecTask => []NoSpuriousTimeout
  <1>1. InitTask => Measured /\ NoSpuriousTimeout
    BY DEF InitTask, Measured, NoSpuriousTimeout
  <1> QED
    BY <1>1, TaskType, MeasuredStep, PTL DEF SpecTask

-----------------------------------------------------------------------------

\* In a rung that begins early in a second the measure is the time passed.
Accurate ==
    pc = "task" /\ EarlyStart =>
        /\ clock = start + elapsed
        /\ delta = elapsed
        /\ elapsed < Timeout + MaxTime

LEMMA AccurateStep == TaskTypeOK /\ Accurate /\ [NextTask]_taskvars => Accurate'
  <1> SUFFICES ASSUME TaskTypeOK, Accurate, [NextTask]_taskvars PROVE Accurate'
    OBVIOUS
  <1> USE DEF TaskTypeOK, Accurate, EarlyStart
  <1>1. CASE AllTasks
    BY <1>1 DEF AllTasks
  <1>2. CASE EnterTask
    BY <1>2 DEF EnterTask
  <1>3. CASE AllTasksReturn
    BY <1>3 DEF AllTasksReturn
  <1>4. CASE TimeOut
    BY <1>4 DEF TimeOut
  <1>5. ASSUME NEW d \in 0 .. MaxTime, NEW next \in 0 .. InsNo,
               NEW result \in {"ok", "error"}, Execute(d, next, result), EarlyStart
        PROVE  Accurate'
    <2>1. pc = "task" /\ start' = start /\ delta < Timeout
      BY <1>5 DEF Execute, InLoop, TimedOut
    <2>2. elapsed + d < Timeout + MaxTime /\ clock + d = start + elapsed + d
      BY <1>5, <2>1
    <2>3. clock + d < Second
      BY <1>5, <2>2
    <2>4. clock' = clock + d
      BY <1>5, <2>3, ClockAfter DEF Execute
    <2>5. delta' = clock' - start
      BY <1>5 DEF Execute, Lapse
    <2>6. elapsed' = elapsed + d
      BY <1>5, <2>2 DEF Execute
    <2> QED
      BY <2>1, <2>2, <2>4, <2>5, <2>6
  <1>6. ASSUME NEW d \in 0 .. MaxTime, NEW next \in 0 .. InsNo,
               NEW result \in {"ok", "error"}, Execute(d, next, result), ~EarlyStart
        PROVE  Accurate'
    BY <1>6 DEF Execute
  <1>7. CASE TaskReturn
    BY <1>7 DEF TaskReturn
  <1>8. CASE UNCHANGED taskvars
    BY <1>8 DEF taskvars
  <1> QED
    BY <1>1, <1>2, <1>3, <1>4, <1>5, <1>6, <1>7, <1>8 DEF NextTask, ExecuteIn

\* A rung that begins early enough in a second overruns its timeout by less
\* than one instruction.
THEOREM TaskTimeBounded == SpecTask => []TimeBounded
  <1>1. InitTask => Accurate
    BY DEF InitTask, Accurate
  <1>2. Accurate => TimeBounded
    BY DEF Accurate, TimeBounded
  <1> QED
    BY <1>1, <1>2, TaskType, AccurateStep, PTL DEF SpecTask

-----------------------------------------------------------------------------
(* The pacing of scans.                                                    *)

USE WordAssumption

\* Where tv_usec is the given time after it showed start, within a second.
Shown(from, time) == IF from + time < Second THEN from + time ELSE from + time - Second

\* tv_usec as long as no second has passed since it showed from.
LEMMA ShownIsModulo ==
    ASSUME NEW from \in 0 .. Second - 1, NEW time \in 0 .. Second - 1
    PROVE  (from + time) % Second = Shown(from, time)
  <1>1. CASE from + time < Second
    BY <1>1 DEF Shown
  <1>2. CASE from + time >= Second
    <2>1. from + time - Second \in 0 .. Second - 1
      BY <1>2
    <2> QED
      BY <1>2, <2>1 DEF Shown
  <1> QED
    BY <1>1, <1>2

\* No time has passed yet.
LEMMA ShownAtOnce ==
    ASSUME NEW from \in 0 .. Second - 1
    PROVE  Shown(from, 0) = from
  <1>1. from + 0 = from /\ from < Second
    OBVIOUS
  <1> QED
    BY <1>1 DEF Shown

\* The difference of two readings within a second, as all_tasks is timed.
LEMMA DifferenceIsTime ==
    ASSUME NEW from \in 0 .. Second - 1, NEW time \in 0 .. Second - 1
    PROVE  (Shown(from, time) - from) % Second = time
  <1>1. CASE from + time < Second
    BY <1>1 DEF Shown
  <1>2. CASE from + time >= Second
    <2>1. Shown(from, time) - from = time - Second
      BY <1>2 DEF Shown
    <2>2. (time - Second) % Second = time
      OBVIOUS
    <2> QED
      BY <2>1, <2>2
  <1> QED
    BY <1>1, <1>2

\* A number is its own remainder.
LEMMA SmallRemainder ==
    ASSUME NEW a \in Nat, NEW b \in Nat \ {0}, a < b
    PROVE  a % b = a
  OBVIOUS

PacedType ==
    /\ TaskTypeOK
    /\ runTime \in 0 .. Second - 1 /\ tp \in 0 .. Second - 1
    /\ age \in 0 .. Horizon /\ load \in 0 .. Horizon /\ nap \in Int

\* Less than a second after the tasks began, the clock shows when that was;
\* when they have ended, runTime is that time.
Timed ==
    age < Second => /\ pc = "host" => runTime = age
                    /\ pc # "host" => clock = Shown(tp, age)

PacedInv == PacedType /\ Timed /\ PacedByStep

\* What the tasks do is what module Task says they do.
LEMMA PacedTaskStep == [NextPacing]_pacedvars => [NextTask]_taskvars
  <1> SUFFICES ASSUME [NextPacing]_pacedvars PROVE [NextTask]_taskvars
    OBVIOUS
  <1>1. ASSUME NEW d \in 0 .. MaxIO, BeginTasks(d) PROVE NextTask
    BY <1>1 DEF BeginTasks, NextTask
  <1>2. CASE EnterRung
    BY <1>2 DEF EnterRung, NextTask
  <1>3. CASE InstructIn(0 .. MaxTime)
    BY <1>3 DEF InstructIn, NextTask, ExecuteIn
  <1>4. CASE CutRung
    BY <1>4 DEF CutRung, NextTask
  <1>5. CASE LeaveRung
    BY <1>5 DEF LeaveRung, NextTask
  <1>6. CASE EndTasks
    BY <1>6 DEF EndTasks, NextTask
  <1>7. CASE UNCHANGED pacedvars
    BY <1>7 DEF pacedvars
  <1> QED
    BY <1>1, <1>2, <1>3, <1>4, <1>5, <1>6, <1>7 DEF NextPacing

LEMMA PacedInit == InitPacing => PacedInv
  <1> SUFFICES ASSUME InitPacing PROVE PacedInv
    OBVIOUS
  <1>1. TaskTypeOK
    BY DEF InitPacing, InitTask, TaskTypeOK, Results
  <1> QED
    BY <1>1 DEF InitPacing, PacedInv, PacedType, Timed, PacedByStep

LEMMA PacedTypeStep == PacedType /\ [NextPacing]_pacedvars => PacedType'
  <1> SUFFICES ASSUME PacedType, [NextPacing]_pacedvars PROVE PacedType'
    OBVIOUS
  <1>1. TaskTypeOK'
    BY PacedTaskStep, TypeStep DEF PacedType
  <1> USE DEF PacedType
  <1>2. ASSUME NEW d \in 0 .. MaxIO, BeginTasks(d) PROVE PacedType'
    <2>1. nap' \in Int
      BY <1>2 DEF BeginTasks, Remaining, IoTime
    <2>2. load' \in 0 .. Horizon /\ age' \in 0 .. Horizon
      BY <1>2 DEF BeginTasks, AtMost
    <2>3. clock' \in 0 .. Second - 1
      BY <1>1 DEF TaskTypeOK
    <2>4. tp' = clock' /\ runTime' = runTime
      BY <1>2 DEF BeginTasks
    <2> QED
      BY <1>1, <2>1, <2>2, <2>3, <2>4
  <1>3. CASE InstructIn(0 .. MaxTime)
    BY <1>1, <1>3 DEF InstructIn, AtMost
  <1>4. CASE EndTasks
    <2>1. clock \in Int /\ tp \in Int
      BY DEF TaskTypeOK
    <2>2. runTime' \in 0 .. Second - 1
      BY <1>4, <2>1 DEF EndTasks
    <2> QED
      BY <1>1, <1>4, <2>2 DEF EndTasks
  <1>5. CASE EnterRung \/ CutRung \/ LeaveRung
    BY <1>1, <1>5 DEF EnterRung, CutRung, LeaveRung, pacing
  <1>6. CASE UNCHANGED pacedvars
    BY <1>1, <1>6 DEF pacedvars, pacing
  <1> QED
    BY <1>2, <1>3, <1>4, <1>5, <1>6 DEF NextPacing

\* Scans that follow within a step sleep for what the last tasks, as runTime
\* says, and the time since have left of it.
LEMMA NapFillsStep ==
    ASSUME PacedInv, NEW d \in 0 .. MaxIO, BeginTasks(d), TaskTypeOK'
    PROVE  Timed' /\ PacedByStep'
  <1> USE DEF PacedInv, PacedType
  <1>1. Timed'
    <2>1. clock' \in 0 .. Second - 1 /\ age' = 0 /\ tp' = clock' /\ pc' # "host"
      BY DEF TaskTypeOK, BeginTasks, AllTasks
    <2>2. Shown(clock', 0) = clock'
      BY <2>1, ShownAtOnce
    <2> QED
      BY <2>1, <2>2 DEF Timed
  <1>2. ASSUME load' < Timeout, load' < Second PROVE load' + nap' = Timeout
    <2>1. load' = age + d
      BY <1>2 DEF BeginTasks, AtMost
    <2>2. runTime = age
      BY <1>2, <2>1 DEF BeginTasks, AllTasks, Timed
    <2>3. d % Second = d
      BY <1>2, <2>1, SmallRemainder
    <2>4. IoTime(d) = d
      BY <1>2, <2>1, <2>3, SmallRemainder DEF IoTime
    <2>5. Remaining(d) = Timeout - d - age
      BY <2>2, <2>4 DEF Remaining
    <2>6. Remaining(d) \in Nat /\ Remaining(d) < Word
      BY <1>2, <2>1, <2>5
    <2>7. nap' = Timeout - d - age
      <3>1. nap' = Remaining(d) % Word
        BY DEF BeginTasks
      <3> QED
        BY <2>5, <2>6, <3>1, SmallRemainder
    <2> QED
      BY <2>1, <2>7
  <1> QED
    BY <1>1, <1>2 DEF PacedByStep

\* An instruction moves the clock and age on together.
LEMMA InstructionTimed ==
    ASSUME PacedInv, InstructIn(0 .. MaxTime)
    PROVE  Timed' /\ PacedByStep'
  <1> USE DEF PacedInv, PacedType
  <1>1. PICK d \in 0 .. MaxTime :
            /\ pc = "task" /\ pc' = "task"
            /\ clock' = (clock + d) % Second
            /\ age' = AtMost(age + d)
            /\ UNCHANGED <<runTime, tp, nap, load>>
    BY DEF InstructIn, Execute, InLoop
  <1>2. ASSUME age' < Second PROVE clock' = Shown(tp', age')
    <2>1. age' = age + d
      BY <1>1, <1>2 DEF AtMost
    <2>2. clock = Shown(tp, age)
      BY <1>1, <1>2, <2>1 DEF Timed
    <2>3. clock \in 0 .. Second - 1
      BY DEF TaskTypeOK
    <2>4. clock' = IF clock + d < Second THEN clock + d ELSE clock + d - Second
      BY <1>1, <2>3, ClockAfter
    <2> QED
      BY <1>1, <1>2, <2>1, <2>2, <2>4 DEF Shown
  <1> QED
    BY <1>1, <1>2 DEF Timed, PacedByStep

LEMMA PacedStep == PacedInv /\ [NextPacing]_pacedvars => PacedInv'
  <1> SUFFICES ASSUME PacedInv, [NextPacing]_pacedvars PROVE PacedInv'
    OBVIOUS
  <1>1. PacedType'
    BY PacedTypeStep DEF PacedInv
  <1>2. ASSUME NEW d \in 0 .. MaxIO, BeginTasks(d) PROVE Timed' /\ PacedByStep'
    BY <1>1, <1>2, NapFillsStep DEF PacedType
  <1>3. CASE InstructIn(0 .. MaxTime)
    BY <1>1, <1>3, InstructionTimed DEF PacedInv
  <1>4. CASE EndTasks
    <2>1. pc = "tasks" /\ pc' = "host" /\ clock' = clock
      BY <1>4 DEF EndTasks, AllTasksReturn
    <2>2. runTime' = (clock - tp) % Second /\ age' = age /\ nap' = nap /\ load' = load
      BY <1>4 DEF EndTasks
    <2>3. age < Second => runTime' = age
      BY <2>1, <2>2, DifferenceIsTime DEF PacedInv, PacedType, Timed
    <2> QED
      BY <1>1, <2>1, <2>2, <2>3 DEF PacedInv, Timed, PacedByStep
  <1>5. CASE EnterRung \/ CutRung \/ LeaveRung
    <2>1. pc # "host" /\ pc' # "host" /\ clock' = clock
      BY <1>5 DEF EnterRung, EnterTask, CutRung, TimeOut, InLoop, LeaveRung, TaskReturn
    <2>2. UNCHANGED pacing
      BY <1>5 DEF EnterRung, CutRung, LeaveRung
    <2> QED
      BY <1>1, <2>1, <2>2 DEF PacedInv, Timed, PacedByStep, pacing, Shown
  <1>6. CASE UNCHANGED pacedvars
    BY <1>1, <1>6 DEF pacedvars, taskvars, pacing, PacedInv, Timed, PacedByStep, Shown
  <1> QED
    BY <1>1, <1>2, <1>3, <1>4, <1>5, <1>6 DEF NextPacing, PacedInv

\* Beside registers, which leave the clock alone.
LEMMA TimesPaced == [NextTimes]_times => [NextPacing]_pacedvars
  BY DEF NextTimes, ByScans, ByClock, times

\* Where a scan's work fits in a step, tasks begin one step apart (plc_func,
\* timeval_subtract).
THEOREM ScansArePaced == SpecTimes => []PacedByStep
  <1>1. InitTimes => PacedInv
    BY PacedInit DEF InitTimes
  <1>2. PacedInv /\ [NextTimes]_times => PacedInv'
    BY PacedStep, TimesPaced
  <1>3. PacedInv => PacedByStep
    BY DEF PacedInv
  <1> QED
    BY <1>1, <1>2, <1>3, PTL DEF SpecTimes

\* The tasks of paced scans behave as module Task says (plc_func, all_tasks), so
\* that its safety theorems hold of them.
THEOREM PacedTasks == SpecTimes => InitTask /\ [][NextTask]_taskvars
  <1>1. InitTimes => InitTask
    BY DEF InitTimes, InitPacing
  <1>2. [NextTimes]_times => [NextTask]_taskvars
    BY TimesPaced, PacedTaskStep
  <1> QED
    BY <1>1, <1>2, PTL DEF SpecTimes
=============================================================================
