-------------------------------- MODULE Task --------------------------------
(***************************************************************************)
(* The tasks of one scan (src/src/vm/plclib.c): all_tasks calls task once  *)
(* for each rung, and task executes the instructions of the rung until it  *)
(* leaves its end, an instruction fails, or the time it measures with      *)
(* gettimeofday reaches the timeout.                                       *)
(*                                                                         *)
(* A rung may jump to any of its instructions, so any sequence of          *)
(* positions is a possible execution.  Of the clock the code uses only     *)
(* tv_usec, which starts again from 0 every second.                        *)
(***************************************************************************)
EXTENDS Integers

CONSTANTS
    Rungs,     \* p->rungno
    InsNo,     \* r->insno, the instructions of a rung
    Timeout,   \* the argument of all_tasks, in units of tv_usec
    Second,    \* units of tv_usec in a second (1000000)
    MaxTime,   \* bound of the model: the longest an instruction takes
    Horizon    \* bound of the model: where the history variable elapsed stops

ASSUME RungsAssumption == Rungs \in Nat /\ InsNo \in Nat
ASSUME TimeAssumption ==
    /\ Timeout \in Nat \ {0} /\ Second \in Nat \ {0} /\ MaxTime \in Nat
    /\ MaxTime < Second
    /\ Horizon \in Nat /\ Horizon >= Second /\ Horizon >= Timeout + MaxTime

VARIABLES
    pc,       \* "host"; "tasks", in all_tasks between rungs; "task", in task
    rung,     \* i of all_tasks
    ip,       \* i of task: the next instruction
    rv,       \* rv of task, and of all_tasks when it has returned
    clock,    \* the tv_usec that gettimeofday would return now
    start,    \* start.tv_usec
    delta,    \* delta of task
    elapsed   \* history: the time since task was entered

taskvars == <<pc, rung, ip, rv, clock, start, delta, elapsed>>

Results == {"ok", "timeout", "error"}

InitTask ==
    /\ pc = "host"
    /\ rung = 0 /\ ip = 0 /\ rv = "ok"
    /\ clock \in 0 .. Second - 1
    /\ start = 0 /\ delta = 0 /\ elapsed = 0

-----------------------------------------------------------------------------
(* all_tasks.                                                              *)

\* plc_func calls all_tasks at any moment of a second.
AllTasks ==
    /\ pc = "host"
    /\ pc' = "tasks"
    /\ rung' = 0
    /\ rv' = "ok"
    /\ clock' \in 0 .. Second - 1
    /\ UNCHANGED <<ip, start, delta, elapsed>>

MoreRungs == rung < Rungs

EnterTask ==
    /\ pc = "tasks"
    /\ MoreRungs
    /\ pc' = "task"
    /\ ip' = 0 /\ rv' = "ok" /\ delta' = 0 /\ elapsed' = 0
    /\ start' = clock
    /\ UNCHANGED <<rung, clock>>

AllTasksReturn ==
    /\ pc = "tasks"
    /\ ~MoreRungs
    /\ pc' = "host"
    /\ UNCHANGED <<rung, ip, rv, clock, start, delta, elapsed>>

-----------------------------------------------------------------------------
(* task.                                                                   *)

\* BUG FORM of TimedOut: the timeout has to be met exactly.
TimedOutExactly == delta = Timeout

TimedOut == delta >= Timeout

InLoop == pc = "task" /\ rv = "ok" /\ ip < InsNo

TimeOut ==
    /\ InLoop
    /\ TimedOut
    /\ rv' = "timeout"
    /\ UNCHANGED <<pc, rung, ip, clock, start, delta, elapsed>>

\* BUG FORM of Lapse: the start of the task is not subtracted.
LapseOfSecond(now) == now

\* delta = lapse.tv_usec - start.tv_usec; the seconds are not looked at.
Lapse(now) == now - start

\* One pass through the loop: instruct takes the time d and leaves the program
\* counter at next; a position at or past the end of the rung is InsNo.
Execute(d, next, result) ==
    /\ InLoop
    /\ ~TimedOut
    /\ rv' = result
    /\ ip' = next
    /\ clock' = (clock + d) % Second
    /\ delta' = Lapse((clock + d) % Second)
    /\ elapsed' = IF elapsed + d < Horizon THEN elapsed + d ELSE Horizon
    /\ UNCHANGED <<pc, rung, start>>

TaskReturn ==
    /\ pc = "task"
    /\ ~InLoop
    /\ pc' = "tasks"
    /\ rung' = rung + 1
    /\ UNCHANGED <<ip, rv, clock, start, delta, elapsed>>

ExecuteIn(Times) ==
    \E d \in Times, next \in 0 .. InsNo, result \in {"ok", "error"} :
        Execute(d, next, result)

NextTask ==
    \/ AllTasks
    \/ EnterTask
    \/ AllTasksReturn
    \/ TimeOut
    \/ ExecuteIn(0 .. MaxTime)
    \/ TaskReturn

\* The process runs, and while it executes instructions the clock advances.
FairnessTask ==
    /\ WF_taskvars(TimeOut) /\ WF_taskvars(TaskReturn)
    /\ WF_taskvars(EnterTask) /\ WF_taskvars(AllTasksReturn)
    /\ WF_taskvars(ExecuteIn(1 .. MaxTime))

SpecTask == InitTask /\ [][NextTask]_taskvars /\ FairnessTask

-----------------------------------------------------------------------------
(* Properties.                                                             *)

\* The rung index stays within p->rungs[0 .. rungno], the instruction within
\* the rung, the measured time within the range a difference of tv_usec has.
TaskTypeOK ==
    /\ pc \in {"host", "tasks", "task"}
    /\ rung \in 0 .. Rungs /\ (pc = "task" => rung < Rungs)
    /\ ip \in 0 .. InsNo
    /\ rv \in Results
    /\ clock \in 0 .. Second - 1 /\ start \in 0 .. Second - 1
    /\ delta \in 1 - Second .. Second - 1
    /\ elapsed \in 0 .. Horizon

\* A rung that ends with a timeout has really run for the timeout, although
\* the seconds of the clock are ignored and tv_usec starts again from 0 in the
\* middle of the measurement.
NoSpuriousTimeout == rv = "timeout" => elapsed >= Timeout

\* The task began early enough for tv_usec to reach the timeout before the
\* second ends.
EarlyStart == start + Timeout + MaxTime <= Second

\* A rung that begins so runs at most the timeout and one instruction.
TimeBounded ==
    pc = "task" /\ EarlyStart => elapsed < Timeout + MaxTime

\* A rung that begins so is left, even if it jumps back for ever.
EarlyLoopCut == (pc = "task" /\ EarlyStart) ~> (pc # "task")

\* plc_iface.h: "Heavy parts can timeout".  Every rung that is entered is left.
LoopCut == (pc = "task") ~> (pc # "task")
=============================================================================
