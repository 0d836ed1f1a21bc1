------------------------------- MODULE Pacing -------------------------------
(***************************************************************************)
(* How plc_func (src/src/vm/plclib.c) paces its scans: it measures the     *)
(* time since the tasks of the last scan ended, subtracts that and the     *)
(* time that the tasks took from the step, and sleeps for the rest.  The   *)
(* tasks themselves are module Task, whose clock goes on through all of it.*)
(*                                                                         *)
(* Curtime and run_time are static: nothing sets them before the first     *)
(* scan, and they outlive a stop, an error and a new program.  So any time *)
(* may pass between two scans.  usleep takes its argument for unsigned and *)
(* sleeps as long as it says.                                              *)
(***************************************************************************)
EXTENDS Task

CONSTANTS
    MaxIO,    \* bound of the model: the longest time between two scans
    Word      \* the modulus of useconds_t (2^32)

ASSUME WordAssumption == MaxIO \in Nat /\ Word \in Nat /\ Word > Timeout

VARIABLES
    runTime,   \* run_time, static in plc_func
    tp,        \* tp.tv_usec: when the tasks of this scan began
    nap,       \* the argument of usleep, as usleep takes it
    load,      \* history: the time from the begin of the last tasks to that usleep
    age        \* history: the time since the tasks began; as load, at most Horizon

pacing == <<runTime, tp, nap, load, age>>

AtMost(t) == IF t < Horizon THEN t ELSE Horizon

InitPacing ==
    /\ InitTask
    /\ runTime = 0 /\ tp = 0 /\ nap = 0
    /\ load = Horizon /\ age = Horizon

\* dt.tv_usec after timeval_subtract: the seconds are carried, and not used.
IoTime(d) == (d % Second) % Timeout

\* BUG FORM of Remaining: the tasks are taken for free.
RemainingOfIo(d) == Timeout - IoTime(d)

Remaining(d) == Timeout - IoTime(d) - runTime

\* From the end of the last tasks, d before tn is read, to the begin of these.
BeginTasks(d) ==
    /\ AllTasks
    /\ nap' = Remaining(d) % Word
    /\ clock' = (clock + d + nap') % Second
    /\ tp' = clock'
    /\ load' = AtMost(age + d)
    /\ age' = 0
    /\ UNCHANGED runTime

EndTasks ==
    /\ AllTasksReturn
    /\ runTime' = (clock - tp) % Second
    /\ UNCHANGED <<tp, nap, load, age>>

InstructIn(Times) ==
    \E d \in Times, next \in 0 .. InsNo, result \in {"ok", "error"} :
        /\ Execute(d, next, result)
        /\ age' = AtMost(age + d)
        /\ UNCHANGED <<runTime, tp, nap, load>>

EnterRung == EnterTask /\ UNCHANGED pacing
CutRung == TimeOut /\ UNCHANGED pacing
LeaveRung == TaskReturn /\ UNCHANGED pacing

NextPacing ==
    \/ \E d \in 0 .. MaxIO : BeginTasks(d)
    \/ EnterRung \/ InstructIn(0 .. MaxTime) \/ CutRung \/ LeaveRung
    \/ EndTasks

pacedvars == <<taskvars, pacing>>

\* As in module Task; when a scan begins is the host's business.
FairnessPacing ==
    /\ WF_pacedvars(CutRung) /\ WF_pacedvars(LeaveRung)
    /\ WF_pacedvars(EnterRung) /\ WF_pacedvars(EndTasks)
    /\ WF_pacedvars(InstructIn(1 .. MaxTime))

SpecPacing == InitPacing /\ [][NextPacing]_pacedvars /\ FairnessPacing

-----------------------------------------------------------------------------
(* Properties.                                                             *)

\* Where everything since the tasks of the last scan began, those tasks, the
\* outputs, the host and the inputs, fits in a step, the next tasks begin
\* exactly one step after them: plc_func adds up two measurements of a clock
\* that forgets its seconds, the first of them made a scan ago.
PacedByStep == load < Timeout /\ load < Second => load + nap = Timeout

\* plc_func: "supposed to be called every T msec".  No scan sleeps for longer
\* than a step.
NeverOversleeps == nap <= Timeout
=============================================================================
