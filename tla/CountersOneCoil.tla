-------------------------- MODULE CountersOneCoil --------------------------
(***************************************************************************)
(* The memory registers under two kinds of programs: any program, and one  *)
(* that keeps the rule of the README: "each output operand should appear   *)
(* only once".  The rule is about the program, so it restricts the coils   *)
(* of module Counters and nothing else: in one scan of a program that      *)
(* keeps it, a register's one ST coil is executed at most once.            *)
(***************************************************************************)
EXTENDS Counters

VARIABLES
    ruled,  \* the program keeps the rule
    hit     \* then, registers whose coil was executed in the scan under way

allvars == <<vars, ruled, hit>>

InitOnce == Init /\ ruled \in BOOLEAN /\ hit = {}

FreeCoil == ~ruled /\ (\E c \in Counter : Coil(c)) /\ UNCHANGED hit

CoilOnce ==
    /\ ruled
    /\ \E c \in Counter \ hit :
          /\ \E val \in BOOLEAN : Contact(c, val)
          /\ hit' = hit \cup {c}

NextOnce ==
    /\ \/ BeginScan /\ hit' = {}
       \/ FreeCoil \/ CoilOnce
       \/ (Store \/ EndScan \/ ResetUpdate \/ Configuration) /\ UNCHANGED hit
    /\ UNCHANGED ruled

SpecOnce == InitOnce /\ [][NextOnce]_allvars

-----------------------------------------------------------------------------
(* Properties.                                                             *)

\* Under a program that keeps the rule, a register is a pulse counter; of any
\* other program nothing is claimed here (the abstract counter stands still).
Abstract == INSTANCE PulseCounter WITH
    count    <- [c \in Counter |-> IF ruled THEN m[c].V ELSE 0],
    level    <- [c \in Counter |-> ruled /\ oldPulse[c]],
    readOnly <- [c \in Counter |-> m[c].RO],
    down     <- [c \in Counter |-> m[c].DOWN]

ImplementsPulseCounter == Abstract!Spec
=============================================================================
