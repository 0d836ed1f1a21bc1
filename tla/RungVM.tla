------------------------------- MODULE RungVM -------------------------------
(***************************************************************************)
(* The machine that executes one rung (src/src/vm/rung.c, data.c and the   *)
(* handlers of plclib.c), scan after scan: an accumulator, a stack of      *)
(* operations that wait for their right operand, and the position in the   *)
(* rung.  Accumulator and stack are fields of the rung and are never       *)
(* restarted: each scan begins with what the last one left.                *)
(*                                                                         *)
(* Operands are digital inputs and coils digital outputs.  Words, real     *)
(* numbers, and operands and coils that ignore a negation are left out.    *)
(* The programs a rung may hold are those of Programs; module Ladder       *)
(* installs generated ones.                                                *)
(***************************************************************************)
EXTENDS Integers, Sequences

CONSTANTS
    Operand,    \* the bits a program may name
    Present,    \* those within the configured registers; others are errors
    Coil,       \* the coils it may write
    MAXSTACK,   \* 256: instructions of a rung, and one more than its stack
    Programs,   \* rungs that are installed as they are
    Cuts        \* bound of the model: scans cut short before a restart

Operations == {"AND", "OR", "XOR"}
Modifier == SUBSET {"NEG", "PUSH", "COND"}

Instruction ==
    [operation : {"LD"} \cup Operations, modifier : Modifier, operand : Operand]
    \cup [operation : {"ST", "S", "R"}, modifier : Modifier, operand : Coil]
    \cup [operation : {"JMP"}, modifier : Modifier, operand : Nat]
    \cup [operation : {"POP", "NOP"}]

ASSUME OperandAssumption == Present \subseteq Operand
ASSUME MAXSTACKAssumption == MAXSTACK \in Nat \ {0, 1}
ASSUME ProgramsAssumption ==
    \A c \in Programs : c \in Seq(Instruction) /\ Len(c) <= MAXSTACK
ASSUME CutsAssumption == Cuts \in Nat \ {0}

VARIABLES
    code,      \* r->instructions, <<>> until a program is loaded
    phase,     \* "draw" until then; "host" between scans; "scan"
    pc,        \* instructions of the rung before the next one
    acc,       \* r->acc
    stack,     \* r->stack, its head first
    bits,      \* the operands that are 1 in this scan
    out,       \* [Coil -> Effect], what this scan has done to the coils
    cuts       \* history: scans that have been cut short

vars == <<code, phase, pc, acc, stack, bits, out, cuts>>

Effect == {"none", "on", "off", "set", "reset"}
Untouched == [c \in Coil |-> "none"]
Frame == [operation : Operations, value : BOOLEAN]

Init ==
    /\ code = <<>> /\ phase = "draw"
    /\ pc = 0 /\ acc = FALSE /\ stack = <<>>
    /\ bits = {} /\ out = Untouched
    /\ cuts = 0

-----------------------------------------------------------------------------
(* Values.                                                                 *)

\* operate_u of two bits.
Combine(op, a, b) == CASE op = "AND" -> a /\ b
                       [] op = "OR"  -> a \/ b
                       [] op = "XOR" -> a # b

\* negate() complements all 64 bits, and BOOL of what it makes of a bit is 1.
Operate(op, negated, a, b) == Combine(op, a, negated \/ b)

\* BUG FORM of Pushed: one frame too many.
PushedByOne(op, a) ==
    IF Len(stack) <= MAXSTACK - 1 THEN <<[operation |-> op, value |-> a]>> \o stack
                                  ELSE stack

\* BUG FORM of Pushed: the new frame goes below those that wait.
PushedBelow(op, a) ==
    IF Len(stack) < MAXSTACK - 1 THEN Append(stack, [operation |-> op, value |-> a])
                                 ELSE stack

\* push; its failure on a full stack is ignored by handle_stackable.
Pushed(op, a) ==
    IF Len(stack) < MAXSTACK - 1 THEN <<[operation |-> op, value |-> a]>> \o stack
                                 ELSE stack

-----------------------------------------------------------------------------
(* Instructions.                                                           *)

Current == code[pc + 1]

\* task executes an instruction of one of these operations.
Executing(operations) ==
    /\ phase = "scan" /\ pc < Len(code)
    /\ Current.operation \in operations

\* task returns; what is of the scan alone is forgotten.
Leave == phase' = "host" /\ pc' = 0 /\ bits' = {} /\ out' = Untouched

Continue == pc' = pc + 1 /\ UNCHANGED <<code, phase, bits, cuts>>

Readable == Current.operand \in Present
Value == Current.operand \in bits

\* Only a modifier that is NEG and nothing else negates.
Negated == Current.modifier = {"NEG"}
Pushes == Current.modifier = {"PUSH"}

Load ==
    /\ Executing({"LD"}) /\ Readable
    /\ acc' = (Value # Negated)
    /\ Continue /\ UNCHANGED <<stack, out>>

Apply ==
    /\ Executing(Operations) /\ ~Pushes /\ Readable
    /\ acc' = Operate(Current.operation, Negated, acc, Value)
    /\ Continue /\ UNCHANGED <<stack, out>>

PushAndLoad ==
    /\ Executing(Operations) /\ Pushes /\ Readable
    /\ stack' = Pushed(Current.operation, acc)
    /\ acc' = Value
    /\ Continue /\ UNCHANGED out

\* A POP with nothing on the stack leaves the accumulator as it is.
Pop ==
    /\ Executing({"POP"})
    /\ IF stack = <<>>
       THEN UNCHANGED <<acc, stack>>
       ELSE /\ acc' = Operate(Head(stack).operation, FALSE, Head(stack).value, acc)
            /\ stack' = Tail(stack)
    /\ Continue /\ UNCHANGED out

Write(effect) ==
    /\ out' = [out EXCEPT ![Current.operand] = effect]
    /\ Continue /\ UNCHANGED <<acc, stack>>

Store == Executing({"ST"}) /\ Write(IF acc # Negated THEN "on" ELSE "off")

\* With the modifier COND an S or R coil whose state is 0 does nothing.
Latch ==
    /\ Executing({"S", "R"})
    /\ IF Current.modifier = {"COND"} /\ ~acc
       THEN Write(out[Current.operand])
       ELSE Write(IF Current.operation = "S" THEN "set" ELSE "reset")

Jump ==
    /\ Executing({"JMP"})
    /\ pc' = IF Current.modifier = {"COND"} /\ ~acc THEN pc + 1 ELSE Current.operand
    /\ UNCHANGED <<code, phase, acc, stack, bits, out, cuts>>

Nop == Executing({"NOP"}) /\ Continue /\ UNCHANGED <<acc, stack, out>>

\* BUG FORM of Fail: the error of an operand is not handed on.
FailGoesOn ==
    /\ Executing({"LD"} \cup Operations) /\ ~Readable
    /\ Continue /\ UNCHANGED <<acc, stack, out>>

\* An operand that is not there ends the task.  An operation without push is
\* applied to 0 all the same, and what has been pushed for it stays pushed.
Fail ==
    /\ Executing({"LD"} \cup Operations) /\ ~Readable
    /\ \/ Current.operation = "LD" /\ UNCHANGED <<acc, stack>>
       \/ /\ Current.operation # "LD" /\ Pushes
          /\ stack' = Pushed(Current.operation, acc) /\ UNCHANGED acc
       \/ /\ Current.operation # "LD" /\ ~Pushes
          /\ acc' = Operate(Current.operation, Negated, acc, FALSE) /\ UNCHANGED stack
    /\ cuts' = cuts + 1
    /\ Leave /\ UNCHANGED code

-----------------------------------------------------------------------------
(* Scans.                                                                  *)

Install(program) ==
    /\ phase = "draw"
    /\ code' = program
    /\ phase' = "host"
    /\ UNCHANGED <<pc, acc, stack, bits, out, cuts>>

BeginScan ==
    /\ phase = "host" /\ cuts < Cuts
    /\ phase' = "scan"
    /\ bits' \in SUBSET Present
    /\ UNCHANGED <<code, pc, acc, stack, out, cuts>>

\* task has left the end of the rung.
EndScan ==
    /\ phase = "scan" /\ pc >= Len(code)
    /\ Leave /\ UNCHANGED <<code, acc, stack, cuts>>

\* The timeout may strike before any instruction.
TimeOut ==
    /\ phase = "scan" /\ pc < Len(code)
    /\ cuts' = cuts + 1
    /\ Leave /\ UNCHANGED <<code, acc, stack>>

\* The host makes a new PLC and loads the same program.
Restart ==
    /\ phase = "host" /\ cuts = Cuts
    /\ acc' = FALSE /\ stack' = <<>> /\ cuts' = 0
    /\ UNCHANGED <<code, phase, pc, bits, out>>

Instruct == Load \/ Apply \/ PushAndLoad \/ Pop \/ Store \/ Latch \/ Jump \/ Nop \/ Fail

Scan == BeginScan \/ Instruct \/ EndScan \/ TimeOut \/ Restart

Next == (\E program \in Programs : Install(program)) \/ Scan

Spec == Init /\ [][Next]_vars

-----------------------------------------------------------------------------
\* The stack stays within the preallocated frames, whatever the program pushes
\* and leaves; the other variables keep their types.
TypeOK ==
    /\ code \in Seq(Instruction)
    /\ phase \in {"draw", "host", "scan"}
    /\ pc \in Nat
    /\ acc \in BOOLEAN
    /\ stack \in Seq(Frame) /\ Len(stack) < MAXSTACK
    /\ bits \in SUBSET Present
    /\ out \in [Coil -> Effect]
    /\ cuts \in 0 .. Cuts

\* Jumps may pass over what is not there; without them the instructions before
\* pc are those that this scan has executed.
Straight == \A k \in DOMAIN code : code[k].operation # "JMP"

\* No scan goes on past an operand that is not there: coils after it are left
\* alone, so that no coil is driven by the value of another contact (task,
\* handle_ld, handle_stackable).
NothingPastFailure ==
    (Straight /\ phase = "scan") =>
        \A i \in 1 .. pc :
            code[i].operation \in {"LD"} \cup Operations => code[i].operand \in Present
=============================================================================
