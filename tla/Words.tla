------------------------------- MODULE Words -------------------------------
(***************************************************************************)
(* Bytes, words and real numbers in the machine that executes a rung: the  *)
(* loads and stores of src/src/vm/plclib.c, operate of data.c, and the     *)
(* stack of rung.c, within one scan.  Module RungVM has the control; here  *)
(* a list is any sequence of instructions on operands of every type.       *)
(*                                                                         *)
(* The IL parser makes bits, bytes and real numbers, the ladder parser     *)
(* negations too; rungs made through the library (src/tst/ut-lib.h) have   *)
(* words of 2, 4 and 8 bytes.  The bits of inputs, timers and blinkers are *)
(* in modules of their own and may have any value here.  The real numbers  *)
(* are the integers of a range; what leaves it is not followed.            *)
(***************************************************************************)
EXTENDS Binary, Sequences

CONSTANTS
    BYTESIZE,
    Sizes,      \* the bytes of operands: a subset of {1, 2, 4, 8}
    NI,         \* p->ni and p->nq, bytes of inputs and of outputs
    Plant,      \* what the input bytes may hold: a set of [0 .. NI-1 -> Byte]
    Reals,      \* the numbers followed
    Lists,      \* what lists may name: [letters : operands, operations : a set]
    MAXSTACK

VARIABLES
    list,       \* the member of Lists that is executed
    inputs,     \* p->inputs
    outputs,    \* p->outputs
    coil,       \* p->dq[n].Q, the bits of the outputs
    m,          \* p->m[0], V and PULSE
    mr,         \* p->mr[0].V
    acc,        \* r->acc
    stack,      \* r->stack, its head first
    made,       \* history: the type of what acc holds, and whether it was loaded negated
    last        \* history: what has been stored last, and where

vars == <<list, inputs, outputs, coil, m, mr, acc, stack, made, last>>

-----------------------------------------------------------------------------
(* Types.                                                                  *)

BOOL == 0       \* T_BOOL; the other integer types are their sizes
REAL == -1      \* T_REAL

\* How many values a type has.
Width(type) == IF type = BOOL THEN 2 ELSE Power[type * BYTESIZE]

RealOperands == {"if", "qf", "mf"}      \* OP_REAL, of what can be read

\* Bit 0 stands for every bit of a byte, and register 0 for every other
\* register of its kind; more of one kind may exceed what there is.
Operands ==
    LET of(letters, types, bytes) == [letter : letters, type : types, byte : bytes]
    IN of({"i", "q"}, {BOOL} \cup Sizes, 0 .. NI - 1) \cup of({"m", "t"}, {BOOL} \cup Sizes, {0})
       \cup of({"r", "b", "c"}, {BOOL, 1}, {0}) \cup of(RealOperands, {REAL}, {0, 1})

\* The bytes an operand reaches past its first one.
Offset(o) == IF o.type = BOOL THEN 0 ELSE o.type - 1

\* There is one register of every kind but of inputs and outputs; edges are bits.
IsPresent(o) == CASE o.letter = "i" -> o.byte + Offset(o) < NI
                  [] o.letter = "q" -> o.byte + Offset(o) < NI
                  [] o.letter = "r" -> o.byte < NI /\ o.type = BOOL
                  [] o.letter = "c" -> TRUE
                  [] OTHER -> o.byte = 0

\* The union accdata: what it holds is known to whoever wrote it alone.
Word(v) == [real |-> FALSE, v |-> v]
Real(v) == [real |-> TRUE, v |-> v]

Truth(v) == IF v = 0 THEN 0 ELSE 1

\* An accumulator as a word of a type.  The bits of a real number that is not
\* 0 are anything but 0.
AsWord(a, type) ==
    IF ~a.real THEN {IF type = BOOL THEN Truth(a.v) ELSE a.v % Width(type)}
    ELSE IF a.v = 0 THEN {0}
    ELSE IF type = BOOL THEN {1} ELSE 0 .. Width(type) - 1

AsReal(a) == IF a.real THEN {a.v} ELSE IF a.v = 0 THEN {0} ELSE Reals

-----------------------------------------------------------------------------
(* data.c.                                                                 *)

Holds(op, a, b) ==
    CASE op = "GT" -> a > b  [] op = "GE" -> a >= b
      [] op = "EQ" -> a = b  [] op = "NE" -> a # b
      [] op = "LT" -> a < b  [] op = "LE" -> a <= b

Compare(op, a, b) == IF Holds(op, a, b) THEN 1 ELSE 0

Comparisons == {"GT", "GE", "EQ", "NE", "LT", "LE"}
Arithmetic == {"ADD", "SUB", "MUL", "DIV"}
BitOperations == {"AND", "OR", "XOR"}
Operations == BitOperations \cup Arithmetic \cup Comparisons

\* What a bitwise operation makes of two bits.
OfBits(op, x, y) ==
    CASE op = "AND" -> x * y
      [] op = "OR"  -> IF x = 0 THEN y ELSE 1
      [] op = "XOR" -> IF x = y THEN 0 ELSE 1

\* The 64 bits of a & b, a | b or a ^ b.
Bitwise(op, a, b) ==
    LET low[k \in 0 .. 8 * BYTESIZE] ==
            IF k = 0 THEN 0
            ELSE low[k - 1] + Power[k - 1] * OfBits(op, BitIn(a, k - 1), BitIn(b, k - 1))
    IN low[8 * BYTESIZE]

OperateU(op, a, b) ==
    CASE op \in BitOperations -> Bitwise(op, a, b)
      [] op = "ADD" -> a + b
      [] op = "SUB" -> a - b
      [] op = "MUL" -> a * b
      [] op = "DIV" -> IF b # 0 THEN a \div b ELSE -1
      [] op \in Comparisons -> Compare(op, a, b)

\* Real numbers have no bitwise operations; inexact quotients are not followed.
OperateD(op, a, b) ==
    CASE op \in BitOperations -> {0}
      [] op = "ADD" -> {a + b}
      [] op = "SUB" -> {a - b}
      [] op = "MUL" -> {a * b}
      [] op = "DIV" -> IF b # 0 THEN {q \in Reals : q * b = a} ELSE {-1}
      [] op \in Comparisons -> {Compare(op, a, b)}

\* BUG FORM of Truncated: only bits are cut to their type.
TruncatedBits(type, v) == IF type = BOOL THEN Truth(v) ELSE v % Width(8)

\* BOOL, or the modulus of the type.
Truncated(type, v) == IF type = BOOL THEN Truth(v) ELSE v % Width(type)

\* negate: the complement of all bits, of which the type keeps its own.
Complement(type, v) == IF type = BOOL THEN 1 ELSE Width(type) - 1 - v

\* The results an operation may have.
Operate(op, type, negated, a, b) ==
    IF type = REAL
    THEN {Real(v) : v \in Reals \cap UNION {OperateD(op, x, y) : x \in AsReal(a), y \in AsReal(b)}}
    ELSE {Word(Truncated(type, OperateU(op, x, IF negated THEN Complement(type, y) ELSE y))) :
              x \in AsWord(a, type), y \in AsWord(b, type)}

-----------------------------------------------------------------------------
(* Loads.                                                                  *)

\* ld_bytes: from the last byte to the first, which is the most significant one.
Bytes(buffer, first, size) ==
    LET rv[n \in 0 .. size] ==
            IF n = 0 THEN 0
            ELSE rv[n - 1] + buffer[first + (size - n)] * Power[BYTESIZE * (n - 1)]
    IN rv[size]

\* What resolve finds for a bit: no latch and no forcing is in play here.
BitContents(o) ==
    CASE o.letter = "q" -> {coil[o.byte]}
      [] o.letter = "m" -> {m.PULSE}
      [] o.letter \in {"i", "t", "b"} -> {0, 1}

Whole(o) == o.type \notin {BOOL, REAL}

InputContents(o) == IF Whole(o) THEN {Bytes(inputs, o.byte, o.type)} ELSE BitContents(o)
OutputContents(o) == IF Whole(o) THEN {Bytes(outputs, o.byte, o.type)} ELSE BitContents(o)
MemoryContents(o) == IF Whole(o) THEN {m.V % Width(o.type)} ELSE BitContents(o)
TimerContents(o) == IF Whole(o) THEN 0 .. Width(o.type) - 1 ELSE BitContents(o)

\* re of an input: the edges are in module Inputs.
EdgeContents == {0, 1}

RealContents(o) == IF o.letter = "mf" THEN {mr} ELSE Reals

\* What a register holds for an operand.
Contents(o) ==
    CASE o.letter = "i" -> InputContents(o)
      [] o.letter = "q" -> OutputContents(o)
      [] o.letter = "m" -> MemoryContents(o)
      [] o.letter = "t" -> TimerContents(o)
      [] o.letter = "b" -> BitContents(o)
      [] o.letter = "r" -> EdgeContents
      [] o.letter = "c" -> 0 .. Width(1) - 1
      [] o.type = REAL -> RealContents(o)

\* IL_NEG: of bytes and words it is the difference to the width of the type,
\* which is the width itself for 0; edges, blinkers, the command and the real
\* inputs and outputs ignore it.
Negative(o, v) ==
    CASE o.letter = "mf" -> -v
      [] o.letter \in {"i", "q", "m", "t"} ->
            IF o.type = BOOL THEN 1 - v ELSE (Width(o.type) - v) % Width(8)
      [] OTHER -> v

\* What handle_ld may leave in its destination.
Loaded(o, negated) ==
    {IF o.type = REAL THEN Real(v) ELSE Word(v) :
        v \in {IF negated THEN Negative(o, c) ELSE c : c \in Contents(o)}}

-----------------------------------------------------------------------------
(* Instructions.                                                           *)

Nothing == [letter |-> "none"]

Init ==
    /\ list \in Lists
    /\ inputs \in Plant
    /\ outputs = [i \in 0 .. NI - 1 |-> 0] /\ coil = [i \in 0 .. NI - 1 |-> 0]
    /\ m = [V |-> 0, PULSE |-> 0] /\ mr = 0
    /\ acc = Word(0) /\ stack = <<>>
    /\ made = [type |-> BOOL, negated |-> FALSE] /\ last = [at |-> Nothing, v |-> 0]

Used == {o \in Operands : o.letter \in list.letters}

registers == <<list, inputs, outputs, coil, m, mr, last>>

\* The type of what an operand gives: a bit of the command is the whole of it.
Made(o, negated) == made' = [type |-> IF o.letter = "c" THEN 1 ELSE o.type, negated |-> negated]

Load(o, negated) ==
    /\ IsPresent(o)
    /\ acc' \in Loaded(o, negated)
    /\ Made(o, negated)
    /\ UNCHANGED <<stack, registers>>

\* The operand of an operation is loaded by a copy of the instruction, as IL_LD
\* without a modifier; a value that cannot be loaded is 0.
OperandValue(o) == IF IsPresent(o) THEN Loaded(o, FALSE) ELSE {Word(0)}

Apply(op, o, negated) ==
    /\ negated => op \in BitOperations
    /\ \E v \in OperandValue(o) :
          acc' \in Operate(op, o.type, negated, acc, v)
    /\ made' = [type |-> o.type, negated |-> FALSE]
    /\ UNCHANGED <<stack, registers>>

PushAndLoad(op, o) ==
    /\ stack' = IF Len(stack) < MAXSTACK - 1
                THEN <<[operation |-> op, type |-> o.type, value |-> acc]>> \o stack ELSE stack
    /\ IF IsPresent(o) THEN acc' \in Loaded(o, FALSE) /\ Made(o, FALSE)
                     ELSE UNCHANGED <<acc, made>>
    /\ UNCHANGED registers

\* pop computes in the type of the operand that follows the bracket.
Pop ==
    /\ stack # <<>>
    /\ acc' \in Operate(stack[1].operation, stack[1].type, FALSE, stack[1].value, acc)
    /\ made' = [type |-> stack[1].type, negated |-> FALSE]
    /\ stack' = Tail(stack)
    /\ UNCHANGED registers

\* BUG FORM of StoreBytes: the last byte is made the most significant one.
StoreBytesLittle(o, v) ==
    outputs' = [i \in DOMAIN outputs |->
        IF i \in o.byte .. o.byte + Offset(o)
        THEN (v \div Power[BYTESIZE * (i - o.byte)]) % Width(1) ELSE outputs[i]]

\* st_out of bytes and words.
StoreBytes(o, v) ==
    outputs' = [i \in DOMAIN outputs |->
        IF i \in o.byte .. o.byte + Offset(o)
        THEN (v \div Power[BYTESIZE * (Offset(o) - (i - o.byte))]) % Width(1) ELSE outputs[i]]

StoreOutput(o, v) ==
    /\ o.letter = "q"
    /\ IF o.type = BOOL
       THEN coil' = [coil EXCEPT ![o.byte] = v] /\ UNCHANGED outputs
       ELSE StoreBytes(o, v) /\ UNCHANGED coil
    /\ UNCHANGED <<m, mr>>

\* st_mem: a pulse, or a value that replaces all the bytes of V.
StoreMemory(o, v) ==
    /\ o.letter = "m"
    /\ m' = IF o.type = BOOL THEN [m EXCEPT !.PULSE = v] ELSE [m EXCEPT !.V = v]
    /\ UNCHANGED <<outputs, coil, mr>>

StoreReal(o, v) == o.letter = "mf" /\ mr' = v /\ UNCHANGED <<outputs, coil, m>>

\* What a store makes of acc.  Outputs alone look at IL_NEG: TRUE - BOOL(val) is
\* expanded to TRUE - val > 0, which only 1 does not pass.
Stored(o, negated) ==
    CASE o.type = REAL -> AsReal(acc)
      [] o.type # REAL /\ ~(negated /\ o.letter = "q") -> AsWord(acc, o.type)
      [] o.type = BOOL /\ negated /\ o.letter = "q" -> {IF acc = Word(1) THEN 0 ELSE 1}
      [] o.type > BOOL /\ negated /\ o.letter = "q" ->
            {(Width(o.type) - v) % Width(o.type) : v \in AsWord(acc, o.type)}

Store(o, negated) ==
    /\ IsPresent(o)
    /\ \E v \in Stored(o, negated) :
          /\ StoreOutput(o, v) \/ StoreMemory(o, v) \/ StoreReal(o, v)
          /\ last' = [at |-> o, v |-> v]
    /\ UNCHANGED <<list, inputs, acc, stack, made>>

Next ==
    \/ \E o \in Used :
          \/ \E negated \in BOOLEAN : Load(o, negated)
          \/ \E op \in list.operations, negated \in BOOLEAN : Apply(op, o, negated)
          \/ \E op \in list.operations : PushAndLoad(op, o)
          \/ \E negated \in BOOLEAN : Store(o, negated)
    \/ Pop

-----------------------------------------------------------------------------
(* Properties.                                                             *)

\* What was stored last is loaded again from the same operand, and the first
\* byte of a stored word holds its highest digits (st_out with ld_out and
\* ld_bytes, st_mem with ld_mem; plclib.c: "values are loaded in BIG ENDIAN").
StoredIsLoaded ==
    last.at # Nothing =>
        /\ Contents(last.at) = {last.v}
        /\ last.at.letter = "q" /\ last.at.type > 1 =>
              Bytes(outputs, last.at.byte, 1) = last.v \div Width(last.at.type - 1)

\* No operation gives a value wider than the operand that it was written with,
\* so that a wider one after it finds nothing but that value: with the one
\* exception of a 0 that is loaded negated, which is the width itself.
ValueFits ==
    ~acc.real => \/ acc.v \in 0 .. Width(made.type) - 1
                 \/ made.negated /\ acc.v = Width(made.type)
=============================================================================
