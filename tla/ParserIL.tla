------------------------------ MODULE ParserIL ------------------------------
(***************************************************************************)
(* The parser of instruction lists (src/src/vm/parser-il.c) and the labels *)
(* of a rung (rung.c).  parse_il_program makes a rung, parses line after   *)
(* line up to the first one in error, and then resolves the jumps.         *)
(*                                                                         *)
(* A line is a sequence of pieces: names, colons, semicolons, blanks, and  *)
(* the text of a statement.  A statement is a record: the word op before   *)
(* the first modifier character; the modifier characters mods in their     *)
(* order, blanks within the text among them; and what follows, arg.  That  *)
(* is "none", a "label" with its name, or an "operand" after '%' with its  *)
(* letter, the type letter or "none", the number byte, and the digit bit   *)
(* after a slash.  BAD stands for digits that are missing or not allowed.  *)
(* The operation of a line without a statement is "none".                  *)
(***************************************************************************)
EXTENDS Integers, Sequences, FiniteSetsExt

CONSTANTS
    ILLines,    \* the lines a program may have
    MAXBUF,     \* the most lines that are parsed
    MAXSTACK,   \* the most instructions of a rung
    BYTESIZE    \* the bit of an operand that is written without one

BAD == -1

VARIABLES
    text,      \* the lines parsed so far
    rung,      \* r->instructions
    ilStep,    \* "parse", "intern" or "done"
    outcome,   \* "none", then the p->status it leaves: "STOPPED" is PLC_OK
    faults     \* history: lines that were in error or not stored

varsIL == <<text, rung, ilStep, outcome, faults>>

InitIL ==
    /\ text = <<>> /\ rung = <<>>
    /\ ilStep = "parse" /\ outcome = "none"
    /\ faults = 0

-----------------------------------------------------------------------------
(* One line.                                                               *)

\* read_line_trunk_comments
Uncommented(line) == LET ends == {n \in DOMAIN line : line[n].mark = "semicolon"}
                     IN {n \in DOMAIN line : \A k \in ends : n < k}

\* trunk_whitespace
Trimmed(s) == LET solid == {n \in DOMAIN s : s[n].mark # "blank"}
              IN IF solid = {} THEN <<>> ELSE SubSeq(s, Min(solid), Max(solid))

\* trunk_label: all that is in front of the last colon is the label, and what
\* follows it the statement.
LastColon(line) == Max({0} \cup {n \in Uncommented(line) : line[n].mark = "colon"})
LabelOf(line) == Trimmed(SubSeq(line, 1, LastColon(line) - 1))
NoStatement == [op |-> "none", mods |-> <<>>, arg |-> [kind |-> "none"]]
StatementOf(line) ==
    LET rest == Trimmed(SubSeq(line, LastColon(line) + 1, Cardinality(Uncommented(line))))
    IN IF rest = <<>> THEN NoStatement ELSE rest[1]

Parsed(line) ==
    LET statement == StatementOf(line)
    IN [label |-> LabelOf(line), op |-> statement.op, mods |-> statement.mods, arg |-> statement.arg]

Writes == {"S", "R", "ST"}
Silent == {"none", ")", "RET", "JMP", "CAL"}          \* up to IL_CAL: no operand
Stackable == {"AND", "OR", "XOR", "ADD", "SUB", "MUL", "DIV",
              "GT", "GE", "EQ", "NE", "LT", "LE"}
Commands == Silent \cup Writes \cup {"LD"} \cup Stackable
Letters == {"i", "f", "r", "m", "t", "c", "b", "q"}
Real == [i |-> "if", m |-> "mf", q |-> "qf"]
RealLetters == DOMAIN Real
CoilOf == [q |-> "Q", m |-> "M", t |-> "T", qf |-> "QF", mf |-> "MF"]

Byte(x) == IF x.arg.byte = BAD THEN 255 ELSE x.arg.byte % 256
Bit(x) == IF Byte(x) = 255 THEN 0 ELSE IF x.arg.bit \in 0 .. 7 THEN x.arg.bit ELSE BYTESIZE

\* The character that read_modifier finds: the first of these on the line.
Precedence == <<"(", "!", "?", "blank">>
Meanings == <<"PUSH", "NEG", "COND", "NORM">>
On(x, k) == \E n \in DOMAIN x.mods : x.mods[n] = Precedence[k]
Found(x) == CHOOSE k \in 1 .. 4 : On(x, k) /\ \A j \in 1 .. k - 1 : ~On(x, j)

\* read_modifier: IL_NORM if there is none.
Modifier(x) == IF x.mods = <<>> THEN "NORM" ELSE Meanings[Found(x)]

\* read_operator: the text before that character, or the whole of it.
Operator(x) ==
    IF /\ x.op \in Commands
       /\ IF x.mods = <<>> THEN x.arg.kind = "none" ELSE Precedence[Found(x)] = x.mods[1]
    THEN x.op ELSE "N_IL_INSN"

\* find_arguments stores what it has got when it fails.  The number is kept in
\* a byte, and 255 is taken for an error.
ArgumentError(x) ==
    \/ x.arg.kind # "operand" \/ x.arg.letter \notin Letters
    \/ x.arg.type = "f" /\ x.arg.letter \notin RealLetters
    \/ x.arg.byte = BAD \/ x.arg.byte % 256 = 255 \/ x.arg.bit = BAD

Nothing == [operand |-> "NOP", byte |-> 0, bit |-> 0]
Arguments(x) ==
    IF x.arg.kind # "operand" THEN Nothing
    ELSE IF x.arg.letter \notin Letters THEN [Nothing EXCEPT !.operand = "BADCHAR"]
    ELSE IF x.arg.type # "f"
    THEN [operand |-> x.arg.letter, byte |-> Byte(x), bit |-> Bit(x)]
    ELSE IF x.arg.letter \in RealLetters
    THEN [operand |-> Real[x.arg.letter], byte |-> Byte(x), bit |-> Bit(x)]
    ELSE [Nothing EXCEPT !.operand = x.arg.letter]

\* check_modifier.  Its first condition holds of no operation.
GoodModifier(i) ==
    /\ i.operation \in Stackable => i.modifier \in {"PUSH", "NORM"}
    /\ i.operation \in Writes \cup {"LD"} => i.modifier = "NORM"

\* BUG FORM of Written: the operand stays the one that is read.
WrittenAsRead(i) == i

\* check_operand: what is written gets the name of its coil, and a name that
\* is none (BADCHAR is 245) passes for one; what is read has to be readable.
Written(i) == IF i.operation \in Writes /\ i.operand \in DOMAIN CoilOf
              THEN [i EXCEPT !.operand = CoilOf[@]] ELSE i
GoodOperand(i) ==
    /\ i.operation \in Writes => i.operand \in DOMAIN CoilOf \cup {"BADCHAR"}
    /\ i.operation \in Stackable \cup {"LD"} => i.operand \notin {"NOP", "BADCHAR"}

\* The label a jump names: the rest of the line behind its modifier character,
\* which no label is that has more of these characters in front of it.
Target(x) == IF Len(x.mods) > 1 THEN <<[mark |-> "blank"]>>
             ELSE IF x.arg.kind = "label" THEN x.arg.name ELSE <<>>

\* The instruction of parse_il_line before it is checked.
InstructionOf(x) ==
    LET a == IF x.op \in Silent THEN Nothing ELSE Arguments(x)
    IN [label |-> x.label, operation |-> x.op, modifier |-> Modifier(x),
        operand |-> a.operand, byte |-> a.byte, bit |-> a.bit,
        lookup |-> IF x.op = "JMP" THEN Target(x) ELSE <<>>, target |-> 0]

Refused(x) == \/ Operator(x) = "N_IL_INSN"
              \/ ~GoodModifier(InstructionOf(x)) \/ ~GoodOperand(InstructionOf(x))

-----------------------------------------------------------------------------
(* The rung.                                                               *)

\* lookup: the first instruction with the label.
Labelled(label) == {k \in 1 .. Len(rung) : label # <<>> /\ rung[k].label = label}
Lookup(label) == CHOOSE k \in Labelled(label) : \A j \in Labelled(label) : k <= j

Parsing == ilStep = "parse" /\ Len(text) < MAXBUF

\* append
Store(x) ==
    /\ ~Refused(x) /\ x.op # "none"
    /\ Len(rung) < MAXSTACK /\ Labelled(x.label) = {}
    /\ rung' = Append(rung, Written(InstructionOf(x)))
    /\ faults' = IF x.op \notin Silent /\ ArgumentError(x) THEN faults + 1 ELSE faults
    /\ UNCHANGED <<ilStep, outcome>>

\* The result of append is ignored.
Drop(x) ==
    /\ ~Refused(x) /\ x.op # "none"
    /\ Len(rung) = MAXSTACK \/ Labelled(x.label) # {}
    /\ faults' = faults + 1
    /\ UNCHANGED <<rung, ilStep, outcome>>

\* A line without an operation leaves nothing, not even its label.
Skip(x) ==
    /\ ~Refused(x) /\ x.op = "none"
    /\ UNCHANGED <<rung, ilStep, outcome, faults>>

\* The first line in error is the last one.
Refuse(x) ==
    /\ Refused(x)
    /\ faults' = faults + 1
    /\ ilStep' = "intern"
    /\ UNCHANGED <<rung, outcome>>

EndOfProgram ==
    /\ ilStep = "parse"
    /\ ilStep' = "intern"
    /\ UNCHANGED <<text, rung, outcome, faults>>

\* intern: its result replaces that of the last line.
Unresolved == {k \in 1 .. Len(rung) : rung[k].lookup # <<>> /\ Labelled(rung[k].lookup) = {}}

\* BUG FORM of Intern: a label that is not found is the first instruction.
InternAnyhow ==
    /\ ilStep = "intern"
    /\ rung' = [k \in 1 .. Len(rung) |->
           IF rung[k].lookup = <<>> \/ Labelled(rung[k].lookup) = {}
           THEN rung[k] ELSE [rung[k] EXCEPT !.target = Lookup(rung[k].lookup) - 1]]
    /\ outcome' = "STOPPED"
    /\ ilStep' = "done"
    /\ UNCHANGED <<text, faults>>

Intern ==
    /\ ilStep = "intern"
    /\ rung' = [k \in 1 .. Len(rung) |->
           IF rung[k].lookup = <<>> \/ \E j \in Unresolved : j <= k
           THEN rung[k] ELSE [rung[k] EXCEPT !.target = Lookup(rung[k].lookup) - 1]]
    /\ outcome' = IF Unresolved = {} THEN "STOPPED" ELSE "ERROR"
    /\ ilStep' = "done"
    /\ UNCHANGED <<text, faults>>

NextIL ==
    \/ \E line \in ILLines :
          /\ Parsing
          /\ text' = Append(text, line)
          /\ \E x \in {Parsed(line)} : Store(x) \/ Drop(x) \/ Skip(x) \/ Refuse(x)
    \/ EndOfProgram \/ Intern
=============================================================================
