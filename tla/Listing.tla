------------------------------ MODULE Listing ------------------------------
(***************************************************************************)
(* What an instruction list means, by the README ("Instruction List"): one *)
(* instruction per line, [label:]<operator>...[;comment], in the order of  *)
(* the lines, with the modifiers and operands of its table, and jumps to   *)
(* the line that has the label.                                            *)
(***************************************************************************)
EXTENDS ParserIL

InComment(line, n) == \E k \in 1 .. n : line[k].mark = "semicolon"
Outside(line, mark) == {n \in DOMAIN line : line[n].mark = mark /\ ~InComment(line, n)}
Solid(line) == {n \in DOMAIN line : line[n].mark # "blank" /\ ~InComment(line, n)}

\* The statement and the label a line has, if any.
Speaks(line) == Outside(line, "statement") # {}
Said(line) == line[CHOOSE n \in Outside(line, "statement") : TRUE]
Label(line) == IF Outside(line, "name") = {} THEN <<>>
               ELSE <<line[CHOOSE n \in Outside(line, "name") : TRUE]>>

\* A statement as the README has it, without the negations, which
\* check_modifier refuses.
GoodStatement(x) ==
    \/ x.op = ")" /\ x.mods = <<>> /\ x.arg.kind = "none"
    \/ /\ x.op = "JMP" /\ x.mods \in {<<"blank">>, <<"?">>}
       /\ x.arg.kind = "label" /\ x.arg.name # <<>>
    \/ /\ x.op \in Stackable \cup Writes \cup {"LD"}
       /\ x.mods = <<"blank">> \/ (x.mods = <<"(">> /\ x.op \in Stackable)
       /\ x.arg.kind = "operand" /\ x.arg.letter \in Letters
       /\ x.op \in Writes => x.arg.letter \in {"q", "m", "t"}
       /\ x.arg.type = "none" \/ (x.arg.type = "f" /\ x.arg.letter \in {"i", "m", "q"})
       /\ x.arg.byte \in 0 .. 254 /\ x.arg.bit # BAD

\* Besides blanks and a comment a line has a statement, with or without a name
\* and a colon in front of it, or nothing.
WellFormed(line) ==
    \/ Solid(line) = {}
    \/ \E s \in Outside(line, "statement") :
          /\ GoodStatement(line[s])
          /\ \/ Solid(line) = {s}
             \/ \E n \in Outside(line, "name"), c \in Outside(line, "colon") :
                   n < c /\ c < s /\ Solid(line) = {n, c, s}

\* The lines of a program that say something, in their order.
Speaking(program) ==
    LET kept[n \in 0 .. Len(program)] ==
            IF n = 0 THEN <<>>
            ELSE IF Speaks(program[n]) THEN Append(kept[n - 1], program[n]) ELSE kept[n - 1]
    IN kept[Len(program)]

Saying == Speaking(text)
Labelling(label) == {k \in 1 .. Len(Saying) : Label(Saying[k]) = label}

MeantModifier(x) == IF x.mods = <<"(">> THEN "PUSH" ELSE IF x.mods = <<"?">> THEN "COND" ELSE "NORM"

\* An operand that is written has a capital letter in the code.
MeantOperand(x) ==
    LET capital == x.op \in Writes
    IN CASE x.arg.letter = "q" /\ x.arg.type = "none"  -> IF capital THEN "Q" ELSE "q"
         [] x.arg.letter = "m" /\ x.arg.type = "none"  -> IF capital THEN "M" ELSE "m"
         [] x.arg.letter = "q" /\ x.arg.type = "f" -> IF capital THEN "QF" ELSE "qf"
         [] x.arg.letter = "m" /\ x.arg.type = "f" -> IF capital THEN "MF" ELSE "mf"
         [] x.arg.letter = "t"                     -> IF capital THEN "T" ELSE "t"
         [] x.arg.letter = "i" /\ x.arg.type = "f" -> "if"
         [] OTHER                                  -> x.arg.letter

Says(i, line) ==
    LET x == Said(line) IN
    /\ i.label = Label(line) /\ i.operation = x.op /\ i.modifier = MeantModifier(x)
    /\ x.op = "JMP" =>
          i.target + 1 \in Labelling(x.arg.name)
    /\ x.op \notin Silent =>
          /\ i.operand = MeantOperand(x) /\ i.byte = x.arg.byte
          /\ i.bit = IF x.arg.bit \in 0 .. 7 THEN x.arg.bit ELSE BYTESIZE

Coherent ==
    /\ \A k \in DOMAIN text : WellFormed(text[k])
    /\ Len(Saying) <= MAXSTACK
    /\ \A j, k \in DOMAIN Saying :
          j # k /\ Label(Saying[j]) # <<>> => Label(Saying[j]) # Label(Saying[k])
    /\ \A k \in DOMAIN Saying : Said(Saying[k]).op = "JMP" => Labelling(Said(Saying[k]).arg.name) # {}

\* A list written by the rules is accepted, and its rung has the instructions
\* that the lines say, in their order, each jump leading to the line that has
\* its label, be it before the jump or after it (parse_il_line, intern).
ProgramAsWritten ==
    ilStep = "done" /\ Coherent =>
        /\ outcome = "STOPPED" /\ Len(rung) = Len(Saying)
        /\ \A k \in DOMAIN rung : Says(rung[k], Saying[k])

\* Of whatever list is accepted, lines dropped or cut off included, no jump
\* that names a label leads past the rung or to an instruction with another
\* label (append, lookup, intern).
JumpsLand ==
    ilStep = "done" /\ outcome = "STOPPED" =>
        \A k \in DOMAIN rung : rung[k].operation = "JMP" /\ rung[k].lookup # <<>> =>
            /\ rung[k].target \in 0 .. Len(rung) - 1
            /\ rung[rung[k].target + 1].label = rung[k].lookup
=============================================================================
