------------------------------ MODULE ParserLD ------------------------------
(***************************************************************************)
(* The ladder parser (src/src/vm/parser-ld.c).  Every line of the program  *)
(* has a cursor.  parse_ld_program reads the lines one after the other, up *)
(* to a node or the end of each; picks the next node; ORs the lines that   *)
(* meet in its column; and begins again.  Coils become assignments.        *)
(*                                                                         *)
(* A line is a sequence of cells, one per character, counted from 0 by the *)
(* cursor as in the code.  A cell is a record with the symbol c that       *)
(* read_char makes of it; the letter of an operand also carries the number *)
(* that the digits behind it spell, and a slash that of the next digit, or *)
(* -1 where there is none.  Of a syntax tree its meaning is kept: the      *)
(* valuations of the operands (sets of operands that are on) for which it  *)
(* is true.  Module Codegen has the trees themselves.                      *)
(***************************************************************************)
EXTENDS Integers, Sequences, FiniteSets

CONSTANTS
    Length,     \* number of lines
    Texts,      \* what a line may say
    Operands,   \* operands <<letter, byte, bit>> that can be on
    BYTESIZE    \* the bit of an operand that is written without one

ASSUME LengthAssumption == Length \in Nat \ {0}
ASSUME TextsAssumption == \A x \in Texts : x \in Seq([c : STRING] \cup
    [c : STRING, byte : Int] \cup [c : STRING, bit : Int])

VARIABLES
    buf,      \* [Line -> Texts]
    cursor,   \* [Line -> Nat]
    lstatus,  \* [Line -> "unresolved", "resolved" or "error"]
    stmt,     \* [Line -> Statement]
    kin,      \* [Line -> SUBSET Line], lines whose trees share a part
    step,     \* where parse_ld_program is
    line,     \* i of horizontal_parse
    nMode,    \* n_mode of parse_ld_line
    node,     \* node of parse_ld_program
    outcome   \* "none", then the p->status it leaves: "STOPPED" is PLC_OK

lines == <<cursor, lstatus, stmt, kin>>
varsLD == <<buf, lines, step, line, nMode, node, outcome>>

Line == 0 .. Length - 1
Coils == {"(", ")", "[", "]"}
Contacts == {"i", "f", "r", "m", "t", "c", "b", "q"}   \* OP_INPUT .. OP_OUTPUT
Vertical == {"|", "+"}

Null == [tag |-> "NULL"]
Expression(on, sound) == [tag |-> "EXPRESSION", on |-> on, sound |-> sound]
Assignment(type, target, e) ==
    [tag |-> "ASSIGNMENT", type |-> type, target |-> target, right |-> e]
Freed == [tag |-> "FREED"]

\* read_char: past the terminator it fails.
Symbol(l, c) == IF c > Len(buf[l]) THEN "ERR"
                ELSE IF c = Len(buf[l]) THEN "END"
                ELSE buf[l][c + 1].c

\* digits() takes 10 for a number of one digit, and 100 for one of two.
Digits(n) == IF n > 100 THEN 3 ELSE IF n > 10 THEN 2 ELSE 1

\* extract_arguments keeps the number in a byte, that of an error too.
Byte(l, c) == buf[l][c + 1].byte % 256

\* The bit is the one of the next slash on the line, be it that of another
\* operand.
Slashes(l, c) == {d \in c + 1 .. Len(buf[l]) - 1 : Symbol(l, d) = "/"}
BitAfter(l, c) ==
    LET slashes == Slashes(l, c)
    IN IF slashes = {} THEN BYTESIZE
       ELSE buf[l][(CHOOSE d \in slashes : \A e \in slashes : d <= e) + 1].bit

\* PLC_ERR_BADINDEX: the byte is that of an error, which -1 and 255 are, or the
\* character after the slash is no digit up to 7.
BadIndex(l, c) ==
    \/ Byte(l, c) = 255
    \/ Slashes(l, c) # {} /\ BitAfter(l, c) \notin 0 .. 7

Operand(l, c) == <<buf[l][c + 1].c, Byte(l, c), BitAfter(l, c)>>

\* construct_program.
Constructed ==
    /\ cursor = [l \in Line |-> 0]
    /\ lstatus = [l \in Line |-> "unresolved"]
    /\ stmt = [l \in Line |-> Null]
    /\ kin = [l \in Line |-> {}]
    /\ step = "horizontal" /\ line = 0 /\ nMode = FALSE
    /\ node = 0
    /\ outcome = "none"

-----------------------------------------------------------------------------
(* horizontal_parse: parse_ld_line of one line after the other.            *)

Reading(l) == step = "horizontal" /\ line = l /\ lstatus[l] = "unresolved"

Here(l) == Symbol(l, cursor[l])

Wire(l) ==
    /\ Reading(l) /\ Here(l) \in {"-", "!"}
    /\ cursor' = [cursor EXCEPT ![l] = @ + 1]
    /\ nMode' = (nMode \/ Here(l) = "!")
    /\ UNCHANGED <<buf, lstatus, stmt, kin, step, line, node, outcome>>

\* A blank and a vertical line interrupt the line.
Gap(l) ==
    /\ Reading(l) /\ Here(l) \in {"blank", "|"}
    /\ cursor' = [cursor EXCEPT ![l] = @ + 1]
    /\ stmt' = [stmt EXCEPT ![l] = Null]
    /\ kin' = [k \in Line |-> IF k = l THEN {} ELSE kin[k] \ {l}]
    /\ UNCHANGED <<buf, lstatus, step, line, nMode, node, outcome>>

\* The line ends without a coil.
EndOfLine(l) ==
    /\ Reading(l) /\ Here(l) = "END"
    /\ lstatus' = [lstatus EXCEPT ![l] = "resolved"]
    /\ stmt' = [stmt EXCEPT ![l] = Null]
    /\ kin' = [k \in Line |-> IF k = l THEN {} ELSE kin[k] \ {l}]
    /\ UNCHANGED <<buf, cursor, step, line, nMode, node, outcome>>

\* handle_operand.  The cursor passes the letter, the digits, two more cells
\* for slash and bit, written or not, and one more.
Contact(l) ==
    /\ Reading(l) /\ Here(l) \in Contacts
    /\ ~BadIndex(l, cursor[l])
    /\ LET x == Operand(l, cursor[l])
           before == IF stmt[l] = Null THEN SUBSET Operands ELSE stmt[l].on
           sound  == stmt[l] = Null \/ stmt[l].sound
       IN stmt' = [stmt EXCEPT ![l] =
             IF @ = Freed THEN Freed
             ELSE Expression({v \in before : (x \in v) # nMode}, sound)]
    /\ cursor' = [cursor EXCEPT ![l] = @ + 4 + Digits(Byte(l, @))]
    /\ nMode' = FALSE
    /\ UNCHANGED <<buf, lstatus, kin, step, line, node, outcome>>

\* handle_coil.
Coil(l) ==
    /\ Reading(l) /\ Here(l) \in Coils
    /\ Symbol(l, cursor[l] + 1) = "Q"
    /\ ~BadIndex(l, cursor[l] + 1)
    /\ stmt' = [stmt EXCEPT ![l] =
          IF @ = Freed THEN Freed
          ELSE Assignment(Here(l), Operand(l, cursor[l] + 1), @)]
    /\ cursor' = [cursor EXCEPT ![l] = @ + 2]
    /\ lstatus' = [lstatus EXCEPT ![l] = "resolved"]
    /\ UNCHANGED <<buf, kin, step, line, nMode, node, outcome>>

Valid(l) == \/ Here(l) \in {"-", "!", "blank", "|", "+", "END"} \/ Here(l) \in Contacts
            \/ (Here(l) \in Coils /\ Symbol(l, cursor[l] + 1) = "Q")

\* The line is in error, its cursor read cells further, and its tree is freed,
\* with the parts that it shares with trees of other lines.  horizontal_parse
\* gives up the lines after it, and parse_ld_program goes on to vertical_parse
\* from the node of the last pass, whose result replaces the error.
Fails(l, read) ==
    /\ lstatus' = [lstatus EXCEPT ![l] = "error"]
    /\ stmt' = [k \in Line |-> IF k \in kin[l] THEN Freed
                               ELSE IF k = l /\ stmt[l] # Freed THEN Null
                               ELSE stmt[k]]
    /\ kin' = [k \in Line |-> IF k = l THEN {} ELSE kin[k] \ {l}]
    /\ cursor' = [cursor EXCEPT ![l] = @ + read]
    /\ step' = "vertical"
    /\ UNCHANGED <<buf, line, nMode, node, outcome>>

\* Any other symbol.
BadSymbol(l) ==
    /\ Reading(l) /\ ~Valid(l)
    /\ Fails(l, IF Here(l) = "ERR" THEN 0 ELSE 1)

\* handle_operand and handle_coil of an operand that does not exist.
BadContact(l) ==
    /\ Reading(l) /\ Here(l) \in Contacts
    /\ BadIndex(l, cursor[l])
    /\ Fails(l, 2)

BadCoil(l) ==
    /\ Reading(l) /\ Here(l) \in Coils
    /\ Symbol(l, cursor[l] + 1) = "Q"
    /\ BadIndex(l, cursor[l] + 1)
    /\ Fails(l, 2)

\* parse_ld_line returns at a node, or with a line that needs no more parsing.
LineDone ==
    /\ step = "horizontal"
    /\ lstatus[line] = "unresolved" => Here(line) = "+"
    /\ nMode' = FALSE
    /\ IF line + 1 < Length THEN line' = line + 1 /\ UNCHANGED step
                            ELSE step' = "find" /\ UNCHANGED line
    /\ UNCHANGED <<buf, lines, node, outcome>>

ReadLine(l) ==
    \/ Wire(l) \/ Gap(l) \/ EndOfLine(l) \/ Contact(l) \/ Coil(l)
    \/ BadSymbol(l) \/ BadContact(l) \/ BadCoil(l)

-----------------------------------------------------------------------------
(* find_next_node and vertical_parse.                                      *)

\* The lines that find_next_node considers: it is given the number of the last
\* node's line where the least cursor is wanted.
Waiting == {l \in Line : lstatus[l] = "unresolved" /\ cursor[l] >= node}

\* minmin: the smallest cursor, and of several the topmost line.
FindNextNode ==
    /\ step = "find"
    /\ IF Waiting = {} THEN node' = -1 /\ step' = "generate"
       ELSE /\ node' = CHOOSE l \in Waiting : \A k \in Waiting :
                          cursor[l] < cursor[k] \/ (cursor[l] = cursor[k] /\ l <= k)
            /\ step' = "vertical"
    /\ UNCHANGED <<buf, lines, line, nMode, outcome>>

\* A line below the node's through which the vertical line of column c runs.
Crossed(l, c) == l >= node /\ cursor[l] >= c /\ Symbol(l, c) \in Vertical

\* BUG FORM of Joint: lines above the first that is not crossed are left out.
JointBelow(l, c) ==
    {k \in l .. Length - 1 : \A j \in l + 1 .. k : Crossed(j, c)}

\* The lines that get the same OR as line l: those around it as far as they
\* are crossed, and the one that interrupts above them.
Joint(l, c) ==
    {k \in node .. Length - 1 :
        \A j \in (k + 1 .. l) \cup (l + 1 .. k) : Crossed(j, c)}

\* Of those the lines whose expressions are in the OR.
Branches(l, c) ==
    {k \in Joint(l, c) : Crossed(k, c) /\ Symbol(k, c) = "+" /\ stmt[k] # Null}

\* The OR of a joint.  An assignment has no place in an expression: gen_expr
\* fails on it.
Joined(branches) ==
    IF branches = {} THEN Null
    ELSE IF \E k \in branches : stmt[k] = Freed THEN Freed
    ELSE LET expressions == {k \in branches : stmt[k].tag = "EXPRESSION"}
         IN Expression(UNION {stmt[k].on : k \in expressions},
                       expressions = branches /\ \A k \in expressions : stmt[k].sound)

\* BUG FORM of Advanced: the lines stay at the node.
AdvancedNot(c) == cursor

Advanced(c) == [l \in Line |-> IF Crossed(l, c) THEN cursor[l] + 1 ELSE cursor[l]]

VerticalParse ==
    /\ step = "vertical"
    /\ LET c == cursor[node]
           Replaced == {l \in Line : l >= node /\ Symbol(l, c) = "+"}
           Parts(l) == IF l \in Replaced THEN Branches(l, c) ELSE {l}
       IN /\ stmt' = [l \in Line |-> IF l \in Replaced THEN Joined(Branches(l, c))
                                                       ELSE stmt[l]]
          /\ cursor' = Advanced(c)
          /\ kin' = [l \in Line |->
                {k \in Line \ {l} : \E a \in Parts(l), b \in Parts(k) : a = b \/ a \in kin[b]}]
    /\ step' = "horizontal" /\ line' = 0 /\ nMode' = FALSE
    /\ UNCHANGED <<buf, lstatus, node, outcome>>

-----------------------------------------------------------------------------
(* generate_code.                                                          *)

\* gen_ass makes code of an assignment of an expression.
Generates(s) == s.right.tag = "EXPRESSION" /\ s.right.sound

\* generate_code: statements that are no assignments are passed over.
GenerateCode(result) ==
    /\ step = "generate"
    /\ \/ /\ \A l \in Line : stmt[l].tag = "ASSIGNMENT" => Generates(stmt[l])
          /\ result = "STOPPED"
       \/ /\ \E l \in Line : stmt[l].tag = "ASSIGNMENT" /\ ~Generates(stmt[l])
          /\ result = "ERROR"
       \/ \E l \in Line : stmt[l] = Freed     \* what is there is anything
    /\ outcome' = result
    /\ step' = "done"
    /\ UNCHANGED <<buf, lines, line, nMode, node>>

NextLD ==
    \/ \E l \in Line : ReadLine(l)
    \/ LineDone \/ FindNextNode \/ VerticalParse
    \/ \E result \in {"STOPPED", "ERROR"} : GenerateCode(result)
=============================================================================
