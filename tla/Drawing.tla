------------------------------ MODULE Drawing ------------------------------
(***************************************************************************)
(* What a drawn ladder means, by the README ("Ladder Diagram"): '-'        *)
(* carries a state from left to right, '+' joins the states of lines, '|'  *)
(* carries them between aligned nodes, blanks interrupt.  The meaning is   *)
(* computed column by column and knows nothing of cursors; the parser is   *)
(* compared with it.                                                       *)
(***************************************************************************)
EXTENDS ParserLD

-----------------------------------------------------------------------------
\* The length of the longest line.
Width == CHOOSE w \in {Len(buf[l]) : l \in Line} : \A l \in Line : Len(buf[l]) <= w

\* The operand at column c as it is written.
NumberEnd(l, c) == CHOOSE e \in c + 1 .. Len(buf[l]) :
                      Symbol(l, e) # "9" /\ \A d \in c + 1 .. e - 1 : Symbol(l, d) = "9"
Written(l, c) ==
    LET e == NumberEnd(l, c)
    IN <<buf[l][c + 1].c, buf[l][c + 1].byte,
         IF Symbol(l, e) = "/" THEN buf[l][e + 1].bit ELSE BYTESIZE>>

\* The lines that column c connects with line l.
Connected(l, c) ==
    {k \in Line : \A j \in (k .. l) \cup (l .. k) : Symbol(j, c) \in Vertical}

\* A line with no contact yet is not wired, and lends nothing to a node.
Unwired == [wired |-> FALSE, on |-> {}]
Through(l, c, p) ==
    CASE Symbol(l, c) \in Contacts ->
            [wired |-> TRUE,
             on |-> {v \in (IF p[l].wired THEN p[l].on ELSE SUBSET Operands) :
                        (Written(l, c) \in v) # (c > 0 /\ Symbol(l, c - 1) = "!")}]
      [] Symbol(l, c) = "+" ->
            LET branches == {k \in Connected(l, c) : Symbol(k, c) = "+" /\ p[k].wired}
            IN [wired |-> branches # {}, on |-> UNION {p[k].on : k \in branches}]
      [] Symbol(l, c) \in {"blank", "|", "END", "ERR"} -> Unwired
      [] OTHER -> p[l]

\* Flow[c][l]: the state that reaches column c of line l.
Flow[c \in 0 .. Width] ==
    IF c = 0 THEN [l \in Line |-> Unwired]
    ELSE [l \in Line |-> Through(l, c - 1, Flow[c - 1])]

CoilColumns(l) == {c \in 0 .. Len(buf[l]) - 1 : Symbol(l, c) \in Coils}
HasCoil(l) == CoilColumns(l) # {}
CoilColumn(l) == CHOOSE c \in CoilColumns(l) : TRUE

-----------------------------------------------------------------------------
(* Drawings that the parser is made for.                                   *)

Cells(l, S) == {c \in 0 .. Len(buf[l]) - 1 : Symbol(l, c) \in S}

\* Every symbol is one of the README's, and operands are written out: a coil
\* before a Q, and a number behind a letter, with one digit after its slash.
Known ==
    \A l \in Line : \A c \in 0 .. Len(buf[l]) - 1 :
        /\ Symbol(l, c) \in {"-", "!", "blank", "|", "+", "END", "Q", "9", "/"}
                               \cup Contacts \cup Coils
        /\ Symbol(l, c) = "!" => Symbol(l, c + 1) \in Contacts
        /\ Symbol(l, c) \in Coils => Symbol(l, c + 1) = "Q"
        /\ Symbol(l, c) = "Q" => c > 0 /\ Symbol(l, c - 1) \in Coils
        /\ Symbol(l, c) \in {"9", "/"} =>
              c > 0 /\ Symbol(l, c - 1) \in {"9", "/", "Q"} \cup Contacts
        /\ Symbol(l, c) = "/" => Symbol(l, c + 1) = "9" /\ Symbol(l, c + 2) \notin {"9", "/"}

\* Where what is written of the operand at column c ends.
OperandEnd(l, c) == LET e == NumberEnd(l, c) IN IF Symbol(l, e) = "/" THEN e + 2 ELSE e

\* Nothing but wire is passed over unread after a contact, and nothing of its
\* operand is left to be read.
WireAfterContacts ==
    \A l \in Line : \A c \in Cells(l, Contacts) :
        LET next == c + 4 + Digits(Byte(l, c))
        IN /\ OperandEnd(l, c) <= next
           /\ \A d \in OperandEnd(l, c) .. next - 1 : Symbol(l, d) = "-"

\* Operands say their bit, or no operand after them does.
OwnBits == \A l \in Line : \A c \in Cells(l, Contacts \cup {"Q"}) :
              Operand(l, c) = Written(l, c)

\* The operands exist, with one number for each: bytes of more than 255 would be
\* taken modulo 256, and 255 is the byte of an error.
NumbersExist ==
    \A l \in Line :
        /\ \A c \in Cells(l, Contacts \cup {"Q"}) : buf[l][c + 1].byte \in 0 .. 254
        /\ \A c \in Cells(l, {"/"}) : buf[l][c + 1].bit \in 0 .. 7

\* A coil is the last thing that is drawn on a line.
NothingAfterCoils ==
    \A l \in Line : \A c \in Cells(l, Coils \cup {"END"}), d \in Cells(l, Vertical \cup Coils) : d <= c

\* A line that others cross has no node further on.
NothingAfterCrossing ==
    \A l \in Line : \A c \in Cells(l, {"|"}), d \in Cells(l, {"+"}) : d < c

\* No node is in a column that find_next_node could pass over.
NodesToTheRight == \A l \in Line : \A c \in Cells(l, {"+"}) : c >= Length - 1

WellDrawn == /\ Known /\ WireAfterContacts /\ OwnBits /\ NumbersExist
             /\ NothingAfterCoils /\ NothingAfterCrossing /\ NodesToTheRight

-----------------------------------------------------------------------------
(* Properties.                                                             *)

Meant(l) ==
    LET c == CoilColumn(l)
        p == Flow[c][l]
    IN Assignment(Symbol(l, c), Written(l, c + 1),
                  IF p.wired THEN Expression(p.on, TRUE) ELSE Null)

AsDrawn == \A l \in Line : HasCoil(l) => stmt[l] = Meant(l)

\* horizontal_parse and vertical_parse in turn give each coil of a well drawn
\* ladder the contacts that lead to it, over nodes and crossing lines, in
\* whatever order the lines reach their nodes.
CoilsAsDrawn == step = "done" /\ WellDrawn => AsDrawn
=============================================================================
