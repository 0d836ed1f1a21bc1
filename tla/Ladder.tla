------------------------------- MODULE Ladder -------------------------------
(***************************************************************************)
(* From a drawn ladder to what its coils do: the parser of ladder lines    *)
(* (src/src/vm/parser-ld.c) builds trees, Codegen makes instructions of    *)
(* them, and RungVM executes these, scan after scan, some of which time    *)
(* out half way.                                                           *)
(*                                                                         *)
(* A drawing is a sequence of symbols that the parser meets on its lines:  *)
(* contacts, nodes that join lines, and coils; columns and cursors are     *)
(* left out.  Beside the tree of a line its meaning is kept: the inputs    *)
(* for which power reaches its end.  That meaning is the one the README    *)
(* gives to the symbols and does not look at the trees.                    *)
(***************************************************************************)
EXTENDS RungVM, Codegen, FiniteSets

CONSTANTS
    Contacts,   \* bound of the model: contacts of a drawing
    Nodes,      \* bound of the model: columns of nodes of a drawing
    Closed      \* where contacts are negated: "last", just before a coil, or "any"

ASSUME BoundsAssumption == Contacts \in Nat /\ Nodes \in Nat
ASSUME ClosedAssumption == Closed \in {"last", "any"}

Line == Coil    \* each line has at most one coil, its own
ASSUME LineAssumption == IsFiniteSet(Coil) /\ Line = 1 .. Cardinality(Coil)

VARIABLES
    stmt,      \* [Line -> tree], the expression of a line so far
    coil,      \* [Line -> the type of its coil, or "none"]
    power,     \* history: [Line -> SUBSET SUBSET Operand], the meaning
    sealed,    \* history: lines that end with a negated contact
    contacts, nodes,   \* history: what has been drawn
    base       \* history: the stack when the scan began

drawing == <<stmt, coil, power, sealed, contacts, nodes>>
allvars == <<vars, drawing, base>>

InitLadder ==
    /\ Init
    /\ stmt = [l \in Line |-> Nothing]
    /\ coil = [l \in Line |-> "none"]
    /\ power = [l \in Line |-> {}]
    /\ sealed = {} /\ contacts = 0 /\ nodes = 0
    /\ base = <<>>

-----------------------------------------------------------------------------
(* parse_ld_line and vertical_parse.                                       *)

\* Lines that have not reached their coil.
Open == {l \in Line : coil[l] = "none" /\ l \notin sealed}

\* handle_operand: a contact in series with what precedes it on the line.
Contact(l, x, negated) ==
    /\ phase = "draw" /\ l \in Open /\ contacts < Contacts
    /\ stmt' = [stmt EXCEPT ![l] =
          Expression(Identifier(x), @, "AND",
                     {"PUSH"} \cup (IF negated THEN {"NEG"} ELSE {}))]
    /\ power' = [power EXCEPT ![l] =
          {v \in (IF stmt[l] = Nothing THEN SUBSET Operand ELSE @) : (x \in v) # negated}]
    /\ sealed' = IF negated /\ Closed = "last" THEN sealed \cup {l} ELSE sealed
    /\ contacts' = contacts + 1
    /\ UNCHANGED <<vars, coil, nodes, base>>

\* BUG FORM of Joined: the last line alone survives a node.
JoinedLast(joint) ==
    LET drawn == {l \in joint : stmt[l] # Nothing}
    IN IF drawn = {} THEN Nothing
       ELSE Expression(stmt[CHOOSE l \in drawn : \A k \in drawn : k <= l],
                       Nothing, "OR", {"PUSH"})

\* The OR of all lines with a node, the last line outermost.
Joined(joint) ==
    LET upTo[l \in 0 .. Cardinality(Line)] ==
            IF l = 0 THEN Nothing
            ELSE IF l \in joint /\ stmt[l] # Nothing
                 THEN Expression(stmt[l], upTo[l - 1], "OR", {"PUSH"})
                 ELSE upTo[l - 1]
    IN upTo[Cardinality(Line)]

\* A column of nodes on the lines of joint: each of them goes on with the OR.
Node(joint) ==
    /\ phase = "draw" /\ nodes < Nodes
    /\ joint # {} /\ joint \subseteq Open
    /\ stmt' = [l \in Line |-> IF l \in joint THEN Joined(joint) ELSE stmt[l]]
    /\ power' = [l \in Line |-> IF l \in joint THEN UNION {power[k] : k \in joint}
                                               ELSE power[l]]
    /\ nodes' = nodes + 1
    /\ UNCHANGED <<vars, coil, sealed, contacts, base>>

\* handle_coil.
End(l, type) ==
    /\ phase = "draw" /\ coil[l] = "none"
    /\ coil' = [coil EXCEPT ![l] = type]
    /\ UNCHANGED <<vars, stmt, power, sealed, contacts, nodes, base>>

-----------------------------------------------------------------------------
(* generate_code, and the scans of the rung.                               *)

\* generate_code: the lines that ended with a coil, one after the other.
Generated ==
    LET upTo[l \in 0 .. Cardinality(Line)] ==
            IF l = 0 THEN <<>>
            ELSE IF coil[l] = "none" THEN upTo[l - 1]
                 ELSE upTo[l - 1] \o GenAss(coil[l], l, stmt[l])
    IN upTo[Cardinality(Line)]

Drawn == \E l \in Line : coil[l] # "none"

\* gen_ass wants an expression, and append room for its instructions.
Accepted ==
    /\ \A l \in Line : coil[l] # "none" => stmt[l] # Nothing
    /\ Len(Generated) <= MAXSTACK

\* parse_ld_program is at its end.
Generate ==
    /\ phase = "draw" /\ Drawn /\ Accepted
    /\ Install(Generated)
    /\ stmt' = [l \in Line |-> Nothing]
    /\ power' = [l \in Line |-> IF coil[l] = "none" THEN {} ELSE power[l]]
    /\ sealed' = {} /\ contacts' = 0 /\ nodes' = 0
    /\ UNCHANGED <<coil, base>>

\* The PLC is in error, and the host begins again with another drawing.
Refuse ==
    /\ phase = "draw" /\ Drawn /\ ~Accepted
    /\ stmt' = [l \in Line |-> Nothing]
    /\ coil' = [l \in Line |-> "none"]
    /\ power' = [l \in Line |-> {}]
    /\ sealed' = {} /\ contacts' = 0 /\ nodes' = 0
    /\ UNCHANGED <<vars, base>>

\* Another parser has made the rung, before anything is drawn.
InstallProgram ==
    /\ ~Drawn /\ contacts = 0 /\ nodes = 0
    /\ \E program \in Programs : Install(program)
    /\ UNCHANGED <<drawing, base>>

Run ==
    /\ Scan
    /\ base' = IF phase = "host" THEN stack ELSE base
    /\ UNCHANGED drawing

Draw ==
    \/ \E l \in Line, x \in Operand, negated \in BOOLEAN : Contact(l, x, negated)
    \/ \E first, last \in Line : Node(first .. last)
    \/ \E l \in Line, type \in {"COIL", "DOWN", "SET", "RESET"} : End(l, type)

NextLadder == Draw \/ Generate \/ Refuse \/ InstallProgram \/ Run

SpecLadder == InitLadder /\ [][NextLadder]_allvars

-----------------------------------------------------------------------------
(* Properties.                                                             *)

\* A scan of a drawn ladder that has executed the whole rung.
Complete == Drawn /\ phase = "scan" /\ pc = Len(code)

\* The frames that earlier scans have left leave enough of the stack: no rung of
\* a drawn ladder goes deeper than half its instructions, since it pops what it
\* pushes.  With an empty stack there is always room.
Room == Len(base) + Len(code) \div 2 < MAXSTACK

\* What a coil does when power reaches it or does not.
Effects(type, powered) ==
    CASE type = "none"  -> "none"
      [] type = "COIL"  -> IF powered THEN "on" ELSE "off"
      [] type = "DOWN"  -> IF powered THEN "off" ELSE "on"
      [] type = "SET"   -> IF powered THEN "set" ELSE "none"
      [] type = "RESET" -> IF powered THEN "reset" ELSE "none"

\* In every scan that is not cut short each coil does what the drawn circuit
\* says for the inputs of the scan, whatever accumulator and stack were left by
\* scans before it (README.md, "Ladder diagram": contacts in series and
\* parallel; parse_ld_program, gen_ass, handle_stackable and pop together).
CoilFollowsCircuit ==
    (Complete /\ Room) => \A l \in Line : out[l] = Effects(coil[l], bits \in power[l])

\* The rung of a drawn ladder pops what it has pushed and nothing else, so
\* that the frames a cut scan has left neither grow nor are applied.
StackRestored == (Complete /\ Room) => stack = base
=============================================================================
