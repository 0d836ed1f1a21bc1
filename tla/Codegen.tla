------------------------------ MODULE Codegen ------------------------------
(***************************************************************************)
(* The code generator (src/src/vm/codegen.c): syntax trees of a ladder     *)
(* line (parser-tree.c) to the instructions of RungVM.                     *)
(*                                                                         *)
(* A tree is an identifier, an expression with a left and perhaps a right  *)
(* item, or Nothing where the code has a NULL pointer.  Nothing but        *)
(* gen_expr ever looks into an expression, and what it makes of one        *)
(* depends on the operation that waits for it only: an expression is       *)
(* represented by these instructions, for each such operation.             *)
(***************************************************************************)
EXTENDS Integers, Sequences

Operation == {"AND", "OR", "XOR"}
Waiting == {"LD"} \cup Operation    \* LD where no operation waits

Ins(operation, modifier, operand) ==
    [operation |-> operation, modifier |-> modifier, operand |-> operand]
PopIns == [operation |-> "POP"]

Nothing == [tag |-> "NULL"]
Identifier(x) == [tag |-> "IDENTIFIER", operand |-> x]

\* gen_expr_left: the left item waits for what the caller is to apply.
Left(a, waiting, mod) ==
    LET leftMod == IF waiting \in Operation THEN mod \cup {"PUSH"} ELSE mod \ {"PUSH"}
    IN IF a.tag = "IDENTIFIER" THEN <<Ins(waiting, leftMod, a.operand)>>
                               ELSE a.code[waiting]

\* gen_expr_right: the right item waits for the operation of the expression.
Right(b, op, mod) == CASE b.tag = "NULL"       -> <<>>
                       [] b.tag = "IDENTIFIER" -> <<Ins(op, mod, b.operand)>>
                       [] b.tag = "EXPRESSION" -> b.code[op]

\* BUG FORM of Closing: a POP also for an expression without a right item.
ClosingAlways(b, op, mod) ==
    IF "PUSH" \in mod /\ op \in Operation THEN <<PopIns>> ELSE <<>>

\* The POP at the end of gen_expr.
Closing(b, op, mod) ==
    IF "PUSH" \in mod /\ op \in Operation /\ b # Nothing THEN <<PopIns>> ELSE <<>>

\* gen_expr of an expression with these items, operation and modifier.
GenExpr(a, b, op, mod, waiting) ==
    Left(a, waiting, mod) \o Right(b, op, mod) \o Closing(b, op, mod)

\* mk_expression.
Expression(a, b, op, mod) ==
    [tag |-> "EXPRESSION", code |-> [waiting \in Waiting |-> GenExpr(a, b, op, mod, waiting)]]

\* The instruction of a coil: ( ) [ or ].
CoilIns(type, c) ==
    CASE type = "COIL"  -> Ins("ST", {}, c)
      [] type = "DOWN"  -> Ins("ST", {"NEG"}, c)
      [] type = "SET"   -> Ins("S", {"COND"}, c)
      [] type = "RESET" -> Ins("R", {"COND"}, c)

\* gen_ass: an assignment of the expression e to the coil c.
GenAss(type, c, e) == e.code["LD"] \o <<CoilIns(type, c)>>
=============================================================================
