--------------------------- MODULE MachineProofs ----------------------------
(***************************************************************************)
(* Proofs about the machine of a rung, for any program; about ladders:     *)
(* that the instructions generated for a ladder make its coils follow the  *)
(* drawn circuit; and about lists of instructions on words and numbers:    *)
(* that values fit their types, and are loaded as they were stored.        *)
(*                                                                         *)
(* The argument goes from below.  The states that code leads through are a *)
(* trace (Trace, Leads); traces are composed (LeadsOn).  The code of a     *)
(* tree computes the inputs its line means, for each operation that may    *)
(* wait for it (Computes, Means), by the ways trees are built: contacts in *)
(* series, lines in parallel, the OR of a column of nodes.  The code of a  *)
(* ladder is that of its lines one after the other (Follows).  Traces have *)
(* a stack without end; a scan of the rung is on such a trace as long as   *)
(* there is room (Tracks, OnTrack).  What is computed line by line is      *)
(* proved by induction on the number of the line (Induction).              *)
(*                                                                         *)
(* Words rest on arithmetic: the sum of ld_bytes after so many bytes is    *)
(* the rest of the word by a power of 2 (BytesOfDigits), each byte of it   *)
(* what st_out has put there (BytesStored).                                *)
(***************************************************************************)
EXTENDS Machine, BinaryProofs

-----------------------------------------------------------------------------
(* What instructions of the code generator lead to.                        *)

\* What an instruction may change, with a stack that has no end.
State == [acc : BOOLEAN, stack : Seq(Frame), out : [Coil -> Effect]]

\* What a coil instruction does to its coil.
Driven(i, a, before) ==
    IF i.operation = "ST"
    THEN IF a # (i.modifier = {"NEG"}) THEN "on" ELSE "off"
    ELSE IF ~a THEN before ELSE IF i.operation = "S" THEN "set" ELSE "reset"

\* An instruction of the code generator takes the state s to u, if the bits
\* of v are 1.
Takes(i, v, s, u) ==
    \/ /\ i.operation = "LD"
       /\ u.acc = ((i.operand \in v) # (i.modifier = {"NEG"}))
       /\ u.stack = s.stack /\ u.out = s.out
    \/ /\ i.operation \in Operations /\ i.modifier = {"PUSH"}
       /\ u.acc = (i.operand \in v)
       /\ u.stack = <<[operation |-> i.operation, value |-> s.acc]>> \o s.stack
       /\ u.out = s.out
    \/ /\ i.operation = "POP" /\ s.stack # <<>>
       /\ u.acc = Combine(Head(s.stack).operation, Head(s.stack).value, s.acc)
       /\ u.stack = Tail(s.stack) /\ u.out = s.out
    \/ /\ i.operation \in {"ST", "S", "R"} /\ (i.operation # "ST" => i.modifier = {"COND"})
       /\ u.acc = s.acc /\ u.stack = s.stack
       /\ u.out = [s.out EXCEPT ![i.operand] = Driven(i, s.acc, s.out[i.operand])]

\* t[k] is a state after k instructions.
Trace(c, v, t) ==
    /\ t \in [0 .. Len(c) -> State]
    /\ \A k \in 1 .. Len(c) : Takes(c[k], v, t[k - 1], t[k])

\* The instructions of c take s to u.
Leads(c, v, s, u) == \E t : Trace(c, v, t) /\ t[0] = s /\ t[Len(c)] = u

LEMMA LeadsNone ==
    ASSUME NEW v, NEW s \in State
    PROVE  Leads(<<>>, v, s, s)
  <1>1. Trace(<<>>, v, [k \in 0 .. 0 |-> s])
    BY DEF Trace
  <1> QED
    BY <1>1 DEF Leads

LEMMA LeadsOne ==
    ASSUME NEW i, NEW v, NEW s \in State, NEW u \in State, Takes(i, v, s, u)
    PROVE  Leads(<<i>>, v, s, u)
  <1> DEFINE t == [k \in 0 .. 1 |-> IF k = 0 THEN s ELSE u]
  <1>1. t \in [0 .. 1 -> State] /\ t[0] = s /\ t[1] = u
    OBVIOUS
  <1>2. Len(<<i>>) = 1 /\ <<i>>[1] = i
    OBVIOUS
  <1> HIDE DEF t
  <1>3. \A k \in 1 .. 1 : k = 1 /\ k - 1 = 0
    OBVIOUS
  <1>4. Trace(<<i>>, v, t)
    BY <1>1, <1>2, <1>3 DEF Trace
  <1> QED
    BY <1>1, <1>2, <1>4 DEF Leads

\* Code after code.
LEMMA LeadsOn ==
    ASSUME NEW c \in Seq(Instruction), NEW d \in Seq(Instruction), NEW v,
           NEW s, NEW u, NEW w, Leads(c, v, s, u), Leads(d, v, u, w)
    PROVE  Leads(c \o d, v, s, w)
  <1>1. PICK t : Trace(c, v, t) /\ t[0] = s /\ t[Len(c)] = u
    BY DEF Leads
  <1>2. PICK r : Trace(d, v, r) /\ r[0] = u /\ r[Len(d)] = w
    BY DEF Leads
  <1>3. PICK m \in Nat : m = Len(c)
    OBVIOUS
  <1>4. PICK n \in Nat : n = Len(d)
    OBVIOUS
  <1>5. /\ Len(c \o d) = m + n
        /\ \A k \in 1 .. m : (c \o d)[k] = c[k]
        /\ \A k \in m + 1 .. m + n : (c \o d)[k] = d[k - m]
    BY <1>3, <1>4
  <1>6. /\ t \in [0 .. m -> State] /\ \A k \in 1 .. m : Takes(c[k], v, t[k - 1], t[k])
        /\ r \in [0 .. n -> State] /\ \A k \in 1 .. n : Takes(d[k], v, r[k - 1], r[k])
        /\ t[0] = s /\ t[m] = r[0] /\ r[n] = w
    BY <1>1, <1>2, <1>3, <1>4 DEF Trace
  <1> DEFINE q == [k \in 0 .. m + n |-> IF k <= m THEN t[k] ELSE r[k - m]]
  <1>7. \A k \in 0 .. m + n : q[k] = IF k <= m THEN t[k] ELSE r[k - m]
    OBVIOUS
  <1>8. q \in [0 .. m + n -> State]
    <2>1. \A k \in 0 .. m + n : IF k <= m THEN k \in 0 .. m ELSE k - m \in 0 .. n
      OBVIOUS
    <2> QED
      BY <1>6, <2>1
  <1> HIDE DEF q
  <1>9. ASSUME NEW k \in 1 .. m + n PROVE Takes((c \o d)[k], v, q[k - 1], q[k])
    <2>1. k \in 0 .. m + n /\ k - 1 \in 0 .. m + n
      OBVIOUS
    <2>2. CASE k <= m
      <3>1. k \in 1 .. m /\ k - 1 <= m
        BY <2>2
      <3>2. q[k] = t[k] /\ q[k - 1] = t[k - 1] /\ (c \o d)[k] = c[k]
        BY <1>5, <1>7, <2>1, <2>2, <3>1
      <3> QED
        BY <1>6, <3>1, <3>2
    <2>3. CASE ~(k <= m)
      <3>1. k \in m + 1 .. m + n /\ k - m \in 1 .. n /\ (k - m) - 1 = (k - 1) - m
        BY <2>3
      <3>2. q[k] = r[k - m] /\ (c \o d)[k] = d[k - m]
        BY <1>5, <1>7, <2>1, <2>3, <3>1
      <3>3. q[k - 1] = r[(k - m) - 1]
        <4>1. CASE k - 1 <= m
          <5>1. k - 1 = m /\ (k - m) - 1 = 0
            BY <2>3, <4>1
          <5> QED
            BY <1>6, <1>7, <2>1, <5>1
        <4>2. CASE ~(k - 1 <= m)
          BY <1>7, <2>1, <3>1, <4>2
        <4> QED
          BY <4>1, <4>2
      <3> QED
        BY <1>6, <3>1, <3>2, <3>3
    <2> QED
      BY <2>2, <2>3
  <1>10. q[0] = s
    BY <1>6, <1>7
  <1>11. q[m + n] = w
    <2>1. CASE n = 0
      BY <1>6, <1>7, <2>1
    <2>2. CASE n # 0
      <3>1. m + n \in 0 .. m + n /\ ~(m + n <= m) /\ (m + n) - m = n
        BY <2>2
      <3> QED
        BY <1>6, <1>7, <3>1
    <2> QED
      BY <2>1, <2>2
  <1>12. Trace(c \o d, v, q)
    BY <1>5, <1>8, <1>9 DEF Trace
  <1> QED
    BY <1>5, <1>10, <1>11, <1>12 DEF Leads

-----------------------------------------------------------------------------
\* What code that computes a value leaves in the rung but that value: an
\* operation that waits has been pushed with the accumulator it found.
Reaches(s, waiting, u) ==
    /\ u.stack = IF waiting = "LD" THEN s.stack
                 ELSE <<[operation |-> waiting, value |-> s.acc]>> \o s.stack
    /\ u.out = s.out

\* The code c computes whether the inputs are in p.
Computes(c, p, waiting) ==
    /\ c \in Seq(Instruction)
    /\ \A v \in SUBSET Operand, s \in State :
          \E u \in State : Leads(c, v, s, u) /\ Reaches(s, waiting, u) /\ u.acc = (v \in p)

\* States that differ from s as an instruction says exist.
LEMMA StateExists ==
    ASSUME NEW s \in State, NEW value \in BOOLEAN, NEW waiting \in Waiting
    PROVE  \E u \in State : Reaches(s, waiting, u) /\ u.acc = value
  <1> DEFINE u == [acc |-> value,
                   stack |-> IF waiting = "LD" THEN s.stack
                             ELSE <<[operation |-> waiting, value |-> s.acc]>> \o s.stack,
                   out |-> s.out]
  <1>1. s.stack \in Seq(Frame) /\ s.acc \in BOOLEAN /\ s.out \in [Coil -> Effect]
    BY DEF State
  <1>2. waiting # "LD" => <<[operation |-> waiting, value |-> s.acc]>> \in Seq(Frame)
    BY <1>1 DEF Waiting, Operation, Operations, Frame
  <1>3. waiting # "LD" => <<[operation |-> waiting, value |-> s.acc]>> \o s.stack \in Seq(Frame)
    BY <1>1, <1>2
  <1>4. u \in State
    BY <1>1, <1>3 DEF State
  <1>5. Reaches(s, waiting, u) /\ u.acc = value
    BY DEF Reaches
  <1> QED
    BY <1>4, <1>5

\* A contact on the left, that is not negated or waits for no operation.
LEMMA LeftComputes ==
    ASSUME NEW x \in Operand, NEW negated \in BOOLEAN, NEW waiting \in Waiting,
           negated => waiting = "LD",
           NEW mod, mod = {"PUSH"} \cup (IF negated THEN {"NEG"} ELSE {}),
           NEW p, \A v \in SUBSET Operand : v \in p <=> ((x \in v) # negated)
    PROVE  Computes(Left(Identifier(x), waiting, mod), p, waiting)
  <1> DEFINE i == Ins(waiting, IF waiting \in Operation THEN mod \cup {"PUSH"} ELSE mod \ {"PUSH"}, x)
  <1>1. Left(Identifier(x), waiting, mod) = <<i>>
    BY DEF Left, Identifier
  <1>2. /\ i.operation = waiting /\ i.operand = x
        /\ i.modifier = IF waiting = "LD" THEN IF negated THEN {"NEG"} ELSE {} ELSE {"PUSH"}
    BY DEF Ins, Waiting, Operation
  <1>3. i \in Instruction
    <2>1. i.modifier \in Modifier
      BY <1>2 DEF Modifier
    <2> QED
      BY <1>2, <2>1 DEF Ins, Instruction, Waiting, Operation, Operations
  <1> HIDE DEF i
  <1>4. ASSUME NEW v \in SUBSET Operand, NEW s \in State
        PROVE  \E u \in State : Leads(<<i>>, v, s, u) /\ Reaches(s, waiting, u) /\ u.acc = (v \in p)
    <2>1. \E value \in BOOLEAN : value <=> v \in p
      OBVIOUS
    <2>2. PICK value \in BOOLEAN : value <=> v \in p
      BY <2>1
    <2>3. PICK u \in State : Reaches(s, waiting, u) /\ u.acc = value
      BY StateExists
    <2>4. Takes(i, v, s, u)
      <3>1. CASE waiting = "LD"
        <4>1. u.acc = ((i.operand \in v) # (i.modifier = {"NEG"}))
          BY <1>2, <2>2, <2>3, <3>1
        <4>2. u.stack = s.stack /\ u.out = s.out /\ i.operation = "LD"
          BY <1>2, <2>3, <3>1 DEF Reaches
        <4> QED
          BY <4>1, <4>2 DEF Takes
      <3>2. CASE waiting \in Operation
        <4>1. waiting # "LD" /\ ~negated /\ waiting \in Operations
          BY <3>2 DEF Operation, Operations
        <4>2. u.acc = (i.operand \in v) /\ i.modifier = {"PUSH"} /\ i.operation = waiting
          BY <1>2, <2>2, <2>3, <4>1
        <4>3. /\ u.stack = <<[operation |-> i.operation, value |-> s.acc]>> \o s.stack
              /\ u.out = s.out
          BY <2>3, <4>1, <4>2 DEF Reaches
        <4> QED
          BY <4>1, <4>2, <4>3 DEF Takes
      <3> QED
        BY <3>1, <3>2 DEF Waiting
    <2>5. Leads(<<i>>, v, s, u)
      BY <2>4, LeadsOne
    <2>6. u.acc = (v \in p)
      BY <2>2, <2>3
    <2> QED
      BY <2>3, <2>5, <2>6
  <1>5. <<i>> \in Seq(Instruction)
    BY <1>3
  <1>6. Computes(<<i>>, p, waiting)
    BY <1>4, <1>5 DEF Computes
  <1> QED
    BY <1>1, <1>6

\* Code for the left item, code for the right one that waits for an operation,
\* and a POP compute the operation of both.
LEMMA PopComputes ==
    ASSUME NEW op \in Operation, NEW waiting \in Waiting, NEW c, NEW d, NEW a, NEW b, NEW p,
           Computes(c, a, waiting), Computes(d, b, op),
           \A v \in SUBSET Operand : v \in p <=> Combine(op, v \in a, v \in b)
    PROVE  Computes((c \o d) \o <<PopIns>>, p, waiting)
  <1>1. PopIns \in Instruction
    BY DEF PopIns, Instruction
  <1>2. c \in Seq(Instruction) /\ d \in Seq(Instruction) /\ <<PopIns>> \in Seq(Instruction)
    BY <1>1 DEF Computes
  <1>3. c \o d \in Seq(Instruction) /\ (c \o d) \o <<PopIns>> \in Seq(Instruction)
    BY <1>2
  <1>4. ASSUME NEW v \in SUBSET Operand, NEW s \in State
        PROVE  \E u \in State : /\ Leads((c \o d) \o <<PopIns>>, v, s, u)
                                /\ Reaches(s, waiting, u) /\ u.acc = (v \in p)
    <2>1. PICK s1 \in State : Leads(c, v, s, s1) /\ Reaches(s, waiting, s1) /\ s1.acc = (v \in a)
      BY DEF Computes
    <2>2. PICK s2 \in State : Leads(d, v, s1, s2) /\ Reaches(s1, op, s2) /\ s2.acc = (v \in b)
      BY DEF Computes
    <2>3. Leads(c \o d, v, s, s2)
      BY <1>2, <2>1, <2>2, LeadsOn
    <2>4. \E value \in BOOLEAN : value <=> v \in p
      OBVIOUS
    <2>5. PICK value \in BOOLEAN : value <=> v \in p
      BY <2>4
    <2>6. PICK u \in State : Reaches(s, waiting, u) /\ u.acc = value
      BY StateExists
    <2>7. s1.stack \in Seq(Frame) /\ op # "LD" /\ op \in Operations
      BY DEF State, Operation, Operations
    <2>8. s2.stack = <<[operation |-> op, value |-> s1.acc]>> \o s1.stack /\ s2.out = s1.out
      BY <2>2, <2>7 DEF Reaches
    <2>9. /\ s2.stack # <<>> /\ Tail(s2.stack) = s1.stack
          /\ Head(s2.stack) = [operation |-> op, value |-> s1.acc]
      BY <2>7, <2>8
    <2>10. u.stack = Tail(s2.stack) /\ u.out = s2.out
      BY <2>1, <2>6, <2>8, <2>9 DEF Reaches
    <2>11. u.acc = Combine(op, s1.acc, s2.acc)
      <3>1. Combine(op, v \in a, v \in b) <=> Combine(op, s1.acc, s2.acc)
        BY <2>1, <2>2 DEF Combine, Operation
      <3>2. Combine(op, s1.acc, s2.acc) \in BOOLEAN
        BY DEF Combine, Operation, State
      <3> QED
        BY <2>5, <2>6, <3>1, <3>2
    <2>12. Head(s2.stack).operation = op /\ Head(s2.stack).value = s1.acc
      BY <2>9
    <2>13. Takes(PopIns, v, s2, u)
      BY <2>9, <2>10, <2>11, <2>12 DEF Takes, PopIns
    <2>14. Leads(<<PopIns>>, v, s2, u)
      BY <2>13, LeadsOne
    <2>15. Leads((c \o d) \o <<PopIns>>, v, s, u)
      BY <1>2, <1>3, <2>3, <2>14, LeadsOn
    <2> QED
      BY <2>5, <2>6, <2>15
  <1> QED
    BY <1>3, <1>4 DEF Computes

-----------------------------------------------------------------------------
\* Expressions, or none.
Tree == {Nothing} \cup [tag : {"EXPRESSION"}, code : [Waiting -> Seq(Instruction)]]

\* The tree e computes p, whatever operation waits for it.
Means(e, p) ==
    /\ e \in Tree
    /\ IF e = Nothing THEN p = {}
                      ELSE \A waiting \in Waiting : Computes(e.code[waiting], p, waiting)

\* The tree e computes p where no operation waits for it.
MeansAlone(e, p) == e \in Tree /\ e # Nothing /\ Computes(e.code["LD"], p, "LD")

LEMMA TreeCases ==
    ASSUME NEW e \in Tree
    PROVE  /\ Nothing.tag = "NULL"
           /\ e # Nothing => e.tag = "EXPRESSION" /\ e.code \in [Waiting -> Seq(Instruction)]
  BY DEF Tree, Nothing

\* An expression with a PUSH, and what its items compute.
LEMMA ExpressionComputes ==
    ASSUME NEW a, NEW b \in Tree, NEW op \in Operation, NEW mod, "PUSH" \in mod,
           NEW waiting \in Waiting, NEW p, NEW q, NEW r,
           Computes(Left(a, waiting, mod), p, waiting), Means(b, q),
           b = Nothing => r = p,
           b # Nothing => \A v \in SUBSET Operand : v \in r <=> Combine(op, v \in p, v \in q)
    PROVE  Computes(GenExpr(a, b, op, mod, waiting), r, waiting)
  <1>1. PICK c \in Seq(Instruction) : c = Left(a, waiting, mod)
    BY DEF Computes
  <1>2. CASE b = Nothing
    <2>1. Right(b, op, mod) = <<>> /\ Closing(b, op, mod) = <<>>
      BY <1>2 DEF Right, Closing, Nothing
    <2>2. GenExpr(a, b, op, mod, waiting) = (c \o <<>>) \o <<>>
      BY <1>1, <2>1 DEF GenExpr
    <2>3. (c \o <<>>) \o <<>> = c
      OBVIOUS
    <2> QED
      BY <1>1, <1>2, <2>2, <2>3
  <1>3. CASE b # Nothing
    <2>1. b.tag = "EXPRESSION" /\ op \in Waiting
      BY <1>3, TreeCases DEF Waiting
    <2>2. Right(b, op, mod) = b.code[op] /\ Closing(b, op, mod) = <<PopIns>>
      BY <1>3, <2>1 DEF Right, Closing
    <2>3. GenExpr(a, b, op, mod, waiting) = (c \o b.code[op]) \o <<PopIns>>
      BY <1>1, <2>2 DEF GenExpr
    <2>4. Computes(c, p, waiting) /\ Computes(b.code[op], q, op)
      BY <1>1, <1>3, <2>1 DEF Means
    <2> QED
      BY <1>3, <2>3, <2>4, PopComputes
  <1> QED
    BY <1>2, <1>3

\* gen_expr makes a sequence of instructions of items that are well made.
LEMMA ExpressionTree ==
    ASSUME NEW a, NEW b \in Tree, NEW op \in Operation, NEW mod,
           \A waiting \in Waiting : Left(a, waiting, mod) \in Seq(Instruction)
    PROVE  Expression(a, b, op, mod) \in Tree /\ Expression(a, b, op, mod) # Nothing
  <1>1. ASSUME NEW waiting \in Waiting PROVE GenExpr(a, b, op, mod, waiting) \in Seq(Instruction)
    <2>1. Right(b, op, mod) \in Seq(Instruction)
      <3>1. CASE b = Nothing
        BY <3>1 DEF Right, Nothing
      <3>2. CASE b # Nothing
        <4>1. b.tag = "EXPRESSION" /\ b.code \in [Waiting -> Seq(Instruction)] /\ op \in Waiting
          BY <3>2, TreeCases DEF Waiting
        <4> QED
          BY <4>1 DEF Right
      <3> QED
        BY <3>1, <3>2
    <2>2. Closing(b, op, mod) \in Seq(Instruction)
      <3>1. PopIns \in Instruction
        BY DEF PopIns, Instruction
      <3>2. <<PopIns>> \in Seq(Instruction) /\ <<>> \in Seq(Instruction)
        BY <3>1
      <3> QED
        BY <3>2 DEF Closing
    <2> QED
      BY <2>1, <2>2 DEF GenExpr
  <1>2. [waiting \in Waiting |-> GenExpr(a, b, op, mod, waiting)] \in [Waiting -> Seq(Instruction)]
    BY <1>1
  <1> QED
    BY <1>2 DEF Expression, Tree, Nothing

\* A contact in series with the line before it is an expression.
LEMMA SeriesTree ==
    ASSUME NEW x \in Operand, NEW negated \in BOOLEAN, NEW e \in Tree,
           NEW mod, mod = {"PUSH"} \cup (IF negated THEN {"NEG"} ELSE {})
    PROVE  /\ Expression(Identifier(x), e, "AND", mod) \in Tree
           /\ Expression(Identifier(x), e, "AND", mod) # Nothing
  <1>1. ASSUME NEW waiting \in Waiting PROVE Left(Identifier(x), waiting, mod) \in Seq(Instruction)
    <2> DEFINE i == Ins(waiting, IF waiting \in Operation THEN mod \cup {"PUSH"} ELSE mod \ {"PUSH"}, x)
    <2>1. Left(Identifier(x), waiting, mod) = <<i>>
      BY DEF Left, Identifier
    <2>2. i \in Instruction
      BY DEF Ins, Instruction, Waiting, Operation, Operations, Modifier
    <2> HIDE DEF i
    <2>3. <<i>> \in Seq(Instruction)
      BY <2>2
    <2> QED
      BY <2>1, <2>3
  <1>2. "AND" \in Operation
    BY DEF Operation
  <1> QED
    BY <1>1, <1>2, ExpressionTree

\* A contact in series with the line before it, which means p: a negated one
\* computes what it should only where nothing waits for it.
LEMMA SeriesMeans ==
    ASSUME NEW x \in Operand, NEW negated \in BOOLEAN, NEW e, NEW p, Means(e, p), NEW r,
           \A v \in SUBSET Operand :
              v \in r <=> ((e = Nothing \/ v \in p) /\ (x \in v) # negated),
           NEW f, f = Expression(Identifier(x), e, "AND",
                                 {"PUSH"} \cup (IF negated THEN {"NEG"} ELSE {}))
    PROVE  IF negated THEN MeansAlone(f, r) ELSE Means(f, r)
  <1> DEFINE mod == {"PUSH"} \cup (IF negated THEN {"NEG"} ELSE {})
             s == {v \in SUBSET Operand : (x \in v) # negated}
  <1>1. e \in Tree /\ "AND" \in Operation /\ "PUSH" \in mod
    BY DEF Means, Operation
  <1>2. f \in Tree /\ f # Nothing
    BY <1>1, SeriesTree
  <1>3. ASSUME NEW waiting \in Waiting, negated => waiting = "LD"
        PROVE  Computes(f.code[waiting], r, waiting)
    <2>1. Computes(Left(Identifier(x), waiting, mod), IF e = Nothing THEN r ELSE s, waiting)
      <3>1. \A v \in SUBSET Operand :
               v \in (IF e = Nothing THEN r ELSE s) <=> ((x \in v) # negated)
        OBVIOUS
      <3> QED
        BY <1>3, <3>1, LeftComputes
    <2>2. e # Nothing => \A v \in SUBSET Operand : v \in r <=> Combine("AND", v \in s, v \in p)
      BY DEF Combine
    <2>3. Computes(GenExpr(Identifier(x), e, "AND", mod, waiting), r, waiting)
      <3> HIDE DEF mod, s
      <3>1. CASE e = Nothing
        BY <1>1, <2>1, <3>1, ExpressionComputes
      <3>2. CASE e # Nothing
        BY <1>1, <2>1, <2>2, <3>2, ExpressionComputes
      <3> QED
        BY <3>1, <3>2
    <2>4. f.code[waiting] = GenExpr(Identifier(x), e, "AND", mod, waiting)
      BY DEF Expression
    <2> QED
      BY <2>3, <2>4
  <1>4. "LD" \in Waiting
    BY DEF Waiting
  <1> QED
    BY <1>2, <1>3, <1>4 DEF Means, MeansAlone

\* A line in parallel with lines joined before it.
LEMMA ParallelMeans ==
    ASSUME NEW a, NEW p, Means(a, p), a # Nothing, NEW b, NEW q, Means(b, q),
           NEW f, f = Expression(a, b, "OR", {"PUSH"})
    PROVE  Means(f, p \cup q)
  <1>1. /\ a \in Tree /\ b \in Tree /\ "OR" \in Operation /\ "PUSH" \in {"PUSH"}
        /\ a.tag = "EXPRESSION" /\ a.code \in [Waiting -> Seq(Instruction)]
    BY TreeCases DEF Means, Operation
  <1>2. \A waiting \in Waiting : Left(a, waiting, {"PUSH"}) = a.code[waiting]
    BY <1>1 DEF Left
  <1>3. f \in Tree /\ f # Nothing
    BY <1>1, <1>2, ExpressionTree
  <1>4. ASSUME NEW waiting \in Waiting PROVE Computes(f.code[waiting], p \cup q, waiting)
    <2>1. Computes(Left(a, waiting, {"PUSH"}), p, waiting)
      BY <1>2 DEF Means
    <2>2. b = Nothing => p \cup q = p
      BY DEF Means
    <2>3. \A v \in SUBSET Operand : v \in p \cup q <=> Combine("OR", v \in p, v \in q)
      BY DEF Combine
    <2>4. Computes(GenExpr(a, b, "OR", {"PUSH"}, waiting), p \cup q, waiting)
      BY <1>1, <2>1, <2>2, <2>3, ExpressionComputes
    <2> QED
      BY <2>4 DEF Expression
  <1> QED
    BY <1>3, <1>4 DEF Means

-----------------------------------------------------------------------------
(* A ladder while it is drawn.                                             *)

CoilType == {"none", "COIL", "DOWN", "SET", "RESET"}

\* The tree of each line computes its meaning.
LinesMean ==
    \A l \in Line :
        IF l \in sealed THEN MeansAlone(stmt[l], power[l]) ELSE Means(stmt[l], power[l])

LEMMA Lines ==
    /\ Cardinality(Line) \in Nat
    /\ Line = 1 .. Cardinality(Line)
  BY LineAssumption, FS_CardinalityType DEF Line

\* The OR of lines is made line by line.
LEMMA JoinedSteps ==
    ASSUME NEW joint \in SUBSET Line, \A l \in joint : stmt[l] \in Tree,
           NEW n \in Nat, n = Cardinality(Line)
    PROVE  \E f \in [0 .. n -> Tree] :
              /\ f[0] = Nothing /\ Joined(joint) = f[n]
              /\ \A l \in 1 .. n : f[l] = IF l \in joint /\ stmt[l] # Nothing
                                         THEN Expression(stmt[l], f[l - 1], "OR", {"PUSH"})
                                         ELSE f[l - 1]
  <1> DEFINE Then(l, e) == IF l \in joint /\ stmt[l] # Nothing
                           THEN Expression(stmt[l], e, "OR", {"PUSH"}) ELSE e
             Steps(f) == f = [l \in 0 .. n |-> IF l = 0 THEN Nothing ELSE Then(l, f[l - 1])]
  <1>1. ASSUME NEW l \in 1 .. n, NEW e \in Tree PROVE Then(l, e) \in Tree
    <2>1. CASE l \in joint /\ stmt[l] # Nothing
      <3>1. stmt[l] \in Tree /\ stmt[l].tag = "EXPRESSION"
            /\ stmt[l].code \in [Waiting -> Seq(Instruction)]
        BY <2>1, TreeCases
      <3>2. \A waiting \in Waiting : Left(stmt[l], waiting, {"PUSH"}) \in Seq(Instruction)
        BY <3>1 DEF Left
      <3>3. "OR" \in Operation
        BY DEF Operation
      <3> QED
        BY <2>1, <3>2, <3>3, ExpressionTree
    <2>2. CASE ~(l \in joint /\ stmt[l] # Nothing)
      BY <2>2
    <2> QED
      BY <2>1, <2>2
  <1> HIDE DEF Then
  <1>2. \E f : Steps(f)
    <2>1. \E H \in [(1 .. n) \X Tree -> Tree] :
              \A l \in 1 .. n, e \in Tree : H[<<l, e>>] = Then(l, e)
      <3> DEFINE G == [x \in (1 .. n) \X Tree |-> Then(x[1], x[2])]
      <3>1. G \in [(1 .. n) \X Tree -> Tree]
        BY <1>1
      <3>2. \A l \in 1 .. n, e \in Tree : G[<<l, e>>] = Then(l, e)
        OBVIOUS
      <3> QED
        BY <3>1, <3>2
    <2>2. PICK H \in [(1 .. n) \X Tree -> Tree] :
             \A l \in 1 .. n, e \in Tree : H[<<l, e>>] = Then(l, e)
      BY <2>1
    <2>3. PICK g \in [0 .. n -> Tree] :
             g[0] = Nothing /\ \A l \in 1 .. n : g[l] = H[<<l, g[l - 1]>>]
      <3>1. Nothing \in Tree
        BY DEF Tree
      <3> HIDE DEF Tree, Nothing
      <3>2. Recursed(n, Tree, Nothing, H)
        BY <3>1, Recursion
      <3> QED
        BY <3>2 DEF Recursed
    <2>4. ASSUME NEW l \in 0 .. n PROVE g[l] = IF l = 0 THEN Nothing ELSE Then(l, g[l - 1])
      <3>1. CASE l = 0
        BY <2>3, <3>1
      <3>2. CASE l # 0
        <4>1. l \in 1 .. n /\ l - 1 \in 0 .. n
          BY <3>2
        <4> QED
          BY <2>2, <2>3, <3>2, <4>1
      <3> QED
        BY <3>1, <3>2
    <2>5. Steps(g)
      BY <2>4
    <2> QED
      BY <2>5
  <1>3. \E f : Steps(f) /\ Joined(joint) = f[n]
    <2>1. Joined(joint) = (CHOOSE f : Steps(f))[n]
      BY DEF Joined, Then
    <2> HIDE DEF Steps
    <2>2. Steps(CHOOSE f : Steps(f))
      BY <1>2
    <2> QED
      BY <2>1, <2>2
  <1>4. PICK f : Steps(f) /\ Joined(joint) = f[n]
    BY <1>3
  <1>5. f[0] = Nothing /\ \A l \in 1 .. n : f[l] = Then(l, f[l - 1])
    BY <1>4
  <1> DEFINE S == {l \in 0 .. n : f[l] \in Tree}
  <1>6. 0 \in S
    BY <1>5 DEF Tree
  <1>7. ASSUME NEW l \in 1 .. n, l - 1 \in S PROVE l \in S
    BY <1>1, <1>5, <1>7
  <1> HIDE DEF S
  <1>8. \A l \in 0 .. n : l \in S
    BY <1>6, <1>7, Induction
  <1>9. f \in [0 .. n -> Tree]
    BY <1>4, <1>8 DEF S
  <1> QED
    BY <1>4, <1>5, <1>9 DEF Then

\* The OR that lines go on with after a node computes the union of theirs.
LEMMA JoinedMeans ==
    ASSUME NEW joint \in SUBSET Line, \A l \in joint : Means(stmt[l], power[l])
    PROVE  Means(Joined(joint), UNION {power[l] : l \in joint})
  <1>1. PICK n \in Nat : n = Cardinality(Line)
    BY Lines
  <1>2. \A j \in joint : j \in Nat /\ 1 <= j /\ j <= n
    <2>1. \A j \in 1 .. n : j \in Nat /\ 1 <= j /\ j <= n
      OBVIOUS
    <2>2. Line = 1 .. n
      BY <1>1, Lines
    <2> QED
      BY <2>1, <2>2
  <1>3. \A l \in joint : stmt[l] \in Tree
    BY DEF Means
  <1> DEFINE Then(l, e) == IF l \in joint /\ stmt[l] # Nothing
                           THEN Expression(stmt[l], e, "OR", {"PUSH"}) ELSE e
  <1>4. PICK f \in [0 .. n -> Tree] : /\ f[0] = Nothing /\ Joined(joint) = f[n]
                                      /\ \A l \in 1 .. n : f[l] = Then(l, f[l - 1])
    BY <1>1, <1>3, JoinedSteps
  <1> DEFINE P(l) == UNION {power[k] : k \in {j \in joint : j <= l}}
             S == {l \in 0 .. n : Means(f[l], P(l))}
  <1>5. 0 \in S
    <2>1. {j \in joint : j <= 0} = {}
      BY <1>2
    <2>2. P(0) = {} /\ f[0] = Nothing
      BY <1>4, <2>1
    <2> QED
      BY <2>2 DEF Means, Tree
  <1>6. ASSUME NEW l \in 1 .. n, l - 1 \in S PROVE l \in S
    <2>1. l \in 0 .. n /\ l # 0 /\ Means(f[l - 1], P(l - 1))
      BY <1>6
    <2>2. f[l] = Then(l, f[l - 1])
      BY <1>4
    <2>3. CASE l \in joint
      <3>1. {j \in joint : j <= l} = {j \in joint : j <= l - 1} \cup {l}
        <4>1. \A j \in joint : j <= l <=> (j <= l - 1 \/ j = l)
          BY <1>2
        <4>2. l <= l
          OBVIOUS
        <4> QED
          BY <2>3, <4>1, <4>2
      <3>2. P(l) = power[l] \cup P(l - 1)
        BY <3>1
      <3>3. CASE stmt[l] = Nothing
        <4>1. power[l] = {} /\ f[l] = f[l - 1]
          BY <2>2, <2>3, <3>3 DEF Means
        <4> QED
          BY <2>1, <3>2, <4>1
      <3>4. CASE stmt[l] # Nothing
        <4>1. f[l] = Expression(stmt[l], f[l - 1], "OR", {"PUSH"}) /\ Means(stmt[l], power[l])
          BY <2>2, <2>3, <3>4
        <4> HIDE DEF P
        <4>2. Means(f[l], power[l] \cup P(l - 1))
          BY <2>1, <3>4, <4>1, ParallelMeans
        <4> QED
          BY <2>1, <3>2, <4>2
      <3> QED
        BY <3>3, <3>4
    <2>4. CASE l \notin joint
      <3>1. {j \in joint : j <= l} = {j \in joint : j <= l - 1}
        BY <1>2, <2>4
      <3>2. P(l) = P(l - 1) /\ f[l] = f[l - 1]
        BY <2>2, <2>4, <3>1
      <3> QED
        BY <2>1, <3>2
    <2> QED
      BY <2>3, <2>4
  <1>7. n \in S
    <2> HIDE DEF S
    <2>1. \A k \in 0 .. n : k \in S
      BY <1>5, <1>6, Induction
    <2> QED
      BY <2>1
  <1>8. {j \in joint : j <= n} = joint
    BY <1>2
  <1> QED
    BY <1>4, <1>7, <1>8

-----------------------------------------------------------------------------
(* The code of a ladder.                                                   *)

\* With the inputs v the coils up to line n have followed the circuit, and the
\* others have been left alone.
Followed(effects, n, v) ==
    \A l \in Line : effects[l] = IF l <= n THEN Effects(coil[l], v \in power[l]) ELSE "none"

\* Whatever the inputs, the code c pops what it pushes, and makes the coils up
\* to line n follow the circuit.
Follows(c, n) ==
    /\ c \in Seq(Instruction)
    /\ \A v \in SUBSET Operand, s \in State :
          s.out = Untouched =>
              \E u \in State :
                  Leads(c, v, s, u) /\ u.stack = s.stack /\ Followed(u.out, n, v)

\* One more coil.
LEMMA CoilFollows ==
    ASSUME NEW c, NEW n \in Line, Follows(c, n - 1), coil[n] \in CoilType \ {"none"},
           Computes(stmt[n].code["LD"], power[n], "LD")
    PROVE  Follows(c \o GenAss(coil[n], n, stmt[n]), n)
  <1>1. PICK i : i = CoilIns(coil[n], n)
    OBVIOUS
  <1>2. PICK e : e = stmt[n].code["LD"]
    OBVIOUS
  <1>3. /\ i \in Instruction /\ i.operand = n /\ i.operation \in {"ST", "S", "R"}
        /\ i.operation # "ST" => i.modifier = {"COND"}
    <2>1. {} \in Modifier /\ {"NEG"} \in Modifier /\ {"COND"} \in Modifier
      BY DEF Modifier
    <2> QED
      BY <1>1, <2>1 DEF CoilIns, Ins, Instruction, CoilType, Line
  <1>4. ASSUME NEW a \in BOOLEAN
        PROVE  /\ Driven(i, a, "none") = Effects(coil[n], a)
               /\ Driven(i, a, "none") \in Effect
    BY <1>1 DEF Driven, Effects, CoilIns, Ins, CoilType, Effect
  <1>5. c \in Seq(Instruction) /\ e \in Seq(Instruction) /\ <<i>> \in Seq(Instruction)
    BY <1>2, <1>3 DEF Follows, Computes
  <1>6. /\ c \o GenAss(coil[n], n, stmt[n]) = (c \o e) \o <<i>>
        /\ c \o e \in Seq(Instruction) /\ (c \o e) \o <<i>> \in Seq(Instruction)
    <2>1. GenAss(coil[n], n, stmt[n]) = e \o <<i>>
      BY <1>1, <1>2 DEF GenAss
    <2>2. c \o (e \o <<i>>) = (c \o e) \o <<i>>
      BY <1>5
    <2> QED
      BY <1>5, <2>1, <2>2
  <1>7. ASSUME NEW v \in SUBSET Operand, NEW s \in State, s.out = Untouched
        PROVE  \E u \in State :
                  /\ Leads((c \o e) \o <<i>>, v, s, u)
                  /\ u.stack = s.stack /\ Followed(u.out, n, v)
    <2>1. PICK s1 \in State :
             Leads(c, v, s, s1) /\ s1.stack = s.stack /\ Followed(s1.out, n - 1, v)
      BY <1>7 DEF Follows
    <2>2. PICK s2 \in State :
             Leads(e, v, s1, s2) /\ Reaches(s1, "LD", s2) /\ s2.acc = (v \in power[n])
      BY <1>2 DEF Computes
    <2>3. Leads(c \o e, v, s, s2)
      BY <1>5, <2>1, <2>2, LeadsOn
    <2>4. s2.stack = s.stack /\ s2.out = s1.out
      BY <2>1, <2>2 DEF Reaches
    <2>5. n \in Nat /\ Line \subseteq Nat
      BY Lines
    <2>6. s2.out[n] = "none" /\ s2.out \in [Coil -> Effect] /\ s2.acc \in BOOLEAN /\ n \in Coil
      BY <2>1, <2>4, <2>5 DEF State, Line, Followed
    <2> DEFINE u == [s2 EXCEPT !.out = [s2.out EXCEPT ![n] = Driven(i, s2.acc, "none")]]
    <2>7. /\ u.acc = s2.acc /\ u.stack = s2.stack
          /\ u.out = [s2.out EXCEPT ![n] = Driven(i, s2.acc, "none")]
      BY DEF State
    <2>8. u \in State
      BY <1>4, <2>6 DEF State
    <2> HIDE DEF u
    <2>9. Takes(i, v, s2, u)
      BY <1>3, <2>6, <2>7 DEF Takes
    <2>10. Leads(<<i>>, v, s2, u)
      BY <2>8, <2>9, LeadsOne
    <2>11. Leads((c \o e) \o <<i>>, v, s, u)
      BY <1>5, <1>6, <2>3, <2>10, LeadsOn
    <2>12. ASSUME NEW l \in Line
           PROVE  u.out[l] = IF l <= n THEN Effects(coil[l], v \in power[l]) ELSE "none"
      <3>1. CASE l = n
        <4>1. u.out[n] = Effects(coil[n], s2.acc)
          BY <1>4, <2>6, <2>7
        <4> QED
          BY <2>2, <2>5, <3>1, <4>1
      <3>2. CASE l # n
        <4>1. u.out[l] = s1.out[l]
          BY <2>4, <2>6, <2>7, <3>2 DEF Line
        <4>2. (l <= n) <=> (l <= n - 1)
          BY <2>5, <3>2
        <4> QED
          BY <2>1, <4>1, <4>2 DEF Followed
      <3> QED
        BY <3>1, <3>2
    <2>13. Followed(u.out, n, v)
      BY <2>12 DEF Followed
    <2> QED
      BY <2>4, <2>7, <2>8, <2>11, <2>13
  <1> QED
    BY <1>6, <1>7 DEF Follows

\* The instructions of a coil and its line.
LEMMA AssignmentType ==
    ASSUME NEW e \in Tree, e # Nothing, NEW l \in Line, NEW type \in CoilType \ {"none"}
    PROVE  GenAss(type, l, e) \in Seq(Instruction)
  <1>1. CoilIns(type, l) \in Instruction
    <2>1. {} \in Modifier /\ {"NEG"} \in Modifier /\ {"COND"} \in Modifier
      BY DEF Modifier
    <2> QED
      BY <2>1 DEF CoilIns, Ins, Instruction, CoilType, Line
  <1>2. e.code["LD"] \in Seq(Instruction) /\ <<CoilIns(type, l)>> \in Seq(Instruction)
    BY <1>1, TreeCases DEF Waiting
  <1>3. e.code["LD"] \o <<CoilIns(type, l)>> \in Seq(Instruction)
    BY <1>2
  <1> QED
    BY <1>3 DEF GenAss

\* The code of a ladder is made line by line.
LEMMA GeneratedSteps ==
    ASSUME \A l \in Line : stmt[l] \in Tree /\ coil[l] \in CoilType,
           \A l \in Line : coil[l] # "none" => stmt[l] # Nothing,
           NEW n \in Nat, n = Cardinality(Line)
    PROVE  \E f \in [0 .. n -> Seq(Instruction)] :
              /\ f[0] = <<>> /\ Generated = f[n]
              /\ \A l \in 1 .. n : f[l] = IF coil[l] = "none" THEN f[l - 1]
                                         ELSE f[l - 1] \o GenAss(coil[l], l, stmt[l])
  <1> DEFINE Then(l, c) == IF coil[l] = "none" THEN c ELSE c \o GenAss(coil[l], l, stmt[l])
             Steps(f) == f = [l \in 0 .. n |-> IF l = 0 THEN <<>> ELSE Then(l, f[l - 1])]
             X == Seq(Instruction)
  <1>1. ASSUME NEW l \in 1 .. n, NEW c \in X PROVE Then(l, c) \in X
    <2>1. l \in Line
      BY Lines
    <2>2. coil[l] # "none" => GenAss(coil[l], l, stmt[l]) \in X
      BY <2>1, AssignmentType
    <2> QED
      BY <2>2
  <1> HIDE DEF Then
  <1>2. \E f : Steps(f)
    <2>1. \E H \in [(1 .. n) \X X -> X] : \A l \in 1 .. n, c \in X : H[<<l, c>>] = Then(l, c)
      <3> DEFINE G == [x \in (1 .. n) \X X |-> Then(x[1], x[2])]
      <3>1. G \in [(1 .. n) \X X -> X]
        BY <1>1
      <3>2. \A l \in 1 .. n, c \in X : G[<<l, c>>] = Then(l, c)
        OBVIOUS
      <3> QED
        BY <3>1, <3>2
    <2>2. PICK H \in [(1 .. n) \X X -> X] : \A l \in 1 .. n, c \in X : H[<<l, c>>] = Then(l, c)
      BY <2>1
    <2>3. PICK g \in [0 .. n -> X] : g[0] = <<>> /\ \A l \in 1 .. n : g[l] = H[<<l, g[l - 1]>>]
      <3>1. <<>> \in X
        OBVIOUS
      <3> HIDE DEF X
      <3>2. Recursed(n, X, <<>>, H)
        BY <3>1, Recursion
      <3> QED
        BY <3>2 DEF Recursed
    <2>4. ASSUME NEW l \in 0 .. n PROVE g[l] = IF l = 0 THEN <<>> ELSE Then(l, g[l - 1])
      <3>1. CASE l = 0
        BY <2>3, <3>1
      <3>2. CASE l # 0
        <4>1. l \in 1 .. n /\ l - 1 \in 0 .. n
          BY <3>2
        <4> HIDE DEF X
        <4> QED
          BY <2>2, <2>3, <3>2, <4>1
      <3> QED
        BY <3>1, <3>2
    <2>5. Steps(g)
      BY <2>4
    <2> QED
      BY <2>5
  <1>3. \E f : Steps(f) /\ Generated = f[n]
    <2>1. Generated = (CHOOSE f : Steps(f))[n]
      BY DEF Generated, Then
    <2> HIDE DEF Steps
    <2>2. Steps(CHOOSE f : Steps(f))
      BY <1>2
    <2> QED
      BY <2>1, <2>2
  <1>4. PICK f : Steps(f) /\ Generated = f[n]
    BY <1>3
  <1>5. f[0] = <<>> /\ \A l \in 1 .. n : f[l] = Then(l, f[l - 1])
    BY <1>4
  <1> DEFINE S == {l \in 0 .. n : f[l] \in X}
  <1>6. 0 \in S
    <2>1. <<>> \in X /\ 0 \in 0 .. n
      OBVIOUS
    <2> QED
      BY <1>5, <2>1
  <1>7. ASSUME NEW l \in 1 .. n, l - 1 \in S PROVE l \in S
    BY <1>1, <1>5, <1>7
  <1> HIDE DEF S
  <1>8. \A l \in 0 .. n : l \in S
    BY <1>6, <1>7, Induction
  <1>9. f \in [0 .. n -> X]
    BY <1>4, <1>8 DEF S
  <1> QED
    BY <1>4, <1>5, <1>9 DEF Then

\* generate_code: every coil follows its line.
LEMMA GeneratedFollows ==
    ASSUME LinesMean, \A l \in Line : coil[l] \in CoilType,
           \A l \in Line : coil[l] # "none" => stmt[l] # Nothing
    PROVE  Follows(Generated, Cardinality(Line))
  <1>1. PICK n \in Nat : n = Cardinality(Line)
    BY Lines
  <1>2. \A l \in 1 .. n : l \in Line
    BY <1>1, Lines
  <1>3. ASSUME NEW l \in Line, coil[l] # "none"
        PROVE  Computes(stmt[l].code["LD"], power[l], "LD")
    BY <1>3 DEF LinesMean, Means, MeansAlone, Waiting
  <1>4. \A l \in Line : stmt[l] \in Tree
    BY DEF LinesMean, Means, MeansAlone
  <1> DEFINE Then(l, c) == IF coil[l] = "none" THEN c ELSE c \o GenAss(coil[l], l, stmt[l])
  <1>5. PICK f \in [0 .. n -> Seq(Instruction)] :
           /\ f[0] = <<>> /\ Generated = f[n]
           /\ \A l \in 1 .. n : f[l] = Then(l, f[l - 1])
    BY <1>1, <1>4, GeneratedSteps
  <1> DEFINE S == {l \in 0 .. n : Follows(f[l], l)}
  <1>6. 0 \in S
    <2>1. f[0] = <<>>
      BY <1>5
    <2>2. \A l \in Line : ~(l <= 0)
      BY Lines
    <2>3. ASSUME NEW v \in SUBSET Operand, NEW s \in State, s.out = Untouched
          PROVE  Leads(<<>>, v, s, s) /\ Followed(s.out, 0, v)
      BY <2>2, <2>3, LeadsNone DEF Untouched, Line, Followed
    <2>4. Follows(<<>>, 0)
      <3>1. <<>> \in Seq(Instruction)
        OBVIOUS
      <3> QED
        BY <2>3, <3>1 DEF Follows
    <2> QED
      BY <2>1, <2>4
  <1>7. ASSUME NEW l \in 1 .. n, l - 1 \in S PROVE l \in S
    <2>1. l \in 0 .. n /\ l # 0 /\ l \in Line /\ Follows(f[l - 1], l - 1)
      BY <1>2, <1>7
    <2>2. f[l] = Then(l, f[l - 1])
      BY <1>5
    <2>3. CASE coil[l] = "none"
      <3>1. f[l] = f[l - 1]
        BY <2>2, <2>3
      <3>2. \A v : Effects(coil[l], v \in power[l]) = "none"
        BY <2>3 DEF Effects
      <3>3. \A k \in Line : k <= l <=> (k <= l - 1 \/ k = l)
        BY Lines
      <3>4. ASSUME NEW v, NEW effects, Followed(effects, l - 1, v) PROVE Followed(effects, l, v)
        BY <3>2, <3>3, <3>4 DEF Followed
      <3>5. Follows(f[l - 1], l)
        BY <2>1, <3>4 DEF Follows
      <3> QED
        BY <2>1, <3>1, <3>5
    <2>4. CASE coil[l] # "none"
      <3>1. f[l] = f[l - 1] \o GenAss(coil[l], l, stmt[l])
        BY <2>2, <2>4
      <3>2. coil[l] \in CoilType \ {"none"} /\ Computes(stmt[l].code["LD"], power[l], "LD")
        BY <1>3, <2>1, <2>4
      <3>3. Follows(f[l - 1] \o GenAss(coil[l], l, stmt[l]), l)
        BY <2>1, <3>2, CoilFollows
      <3> QED
        BY <2>1, <3>1, <3>3
    <2> QED
      BY <2>3, <2>4
  <1>8. n \in S
    <2> HIDE DEF S
    <2>1. \A k \in 0 .. n : k \in S
      BY <1>6, <1>7, Induction
    <2> QED
      BY <2>1
  <1> QED
    BY <1>1, <1>5, <1>8

-----------------------------------------------------------------------------
\* Code that gives back the stack it found goes no deeper than half its length.
LEMMA TraceDepth ==
    ASSUME NEW c \in Seq(Instruction), NEW v, NEW t, Trace(c, v, t),
           t[Len(c)].stack = t[0].stack, NEW k \in 0 .. Len(c)
    PROVE  Len(t[k].stack) <= Len(t[0].stack) + Len(c) \div 2
  <1>1. PICK n \in Nat : n = Len(c)
    OBVIOUS
  <1> DEFINE depth == [j \in 0 .. n |-> Len(t[j].stack)]
  <1>2. \A j \in 0 .. n : t[j] \in State /\ t[j].stack \in Seq(Frame) /\ Len(t[j].stack) \in Nat
    BY <1>1 DEF Trace, State
  <1>3. depth \in [0 .. n -> Nat]
    BY <1>2
  <1>4. ASSUME NEW j \in 1 .. n
        PROVE  depth[j] <= depth[j - 1] + 1 /\ depth[j - 1] <= depth[j] + 1
    <2>1. j \in 0 .. n /\ j - 1 \in 0 .. n
      OBVIOUS
    <2>2. Takes(c[j], v, t[j - 1], t[j])
      BY <1>1 DEF Trace
    <2>3. PICK a \in Seq(Frame) : a = t[j - 1].stack
      BY <1>2, <2>1
    <2>4. PICK b \in Seq(Frame) : b = t[j].stack
      BY <1>2, <2>1
    <2>5. b = a \/ (a # <<>> /\ b = Tail(a)) \/ \E x : b = <<x>> \o a
      BY <2>2, <2>3, <2>4 DEF Takes
    <2>6. ASSUME NEW x, b = <<x>> \o a PROVE Len(b) = Len(a) + 1
      BY <2>6
    <2>7. a # <<>> => Len(Tail(a)) = Len(a) - 1
      OBVIOUS
    <2>8. Len(a) \in Nat /\ Len(b) \in Nat
      OBVIOUS
    <2>9. Len(b) = Len(a) \/ Len(b) = Len(a) - 1 \/ Len(b) = Len(a) + 1
      BY <2>5, <2>6, <2>7
    <2>10. Len(b) <= Len(a) + 1 /\ Len(a) <= Len(b) + 1
      BY <2>8, <2>9
    <2> QED
      BY <2>1, <2>3, <2>4, <2>10
  <1>5. depth[0] = depth[n]
    BY <1>1
  <1>6. depth[k] = Len(t[k].stack) /\ depth[0] = Len(t[0].stack) /\ k \in 0 .. n
    BY <1>1
  <1> HIDE DEF depth
  <1>7. depth[k] <= depth[0] + k
    BY <1>3, <1>4, <1>6, Growth
  <1>8. depth[k] <= depth[n] + (n - k)
    BY <1>3, <1>4, <1>6, Descent
  <1>9. depth[k] \in Nat /\ depth[0] \in Nat
    BY <1>3, <1>6
  <1>10. depth[k] <= depth[0] + n \div 2
    <2>1. n \in Nat /\ k \in Nat /\ k <= n
      BY <1>6
    <2>2. PICK h \in Nat : h = n \div 2 /\ (n = 2 * h \/ n = 2 * h + 1)
      OBVIOUS
    <2>3. depth[k] <= depth[0] + (n - k)
      BY <1>5, <1>8
    <2> QED
      BY <1>7, <1>9, <2>1, <2>2, <2>3
  <1> QED
    BY <1>1, <1>6, <1>10

-----------------------------------------------------------------------------
(* The machine of a rung: types, the bound of its stack, and what a        *)
(* failing operand keeps from being executed.                              *)

\* What an instruction of each operation has for an operand.
LEMMA InstructionFields ==
    ASSUME NEW i \in Instruction
    PROVE  /\ i.operation \in Operations => i.operation \in {"AND", "OR", "XOR"}
           /\ i.operation \in {"ST", "S", "R"} => i.operand \in Coil
           /\ i.operation = "JMP" => i.operand \in Nat
  BY DEF Instruction, Operations

\* The instruction a task executes is one of the rung.
LEMMA CurrentInstruction ==
    ASSUME TypeOK, pc < Len(code)
    PROVE  Current \in Instruction
  BY DEF TypeOK, Current

\* A push adds a frame below the limit or nothing.
LEMMA PushBounded ==
    ASSUME TypeOK, NEW op \in Operations, NEW a \in BOOLEAN
    PROVE  Pushed(op, a) \in Seq(Frame) /\ Len(Pushed(op, a)) < MAXSTACK
  <1> DEFINE frame == [operation |-> op, value |-> a]
  <1>1. frame \in Frame
    BY DEF Frame
  <1>2. CASE Len(stack) < MAXSTACK - 1
    <2>1. stack \in Seq(Frame) /\ <<frame>> \in Seq(Frame)
      BY <1>1 DEF TypeOK
    <2> HIDE DEF frame
    <2>2. /\ <<frame>> \o stack \in Seq(Frame)
          /\ Len(<<frame>> \o stack) = 1 + Len(stack)
      BY <2>1
    <2>3. Pushed(op, a) = <<frame>> \o stack
      BY <1>2 DEF Pushed, frame
    <2> QED
      BY <1>2, <2>1, <2>2, <2>3, MAXSTACKAssumption
  <1>3. CASE ~(Len(stack) < MAXSTACK - 1)
    BY <1>3 DEF Pushed, TypeOK
  <1> QED
    BY <1>2, <1>3

\* Operations on bits give bits.
LEMMA OperateBoolean ==
    ASSUME NEW op \in Operations, NEW n \in BOOLEAN, NEW a \in BOOLEAN, NEW b \in BOOLEAN
    PROVE  Operate(op, n, a, b) \in BOOLEAN
  BY DEF Operate, Combine, Operations

-----------------------------------------------------------------------------
\* The inductive invariant: a scan that may still be cut short is not the last.
RungInv == TypeOK /\ (phase = "scan" => cuts < Cuts)

USE MAXSTACKAssumption, CutsAssumption

LEMMA UntouchedType == Untouched \in [Coil -> Effect]
  BY DEF Untouched, Effect

LEMMA InitRung == Init => RungInv
  <1> SUFFICES ASSUME Init PROVE RungInv
    OBVIOUS
  <1>1. code \in Seq(Instruction)
    BY DEF Init
  <1>2. stack \in Seq(Frame) /\ Len(stack) < MAXSTACK
    BY DEF Init
  <1>3. cuts \in 0 .. Cuts /\ cuts < Cuts
    BY DEF Init
  <1>4. /\ phase \in {"draw", "host", "scan"} /\ acc \in BOOLEAN
        /\ pc \in Nat /\ bits \in SUBSET Present
    BY DEF Init
  <1>5. out \in [Coil -> Effect]
    BY UntouchedType DEF Init
  <1> QED
    BY <1>1, <1>2, <1>3, <1>4, <1>5 DEF TypeOK, RungInv

\* No instruction spoils a type: accumulator and stack hold bits, and the
\* coils of this scan their effects.
LEMMA InstructStep == RungInv /\ Instruct => RungInv'
  <1> SUFFICES ASSUME RungInv, Instruct PROVE RungInv'
    OBVIOUS
  <1> USE DEF RungInv
  <1>1. TypeOK /\ phase = "scan" /\ cuts < Cuts /\ pc < Len(code)
    BY DEF Instruct, Load, Apply, PushAndLoad, Pop, Store, Latch, Jump, Nop, Fail, Executing
  <1>2. Current \in Instruction
    BY <1>1, CurrentInstruction
  <1>3. Value \in BOOLEAN /\ Negated \in BOOLEAN /\ pc + 1 \in Nat
    BY <1>1 DEF Value, Negated, TypeOK
  <1>4. Current.operation \in Operations =>
            /\ Operate(Current.operation, Negated, acc, Value) \in BOOLEAN
            /\ Operate(Current.operation, Negated, acc, FALSE) \in BOOLEAN
            /\ Pushed(Current.operation, acc) \in Seq(Frame)
            /\ Len(Pushed(Current.operation, acc)) < MAXSTACK
    BY <1>1, <1>3, OperateBoolean, PushBounded DEF TypeOK
  <1>5. CASE Load
    BY <1>1, <1>3, <1>5 DEF Load, Continue, TypeOK
  <1>6. CASE Apply
    BY <1>1, <1>3, <1>4, <1>6 DEF Apply, Executing, Continue, TypeOK
  <1>7. CASE PushAndLoad
    BY <1>1, <1>3, <1>4, <1>7 DEF PushAndLoad, Executing, Continue, TypeOK
  <1>8. CASE Pop
    <2>1. acc' \in BOOLEAN /\ stack' \in Seq(Frame) /\ Len(stack') < MAXSTACK
      <3>1. CASE stack = <<>>
        <4>1. acc' = acc /\ stack' = stack
          BY <1>8, <3>1 DEF Pop
        <4> QED
          BY <1>1, <4>1 DEF TypeOK
      <3>2. CASE stack # <<>>
        <4>1. Head(stack) \in Frame /\ Tail(stack) \in Seq(Frame)
              /\ Len(Tail(stack)) = Len(stack) - 1
          BY <1>1, <3>2 DEF TypeOK
        <4>2. Head(stack).operation \in Operations /\ Head(stack).value \in BOOLEAN
          BY <4>1 DEF Frame
        <4>3. Operate(Head(stack).operation, FALSE, Head(stack).value, acc) \in BOOLEAN
          BY <1>1, <4>2, OperateBoolean DEF TypeOK
        <4>4. acc' = Operate(Head(stack).operation, FALSE, Head(stack).value, acc)
              /\ stack' = Tail(stack)
          BY <1>8, <3>2 DEF Pop
        <4>5. acc' \in BOOLEAN /\ stack' \in Seq(Frame) /\ Len(stack') = Len(stack) - 1
          BY <4>1, <4>3, <4>4
        <4>6. Len(stack) < MAXSTACK /\ Len(stack) \in Nat
          BY <1>1 DEF TypeOK
        <4> QED
          BY <4>5, <4>6
      <3> QED
        BY <3>1, <3>2
    <2> QED
      BY <1>1, <1>3, <1>8, <2>1 DEF Pop, Continue, TypeOK
  <1>9. ASSUME NEW effect \in Effect, Current.operand \in Coil, Write(effect)
        PROVE  RungInv'
    BY <1>1, <1>3, <1>9 DEF Write, Continue, TypeOK
  <1>10. CASE Store
    <2>1. Current.operand \in Coil
      BY <1>2, <1>10, InstructionFields DEF Store, Executing
    <2> QED
      BY <1>9, <1>10, <2>1 DEF Store, Effect
  <1>11. CASE Latch
    <2>1. Current.operand \in Coil
      BY <1>2, <1>11, InstructionFields DEF Latch, Executing
    <2>2. out[Current.operand] \in Effect
      BY <1>1, <2>1 DEF TypeOK
    <2> QED
      BY <1>9, <1>11, <2>1, <2>2 DEF Latch, Effect
  <1>12. CASE Jump
    <2>1. Current.operand \in Nat
      BY <1>2, <1>12, InstructionFields DEF Jump, Executing
    <2> QED
      BY <1>1, <1>3, <1>12, <2>1 DEF Jump, TypeOK
  <1>13. CASE Nop
    BY <1>1, <1>3, <1>13 DEF Nop, Continue, TypeOK
  <1>14. CASE Fail
    <2>1. acc' \in BOOLEAN /\ stack' \in Seq(Frame) /\ Len(stack') < MAXSTACK
      <3>1. Current.operation \in {"LD"} \cup Operations /\ "LD" \notin Operations
        BY <1>14 DEF Fail, Executing, Operations
      <3>2. CASE Current.operation = "LD"
        <4>1. acc' = acc /\ stack' = stack
          BY <1>14, <3>2 DEF Fail
        <4> QED
          BY <1>1, <4>1 DEF TypeOK
      <3>3. CASE Current.operation \in Operations /\ Pushes
        <4>1. acc' = acc /\ stack' = Pushed(Current.operation, acc)
          BY <1>14, <3>1, <3>3 DEF Fail
        <4> QED
          BY <1>1, <1>4, <3>3, <4>1 DEF TypeOK
      <3>4. CASE Current.operation \in Operations /\ ~Pushes
        <4>1. acc' = Operate(Current.operation, Negated, acc, FALSE) /\ stack' = stack
          BY <1>14, <3>1, <3>4 DEF Fail
        <4> QED
          BY <1>1, <1>4, <3>4, <4>1 DEF TypeOK
      <3> QED
        BY <3>1, <3>2, <3>3, <3>4
    <2> QED
      BY <1>1, <1>14, <2>1, UntouchedType DEF Fail, Leave, TypeOK
  <1> QED
    BY <1>5, <1>6, <1>7, <1>8, <1>10, <1>11, <1>12, <1>13, <1>14 DEF Instruct

LEMMA RungStep == RungInv /\ [Next]_vars => RungInv'
  <1> SUFFICES ASSUME RungInv, [Next]_vars PROVE RungInv'
    OBVIOUS
  <1> USE DEF RungInv, TypeOK
  <1>1. ASSUME NEW program \in Programs, Install(program)
        PROVE  RungInv'
    BY <1>1, ProgramsAssumption DEF Install
  <1>2. CASE BeginScan
    BY <1>2 DEF BeginScan
  <1>3. CASE Instruct
    BY <1>3, InstructStep
  <1>4. CASE EndScan
    BY <1>4, UntouchedType DEF EndScan, Leave
  <1>5. CASE TimeOut
    BY <1>5, UntouchedType DEF TimeOut, Leave
  <1>6. CASE Restart
    <2>1. stack' \in Seq(Frame) /\ Len(stack') = 0
      BY <1>6 DEF Restart
    <2>2. acc' \in BOOLEAN /\ cuts' = 0 /\ phase' = "host"
      BY <1>6 DEF Restart
    <2> QED
      BY <1>6, <2>1, <2>2 DEF Restart
  <1>7. CASE UNCHANGED vars
    BY <1>7 DEF vars
  <1> QED
    BY <1>1, <1>2, <1>3, <1>4, <1>5, <1>6, <1>7 DEF Next, Scan

\* The stack of a rung never leaves its preallocated frames, and no
\* instruction, failure or timeout spoils a type, whatever program is executed
\* and whatever earlier scans have left (take, push, pop, handle_stackable).
THEOREM RungType == Spec => []TypeOK
  <1>1. RungInv => TypeOK
    BY DEF RungInv
  <1> QED
    BY <1>1, InitRung, RungStep, PTL DEF Spec

-----------------------------------------------------------------------------
(* What a scan has behind it.                                              *)

\* The instruction k of the rung reads nothing that is not there.
ReadsPresent(k) ==
    code[k].operation \in {"LD"} \cup Operations => code[k].operand \in Present

\* Between scans pc is 0, and in a scan of straight code everything before it
\* has been executed.
Passed ==
    /\ phase # "scan" => pc = 0
    /\ (Straight /\ phase = "scan") => \A k \in 1 .. pc : ReadsPresent(k)

LEMMA InitPassed == Init => Passed
  BY DEF Init, Passed

\* An instruction that goes on has read its operand, if it has one.
LEMMA InstructPassed == RungInv /\ Passed /\ Instruct => Passed'
  <1> SUFFICES ASSUME RungInv, Passed, Instruct PROVE Passed'
    OBVIOUS
  <1>1. /\ phase = "scan" /\ pc < Len(code) /\ pc \in Nat
        /\ code \in Seq(Instruction)
    BY DEF Instruct, Load, Apply, PushAndLoad, Pop, Store, Latch, Jump, Nop, Fail,
           Executing, RungInv, TypeOK
  <1>2. pc + 1 \in DOMAIN code
    BY <1>1
  <1>3. ASSUME Continue, Straight => ReadsPresent(pc + 1) PROVE Passed'
    <2>1. pc' = pc + 1 /\ code' = code /\ phase' = phase
      BY <1>3 DEF Continue
    <2>2. Straight' <=> Straight
      BY <2>1 DEF Straight
    <2>3. \A k \in 1 .. pc + 1 : ReadsPresent(k)' <=> ReadsPresent(k)
      BY <2>1 DEF ReadsPresent
    <2>4. Straight => \A k \in 1 .. pc + 1 : ReadsPresent(k)
      BY <1>1, <1>3 DEF Passed
    <2> QED
      BY <1>1, <2>1, <2>2, <2>3, <2>4 DEF Passed
  <1>4. CASE Load \/ Apply \/ PushAndLoad
    <2>1. Continue /\ Readable
      BY <1>4 DEF Load, Apply, PushAndLoad
    <2>2. ReadsPresent(pc + 1)
      BY <2>1 DEF ReadsPresent, Readable, Current
    <2> QED
      BY <1>3, <2>1, <2>2
  <1>5. CASE Pop \/ Store \/ Latch \/ Nop
    <2>1. Continue
      BY <1>5 DEF Pop, Store, Latch, Nop, Write
    <2>2. Current.operation \in {"POP", "ST", "S", "R", "NOP"}
      BY <1>5 DEF Pop, Store, Latch, Nop, Executing
    <2>3. ReadsPresent(pc + 1)
      BY <2>2 DEF ReadsPresent, Current, Operations
    <2> QED
      BY <1>3, <2>1, <2>3
  <1>6. CASE Jump
    <2>1. code[pc + 1].operation = "JMP" /\ code' = code /\ phase' = phase
      BY <1>6 DEF Jump, Executing, Current
    <2>2. ~Straight'
      BY <1>2, <2>1 DEF Straight
    <2> QED
      BY <1>1, <2>1, <2>2 DEF Passed
  <1>7. CASE Fail
    BY <1>7 DEF Fail, Leave, Passed
  <1> QED
    BY <1>4, <1>5, <1>6, <1>7 DEF Instruct

LEMMA StepPassed == RungInv /\ Passed /\ [Next]_vars => Passed'
  <1> SUFFICES ASSUME RungInv, Passed, [Next]_vars PROVE Passed'
    OBVIOUS
  <1>1. ASSUME NEW program \in Programs, Install(program) PROVE Passed'
    BY <1>1 DEF Install, Passed
  <1>2. CASE BeginScan
    BY <1>2 DEF BeginScan, Passed
  <1>3. CASE Instruct
    BY <1>3, InstructPassed
  <1>4. CASE EndScan \/ TimeOut
    BY <1>4 DEF EndScan, TimeOut, Leave, Passed
  <1>5. CASE Restart
    BY <1>5 DEF Restart, Passed
  <1>6. CASE UNCHANGED vars
    BY <1>6 DEF vars, Passed, Straight, ReadsPresent
  <1> QED
    BY <1>1, <1>2, <1>3, <1>4, <1>5, <1>6 DEF Next, Scan

\* No scan goes on past an operand that is not there, for any program without
\* jumps, any configured registers and any timeouts (task, handle_ld,
\* handle_stackable).
THEOREM RungNothingPastFailure == Spec => []NothingPastFailure
  <1>1. Passed => NothingPastFailure
    BY DEF Passed, NothingPastFailure, ReadsPresent
  <1> QED
    BY <1>1, InitRung, RungStep, InitPassed, StepPassed, PTL DEF Spec

-----------------------------------------------------------------------------
(* Scans of a ladder.                                                      *)

\* t is how the present scan runs from its first instruction to its last.
Tracks(t) ==
    /\ Trace(code, bits, t)
    /\ t[0].stack = base /\ t[Len(code)].stack = base
    /\ Followed(t[Len(code)].out, Cardinality(Line), bits)
    /\ t[pc].acc = acc /\ t[pc].stack = stack /\ t[pc].out = out

\* Where there is room the scan of a ladder is on such a way.
OnTrack == (Drawn /\ phase = "scan" /\ Room) => pc <= Len(code) /\ \E t : Tracks(t)

\* An instruction does what its counterpart with an endless stack does.
LEMMA InstructTracks ==
    ASSUME RungInv, Room, Instruct, phase' = "scan", UNCHANGED <<coil, power, base>>,
           NEW t, Tracks(t)
    PROVE  pc' <= Len(code') /\ Tracks(t)'
  <1>1. /\ pc \in Nat /\ pc < Len(code) /\ code \in Seq(Instruction) /\ Len(code) \in Nat
        /\ stack \in Seq(Frame) /\ acc \in BOOLEAN /\ pc + 1 \in 1 .. Len(code)
    <2>1. pc < Len(code)
      BY DEF Instruct, Load, Apply, PushAndLoad, Pop, Store, Latch, Jump, Nop, Fail, Executing
    <2>2. pc \in Nat /\ code \in Seq(Instruction) /\ stack \in Seq(Frame) /\ acc \in BOOLEAN
      BY DEF RungInv, TypeOK
    <2>3. Len(code) \in Nat
      BY <2>2
    <2> QED
      BY <2>1, <2>2, <2>3
  <1>2. t \in [0 .. Len(code) -> State]
    BY DEF Tracks, Trace
  <1>3. PICK s \in State : s = t[pc]
    BY <1>1, <1>2
  <1>4. PICK u \in State : u = t[pc + 1]
    BY <1>1, <1>2
  <1>5. PICK i \in Instruction : i = Current
    BY <1>1 DEF Current
  <1>6. s.acc = acc /\ s.stack = stack /\ s.out = out
    BY <1>3 DEF Tracks
  <1>7. Takes(i, bits, s, u)
    <2>1. (pc + 1) - 1 = pc
      BY <1>1
    <2>2. Takes(code[pc + 1], bits, t[(pc + 1) - 1], t[pc + 1])
      BY <1>1 DEF Tracks, Trace
    <2> QED
      BY <1>3, <1>4, <1>5, <2>1, <2>2 DEF Current
  <1>8. ASSUME Continue, acc' = u.acc, stack' = u.stack, out' = u.out
        PROVE  pc' <= Len(code') /\ Tracks(t)'
    <2>1. pc' = pc + 1 /\ code' = code /\ bits' = bits /\ base' = base /\ coil' = coil
          /\ power' = power
      BY <1>8 DEF Continue
    <2>2. Followed(t[Len(code)].out, Cardinality(Line), bits)'
      BY <2>1 DEF Tracks, Followed
    <2>3. Trace(code, bits, t)'
      BY <2>1 DEF Tracks
    <2>4. t[0].stack = base /\ t[Len(code)].stack = base
      BY DEF Tracks
    <2> QED
      BY <1>1, <1>4, <1>8, <2>1, <2>2, <2>3, <2>4 DEF Tracks
  <1>9. CASE Load
    <2>1. i.operation = "LD"
      BY <1>5, <1>9 DEF Load, Executing
    <2>2. u.acc = ((i.operand \in bits) # (i.modifier = {"NEG"})) /\ u.stack = s.stack
          /\ u.out = s.out
      BY <1>7, <2>1 DEF Takes, Operations
    <2>3. acc' = ((i.operand \in bits) # (i.modifier = {"NEG"})) /\ stack' = stack /\ out' = out
      BY <1>5, <1>9 DEF Load, Value, Negated
    <2> QED
      BY <1>6, <1>8, <1>9, <2>2, <2>3 DEF Load
  <1>10. CASE Apply
    <2>1. i.operation \in Operations /\ i.modifier # {"PUSH"}
      BY <1>5, <1>10 DEF Apply, Executing, Pushes
    <2> QED
      BY <1>7, <2>1 DEF Takes, Operations
  <1>11. CASE PushAndLoad
    <2>1. i.operation \in Operations /\ i.modifier = {"PUSH"}
      BY <1>5, <1>11 DEF PushAndLoad, Executing, Pushes
    <2>2. /\ u.acc = (i.operand \in bits) /\ u.out = s.out
          /\ u.stack = <<[operation |-> i.operation, value |-> s.acc]>> \o s.stack
      BY <1>7, <2>1 DEF Takes, Operations
    <2>3. Len(u.stack) = Len(stack) + 1
      BY <1>1, <1>6, <2>2
    <2>4. Len(u.stack) <= Len(base) + Len(code) \div 2
      <3>1. pc + 1 \in 0 .. Len(code)
        BY <1>1
      <3>2. Trace(code, bits, t) /\ t[Len(code)].stack = t[0].stack /\ t[0].stack = base
        BY DEF Tracks
      <3>3. Len(t[pc + 1].stack) <= Len(t[0].stack) + Len(code) \div 2
        BY <1>1, <3>1, <3>2, TraceDepth
      <3> QED
        BY <1>4, <3>2, <3>3
    <2>5. Len(stack) < MAXSTACK - 1
      <3>1. PICK m \in Nat : m = Len(stack)
        BY <1>1
      <3>2. Len(base) \in Int /\ Len(code) \div 2 \in Int
        <4>1. t[0] \in State
          BY <1>1 DEF Tracks, Trace
        <4>2. base \in Seq(Frame)
          BY <4>1 DEF Tracks, State
        <4> QED
          BY <1>1, <4>2
      <3> QED
        BY <2>3, <2>4, <3>1, <3>2, MAXSTACKAssumption DEF Room
    <2>6. stack' = <<[operation |-> i.operation, value |-> acc]>> \o stack
      BY <1>5, <1>11, <2>5 DEF PushAndLoad, Pushed
    <2>7. acc' = (i.operand \in bits) /\ out' = out
      BY <1>5, <1>11 DEF PushAndLoad, Value
    <2> QED
      BY <1>6, <1>8, <1>11, <2>2, <2>6, <2>7 DEF PushAndLoad
  <1>12. CASE Pop
    <2>1. i.operation = "POP"
      BY <1>5, <1>12 DEF Pop, Executing
    <2>2. /\ s.stack # <<>> /\ u.stack = Tail(s.stack) /\ u.out = s.out
          /\ u.acc = Combine(Head(s.stack).operation, Head(s.stack).value, s.acc)
      BY <1>7, <2>1 DEF Takes, Operations
    <2>3. /\ acc' = Operate(Head(stack).operation, FALSE, Head(stack).value, acc)
          /\ stack' = Tail(stack) /\ out' = out
      BY <1>6, <1>12, <2>2 DEF Pop
    <2>4. Operate(Head(stack).operation, FALSE, Head(stack).value, acc)
          = Combine(Head(stack).operation, Head(stack).value, acc)
      BY <1>1 DEF Operate
    <2> QED
      BY <1>6, <1>8, <1>12, <2>2, <2>3, <2>4 DEF Pop
  <1>13. CASE Store \/ Latch
    <2>1. i.operation \in {"ST", "S", "R"}
      BY <1>5, <1>13 DEF Store, Latch, Executing
    <2>2. /\ u.acc = s.acc /\ u.stack = s.stack /\ (i.operation # "ST" => i.modifier = {"COND"})
          /\ u.out = [s.out EXCEPT ![i.operand] = Driven(i, s.acc, s.out[i.operand])]
      BY <1>7, <2>1 DEF Takes, Operations
    <2>3. ASSUME NEW effect, Write(effect), effect = Driven(i, acc, out[i.operand])
          PROVE  pc' <= Len(code') /\ Tracks(t)'
      <3>1. out' = [out EXCEPT ![i.operand] = effect] /\ Continue /\ acc' = acc /\ stack' = stack
        BY <1>5, <2>3 DEF Write
      <3> QED
        BY <1>6, <1>8, <2>2, <2>3, <3>1
    <2>4. CASE Store
      <3>1. Write(IF acc # (i.modifier = {"NEG"}) THEN "on" ELSE "off") /\ i.operation = "ST"
        BY <1>5, <2>4 DEF Store, Executing, Negated
      <3> QED
        BY <2>3, <3>1 DEF Driven
    <2>5. CASE Latch
      <3>1. i.operation \in {"S", "R"} /\ i.modifier = {"COND"}
        BY <1>5, <2>2, <2>5 DEF Latch, Executing
      <3>2. IF ~acc THEN Write(out[i.operand])
                    ELSE Write(IF i.operation = "S" THEN "set" ELSE "reset")
        BY <1>5, <2>5, <3>1 DEF Latch
      <3> QED
        BY <2>3, <3>1, <3>2 DEF Driven
    <2> QED
      BY <1>13, <2>4, <2>5
  <1>14. CASE Jump \/ Nop
    <2>1. i.operation \in {"JMP", "NOP"}
      BY <1>5, <1>14 DEF Jump, Nop, Executing
    <2> QED
      BY <1>7, <2>1 DEF Takes, Operations
  <1>15. CASE Fail
    BY <1>15 DEF Fail, Leave
  <1> QED
    BY <1>9, <1>10, <1>11, <1>12, <1>13, <1>14, <1>15 DEF Instruct

-----------------------------------------------------------------------------
(* The invariant of a ladder, from its first symbol to its last scan.      *)

DrawingType ==
    /\ stmt \in [Line -> Tree]
    /\ coil \in [Line -> CoilType]
    /\ power \in [Line -> SUBSET SUBSET Operand]
    /\ sealed \in SUBSET Line

\* Between scans nothing has been executed.
AtRest == phase # "scan" => pc = 0 /\ out = Untouched

\* A program of this type makes a rung.
LEMMA InstallStep ==
    ASSUME RungInv, Passed, AtRest, NEW program \in Seq(Instruction), Install(program)
    PROVE  /\ RungInv' /\ Passed' /\ AtRest'
           /\ phase = "draw" /\ phase' = "host" /\ code' = program
  <1>1. /\ phase = "draw" /\ phase' = "host" /\ code' = program
        /\ UNCHANGED <<pc, acc, stack, bits, out, cuts>>
    BY DEF Install
  <1>2. RungInv'
    BY <1>1 DEF RungInv, TypeOK
  <1> QED
    BY <1>1, <1>2 DEF Passed, AtRest

\* What holds of every ladder, wherever its contacts are negated.
LadderTyped == RungInv /\ Passed /\ AtRest /\ DrawingType

LEMMA InitLadderTyped == InitLadder => LadderTyped
  <1> SUFFICES ASSUME InitLadder PROVE LadderTyped
    OBVIOUS
  <1>1. RungInv /\ Passed /\ AtRest
    BY InitRung, InitPassed DEF InitLadder, Init, AtRest
  <1>2. DrawingType
    BY DEF InitLadder, DrawingType, Tree, CoilType
  <1> QED
    BY <1>1, <1>2 DEF LadderTyped

\* What a scan does to the rung.
LEMMA ScanStep ==
    ASSUME LadderTyped, Run
    PROVE  /\ LadderTyped'
           /\ UNCHANGED <<code, stmt, coil, power, sealed>>
           /\ phase # "draw" /\ phase' # "draw"
  <1>1. Scan /\ UNCHANGED <<stmt, coil, power, sealed>>
    BY DEF Run, drawing
  <1>2. RungInv' /\ Passed'
    BY <1>1, RungStep, StepPassed DEF LadderTyped, Next
  <1>3. phase # "draw" /\ phase' # "draw" /\ code' = code
    BY <1>1 DEF Scan, BeginScan, Instruct, Load, Apply, PushAndLoad, Pop, Store, Latch, Jump, Nop,
                Fail, EndScan, TimeOut, Restart, Executing, Continue, Write, Leave
  <1>4. phase' = "scan" \/ (pc' = 0 /\ out' = Untouched)
    <2>1. CASE BeginScan
      BY <2>1 DEF BeginScan
    <2>2. CASE Instruct
      BY <2>2 DEF Instruct, Load, Apply, PushAndLoad, Pop, Store, Latch, Jump, Nop, Fail,
                  Write, Continue, Leave, Executing
    <2>3. CASE EndScan \/ TimeOut \/ Restart
      BY <2>3 DEF EndScan, TimeOut, Leave, Restart, LadderTyped, AtRest
    <2> QED
      BY <1>1, <2>1, <2>2, <2>3 DEF Scan
  <1>5. AtRest' /\ DrawingType'
    BY <1>1, <1>4 DEF LadderTyped, AtRest, DrawingType
  <1> QED
    BY <1>1, <1>2, <1>3, <1>5 DEF LadderTyped

\* Every step keeps the types, wherever contacts are negated.
LEMMA TypedStep ==
    ASSUME LadderTyped, [NextLadder]_allvars
    PROVE  LadderTyped'
  <1> USE DEF LadderTyped
  <1>1. ASSUME UNCHANGED vars, DrawingType' PROVE LadderTyped'
    <2>1. RungInv' /\ Passed'
      BY <1>1, RungStep, StepPassed
    <2>2. AtRest'
      BY <1>1 DEF AtRest, vars
    <2> QED
      BY <1>1, <2>1, <2>2
  <1>2. \A l \in Line : stmt[l] \in Tree /\ coil[l] \in CoilType
    BY DEF DrawingType
  <1>3. Nothing \in Tree /\ "none" \in CoilType
    BY DEF Tree, CoilType
  <1>4. ASSUME NEW l \in Line, NEW x \in Operand, NEW negated \in BOOLEAN, Contact(l, x, negated)
        PROVE  LadderTyped'
    <2>1. PICK f \in Tree : f = Expression(Identifier(x), stmt[l], "AND",
                                           {"PUSH"} \cup (IF negated THEN {"NEG"} ELSE {}))
      BY <1>2, SeriesTree
    <2>2. PICK r \in SUBSET SUBSET Operand :
             r = {v \in (IF stmt[l] = Nothing THEN SUBSET Operand ELSE power[l]) :
                    (x \in v) # negated}
      BY DEF DrawingType
    <2>3. stmt' = [stmt EXCEPT ![l] = f] /\ power' = [power EXCEPT ![l] = r]
      BY <1>4, <2>1, <2>2 DEF Contact
    <2>4. UNCHANGED <<vars, coil>> /\ sealed' \in SUBSET Line
      BY <1>4 DEF Contact, DrawingType
    <2>5. DrawingType'
      BY <2>3, <2>4 DEF DrawingType
    <2> QED
      BY <1>1, <2>4, <2>5
  <1>5. ASSUME NEW joint, Node(joint)
        PROVE  LadderTyped'
    <2>1. joint \in SUBSET Line /\ UNCHANGED <<vars, coil, sealed>>
      BY <1>5 DEF Node, Open
    <2>2. PICK n \in Nat : n = Cardinality(Line)
      BY Lines
    <2>3. Joined(joint) \in Tree
      <3>1. \E f \in [0 .. n -> Tree] : Joined(joint) = f[n]
        BY <1>2, <2>1, <2>2, JoinedSteps
      <3> QED
        BY <3>1
    <2>4. PICK r \in SUBSET SUBSET Operand : r = UNION {power[l] : l \in joint}
      <3>1. \A l \in joint : power[l] \in SUBSET SUBSET Operand
        BY <2>1 DEF DrawingType
      <3>2. \A v \in UNION {power[l] : l \in joint} : v \in SUBSET Operand
        BY <3>1
      <3> QED
        BY <3>2
    <2>5. /\ stmt' = [l \in Line |-> IF l \in joint THEN Joined(joint) ELSE stmt[l]]
          /\ power' = [l \in Line |-> IF l \in joint THEN r ELSE power[l]]
      BY <1>5, <2>4 DEF Node
    <2>6. DrawingType'
      BY <2>1, <2>3, <2>5 DEF DrawingType
    <2> QED
      BY <1>1, <2>1, <2>6
  <1>6. ASSUME NEW l \in Line, NEW type \in CoilType, End(l, type)
        PROVE  LadderTyped'
    <2>1. DrawingType' /\ UNCHANGED vars
      BY <1>6 DEF End, DrawingType
    <2> QED
      BY <1>1, <2>1
  <1>7. CASE Draw
    BY <1>4, <1>5, <1>6, <1>7 DEF Draw, CoilType
  <1>8. CASE Generate
    <2>1. /\ Accepted /\ Install(Generated) /\ coil' = coil /\ sealed' = {}
          /\ stmt' = [l \in Line |-> Nothing]
          /\ power' = [l \in Line |-> IF coil[l] = "none" THEN {} ELSE power[l]]
      BY <1>8 DEF Generate
    <2>2. PICK n \in Nat : n = Cardinality(Line)
      BY Lines
    <2>3. Generated \in Seq(Instruction)
      <3>1. \E f \in [0 .. n -> Seq(Instruction)] : Generated = f[n]
        BY <1>2, <2>1, <2>2, GeneratedSteps DEF Accepted
      <3> QED
        BY <3>1
    <2>4. DrawingType'
      BY <1>3, <2>1 DEF DrawingType
    <2> QED
      BY <2>1, <2>3, <2>4, InstallStep
  <1>9. CASE Refuse
    <2>1. DrawingType' /\ UNCHANGED vars
      BY <1>3, <1>9 DEF Refuse, DrawingType
    <2> QED
      BY <1>1, <2>1
  <1>10. CASE InstallProgram
    <2>1. PICK program \in Programs : Install(program)
      BY <1>10 DEF InstallProgram
    <2>2. DrawingType'
      BY <1>10 DEF InstallProgram, drawing, DrawingType
    <2> QED
      BY <2>1, <2>2, ProgramsAssumption, InstallStep
  <1>11. CASE Run
    BY <1>11, ScanStep
  <1>12. CASE UNCHANGED allvars
    <2>1. DrawingType' /\ UNCHANGED vars
      BY <1>12 DEF allvars, drawing, DrawingType
    <2> QED
      BY <1>1, <2>1
  <1> QED
    BY <1>7, <1>8, <1>9, <1>10, <1>11, <1>12 DEF NextLadder

\* The types of a rung, the bound of its stack, and that nothing is executed
\* past a missing operand hold as well where ladders make the rungs.
THEOREM LadderRungs == SpecLadder => [](TypeOK /\ NothingPastFailure)
  <1>1. LadderTyped => TypeOK /\ NothingPastFailure
    BY DEF LadderTyped, RungInv, Passed, NothingPastFailure, ReadsPresent
  <1> QED
    BY <1>1, InitLadderTyped, TypedStep, PTL DEF SpecLadder

-----------------------------------------------------------------------------
(* That coils follow the circuit, where contacts are negated just before   *)
(* coils only.                                                             *)

\* A rung fits the limit of instructions, and that of a ladder does what the
\* ladder means.
RungFollows ==
    /\ Len(code) <= MAXSTACK
    /\ (phase # "draw" /\ Drawn) => Follows(code, Cardinality(Line))

LadderInv ==
    /\ LadderTyped
    /\ phase = "draw" => LinesMean
    /\ RungFollows
    /\ OnTrack

LEMMA InitLadderInv == InitLadder => LadderInv
  <1> SUFFICES ASSUME InitLadder PROVE LadderInv
    OBVIOUS
  <1>1. LadderTyped /\ phase = "draw" /\ code = <<>>
    BY InitLadderTyped DEF InitLadder, Init
  <1>2. LinesMean
    BY DEF InitLadder, LinesMean, Means, Tree
  <1>3. RungFollows /\ OnTrack
    BY <1>1, MAXSTACKAssumption DEF RungFollows, OnTrack
  <1> QED
    BY <1>1, <1>2, <1>3 DEF LadderInv

\* Steps that only draw.
LEMMA DrawnKeepsRung ==
    ASSUME LadderInv, LadderTyped', UNCHANGED vars, phase = "draw", LinesMean'
    PROVE  LadderInv'
  <1>1. phase' = phase /\ code' = code
    BY DEF vars
  <1>2. RungFollows' /\ OnTrack'
    BY <1>1 DEF LadderInv, RungFollows, OnTrack
  <1> QED
    BY <1>2 DEF LadderInv

\* A contact in series.
LEMMA ContactStep ==
    ASSUME LadderInv, LadderTyped', Closed = "last",
           NEW l \in Line, NEW x \in Operand, NEW negated \in BOOLEAN, Contact(l, x, negated)
    PROVE  LadderInv'
  <1>1. /\ phase = "draw" /\ l \notin sealed /\ UNCHANGED vars
        /\ sealed' = IF negated THEN sealed \cup {l} ELSE sealed
    BY DEF Contact, Open
  <1>2. DrawingType /\ LinesMean /\ Means(stmt[l], power[l])
    BY <1>1 DEF LadderInv, LadderTyped, LinesMean
  <1>3. PICK f : f = Expression(Identifier(x), stmt[l], "AND",
                                {"PUSH"} \cup (IF negated THEN {"NEG"} ELSE {}))
    OBVIOUS
  <1>4. PICK r : r = {v \in (IF stmt[l] = Nothing THEN SUBSET Operand ELSE power[l]) :
                        (x \in v) # negated}
    OBVIOUS
  <1>5. stmt' = [stmt EXCEPT ![l] = f] /\ power' = [power EXCEPT ![l] = r]
    BY <1>3, <1>4 DEF Contact
  <1>6. IF negated THEN MeansAlone(f, r) ELSE Means(f, r)
    <2>1. \A v \in SUBSET Operand :
             v \in r <=> ((stmt[l] = Nothing \/ v \in power[l]) /\ (x \in v) # negated)
      BY <1>4
    <2> QED
      BY <1>2, <1>3, <2>1, SeriesMeans
  <1>7. ASSUME NEW k \in Line
        PROVE  IF k \in sealed' THEN MeansAlone(stmt'[k], power'[k]) ELSE Means(stmt'[k], power'[k])
    <2>1. CASE k = l
      BY <1>1, <1>2, <1>5, <1>6, <2>1 DEF DrawingType
    <2>2. CASE k # l
      <3>1. stmt'[k] = stmt[k] /\ power'[k] = power[k] /\ (k \in sealed' <=> k \in sealed)
        BY <1>1, <1>2, <1>5, <2>2 DEF DrawingType
      <3> QED
        BY <1>2, <3>1 DEF LinesMean
    <2> QED
      BY <2>1, <2>2
  <1>8. LinesMean'
    BY <1>7 DEF LinesMean
  <1> QED
    BY <1>1, <1>8, DrawnKeepsRung

\* A column of nodes.
LEMMA NodeStep ==
    ASSUME LadderInv, LadderTyped', NEW joint, Node(joint)
    PROVE  LadderInv'
  <1>1. /\ phase = "draw" /\ UNCHANGED <<vars, sealed>>
        /\ joint \in SUBSET Line /\ \A l \in joint : l \notin sealed
    BY DEF Node, Open
  <1>2. LinesMean /\ \A l \in joint : Means(stmt[l], power[l])
    BY <1>1 DEF LadderInv, LinesMean
  <1>3. Means(Joined(joint), UNION {power[l] : l \in joint})
    BY <1>1, <1>2, JoinedMeans
  <1>4. ASSUME NEW k \in Line
        PROVE  IF k \in sealed' THEN MeansAlone(stmt'[k], power'[k]) ELSE Means(stmt'[k], power'[k])
    <2>1. CASE k \in joint
      <3>1. stmt'[k] = Joined(joint) /\ power'[k] = UNION {power[l] : l \in joint}
        BY <2>1 DEF Node
      <3> QED
        BY <1>1, <1>3, <2>1, <3>1
    <2>2. CASE k \notin joint
      <3>1. stmt'[k] = stmt[k] /\ power'[k] = power[k] /\ (k \in sealed' <=> k \in sealed)
        BY <1>1, <2>2 DEF Node
      <3> QED
        BY <1>2, <3>1 DEF LinesMean
    <2> QED
      BY <2>1, <2>2
  <1>5. LinesMean'
    BY <1>4 DEF LinesMean
  <1> QED
    BY <1>1, <1>5, DrawnKeepsRung

\* A coil, which ends its line.
LEMMA EndStep ==
    ASSUME LadderInv, LadderTyped', NEW l, NEW type, End(l, type)
    PROVE  LadderInv'
  <1>1. phase = "draw" /\ UNCHANGED <<vars, stmt, power, sealed>>
    BY DEF End
  <1>2. LinesMean'
    BY <1>1 DEF LadderInv, LinesMean
  <1> QED
    BY <1>1, <1>2, DrawnKeepsRung

\* A program that is refused.
LEMMA RefuseStep ==
    ASSUME LadderInv, LadderTyped', Refuse
    PROVE  LadderInv'
  <1>1. /\ phase = "draw" /\ UNCHANGED vars /\ sealed' = {}
        /\ stmt' = [l \in Line |-> Nothing] /\ power' = [l \in Line |-> {}]
    BY DEF Refuse
  <1>2. LinesMean'
    BY <1>1 DEF LinesMean, Means, Tree
  <1> QED
    BY <1>1, <1>2, DrawnKeepsRung

\* The end of the drawing: the rung follows its lines.
LEMMA GenerateStep ==
    ASSUME LadderInv, LadderTyped', Generate
    PROVE  LadderInv'
  <1>1. /\ phase = "draw" /\ Accepted /\ coil' = coil
        /\ phase' = "host" /\ code' = Generated
        /\ power' = [l \in Line |-> IF coil[l] = "none" THEN {} ELSE power[l]]
    BY DEF Generate, Install
  <1>2. DrawingType /\ LinesMean
    BY <1>1 DEF LadderInv, LadderTyped
  <1>3. \A l \in Line : coil[l] \in CoilType /\ (coil[l] # "none" => stmt[l] # Nothing)
    BY <1>1, <1>2 DEF DrawingType, Accepted
  <1>4. Follows(Generated, Cardinality(Line))
    BY <1>2, <1>3, GeneratedFollows
  <1>5. RungFollows'
    <2>1. ASSUME NEW v, NEW l \in Line
          PROVE  Effects(coil[l], v \in power[l]) = Effects(coil'[l], v \in power'[l])
      <3>1. CASE coil[l] = "none"
        BY <1>1, <3>1 DEF Effects
      <3>2. CASE coil[l] # "none"
        <4>1. coil'[l] = coil[l] /\ power'[l] = power[l]
          BY <1>1, <3>2
        <4> QED
          BY <4>1
      <3> QED
        BY <3>1, <3>2
    <2>2. ASSUME NEW v, NEW effects, Followed(effects, Cardinality(Line), v)
          PROVE  Followed(effects, Cardinality(Line), v)'
      BY <2>1, <2>2 DEF Followed
    <2>3. PICK c : c = Generated
      OBVIOUS
    <2>4. Follows(c, Cardinality(Line))'
      BY <1>4, <2>2, <2>3 DEF Follows
    <2>5. Len(c) <= MAXSTACK
      BY <1>1, <2>3 DEF Accepted
    <2> QED
      BY <1>1, <2>3, <2>4, <2>5 DEF RungFollows
  <1>6. OnTrack'
    BY <1>1 DEF OnTrack
  <1> QED
    BY <1>1, <1>5, <1>6 DEF LadderInv

\* A program of other origin is no ladder.
LEMMA InstallProgramStep ==
    ASSUME LadderInv, LadderTyped', InstallProgram
    PROVE  LadderInv'
  <1>1. PICK program \in Programs : phase' = "host" /\ code' = program
    BY DEF InstallProgram, Install
  <1>2. Len(code') <= MAXSTACK
    BY <1>1, ProgramsAssumption
  <1>3. ~Drawn'
    BY DEF InstallProgram, drawing, Drawn
  <1>4. RungFollows' /\ OnTrack'
    BY <1>1, <1>2, <1>3 DEF RungFollows, OnTrack
  <1> QED
    BY <1>1, <1>4 DEF LadderInv

\* A scan stays on the way its rung takes.
LEMMA RunStep ==
    ASSUME LadderInv, LadderTyped', Run
    PROVE  LadderInv'
  <1>1. Scan /\ base' = IF phase = "host" THEN stack ELSE base
    BY DEF Run
  <1>2. UNCHANGED <<code, coil, power>> /\ phase # "draw" /\ phase' # "draw"
    BY ScanStep DEF LadderInv
  <1>3. RungFollows'
    <2>1. Drawn' <=> Drawn
      BY <1>2 DEF Drawn
    <2>2. Drawn => Follows(code, Cardinality(Line))
      BY <1>2 DEF LadderInv, RungFollows
    <2>3. ASSUME NEW v, NEW effects, Followed(effects, Cardinality(Line), v)
          PROVE  Followed(effects, Cardinality(Line), v)'
      BY <1>2, <2>3 DEF Followed
    <2>4. Drawn => Follows(code, Cardinality(Line))'
      BY <1>2, <2>2, <2>3 DEF Follows
    <2> QED
      BY <1>2, <2>1, <2>4 DEF LadderInv, RungFollows
  <1>4. OnTrack'
    <2>1. CASE BeginScan
      <3>1. /\ phase = "host" /\ phase' = "scan" /\ bits' \in SUBSET Present
            /\ UNCHANGED <<code, pc, acc, stack, out>> /\ base' = stack
        BY <1>1, <2>1 DEF BeginScan
      <3>2. /\ pc = 0 /\ out = Untouched /\ stack \in Seq(Frame) /\ acc \in BOOLEAN
            /\ out \in [Coil -> Effect] /\ code \in Seq(Instruction)
        BY <3>1 DEF LadderInv, LadderTyped, AtRest, RungInv, TypeOK
      <3>3. PICK s \in State : s = [acc |-> acc, stack |-> stack, out |-> out]
        BY <3>2 DEF State
      <3>4. ASSUME Drawn' PROVE \E t : Tracks(t)'
        <4>1. Follows(code, Cardinality(Line))'
          BY <1>2, <1>3, <3>4 DEF RungFollows
        <4>2. bits' \in SUBSET Operand /\ s.out = Untouched /\ s.stack = stack /\ s.acc = acc
          BY <3>1, <3>2, <3>3, OperandAssumption
        <4>3. PICK u \in State : /\ Leads(code', bits', s, u) /\ u.stack = s.stack
                                 /\ Followed(u.out, Cardinality(Line), bits)'
          BY <4>1, <4>2 DEF Follows
        <4>4. PICK t : Trace(code', bits', t) /\ t[0] = s /\ t[Len(code')] = u
          BY <4>3 DEF Leads
        <4>5. Tracks(t)'
          BY <3>1, <3>2, <3>3, <4>2, <4>3, <4>4 DEF Tracks
        <4> QED
          BY <4>5
      <3>5. pc' <= Len(code')
        BY <3>1, <3>2
      <3> QED
        BY <3>1, <3>4, <3>5 DEF OnTrack
    <2>2. CASE Instruct
      <3>1. phase = "scan" /\ base' = base
        BY <1>1, <2>2 DEF Instruct, Load, Apply, PushAndLoad, Pop, Store, Latch, Jump, Nop, Fail,
                          Executing
      <3>2. ASSUME phase' = "scan", Drawn', Room' PROVE pc' <= Len(code') /\ \E t : Tracks(t)'
        <4>1. Drawn /\ Room
          BY <1>2, <3>1, <3>2 DEF Drawn, Room
        <4>2. PICK t : Tracks(t)
          BY <3>1, <4>1 DEF LadderInv, OnTrack
        <4>3. pc' <= Len(code') /\ Tracks(t)'
          BY <1>2, <2>2, <3>1, <3>2, <4>1, <4>2, InstructTracks DEF LadderInv, LadderTyped
        <4> QED
          BY <4>3
      <3> QED
        BY <3>2 DEF OnTrack
    <2>3. CASE EndScan \/ TimeOut \/ Restart
      BY <2>3 DEF EndScan, TimeOut, Leave, Restart, OnTrack
    <2> QED
      BY <1>1, <2>1, <2>2, <2>3 DEF Scan
  <1> QED
    BY <1>2, <1>3, <1>4 DEF LadderInv

LEMMA LadderStep ==
    ASSUME LadderInv, Closed = "last", [NextLadder]_allvars
    PROVE  LadderInv'
  <1>1. LadderTyped'
    BY TypedStep DEF LadderInv
  <1>2. CASE Draw
    BY <1>1, <1>2, ContactStep, NodeStep, EndStep DEF Draw
  <1>3. CASE UNCHANGED allvars
    <2>1. UNCHANGED <<code, phase, pc, acc, stack, bits, out, stmt, coil, power, sealed, base>>
      BY <1>3 DEF allvars, drawing, vars
    <2>2. phase' = "draw" => LinesMean'
      BY <2>1 DEF LadderInv, LinesMean
    <2>3. ASSUME NEW v, NEW effects, Followed(effects, Cardinality(Line), v)
          PROVE  Followed(effects, Cardinality(Line), v)'
      BY <2>1, <2>3 DEF Followed
    <2>4. Drawn' <=> Drawn
      BY <2>1 DEF Drawn
    <2>5. RungFollows'
      BY <2>1, <2>3, <2>4 DEF LadderInv, RungFollows, Follows
    <2>6. ASSUME NEW t, Tracks(t) PROVE Tracks(t)'
      BY <2>1, <2>3, <2>6 DEF Tracks
    <2>7. OnTrack'
      BY <2>1, <2>4, <2>6 DEF LadderInv, OnTrack, Room
    <2> QED
      BY <1>1, <2>2, <2>5, <2>7 DEF LadderInv
  <1> QED
    BY <1>1, <1>2, <1>3, GenerateStep, RefuseStep, InstallProgramStep, RunStep DEF NextLadder

-----------------------------------------------------------------------------
\* For any ladder, with any number of lines, contacts and nodes, in which
\* contacts are negated just before a coil only: in every complete scan all
\* coils do what the drawn circuit says, whatever was left by scans that were
\* cut short, as long as that leaves room (parse_ld_program, gen_ass, gen_expr,
\* handle_stackable and pop together).
THEOREM LadderCoils == Closed = "last" => (SpecLadder => []CoilFollowsCircuit)
  <1>1. LadderInv => CoilFollowsCircuit
    <2> SUFFICES ASSUME LadderInv, Complete, Room
                 PROVE  \A l \in Line : out[l] = Effects(coil[l], bits \in power[l])
      BY DEF CoilFollowsCircuit
    <2>1. PICK t : Tracks(t)
      BY DEF LadderInv, OnTrack, Complete
    <2>2. out = t[Len(code)].out /\ Followed(t[Len(code)].out, Cardinality(Line), bits)
      BY <2>1 DEF Tracks, Complete
    <2>3. \A l \in Line : l <= Cardinality(Line)
      BY Lines
    <2> QED
      BY <2>2, <2>3 DEF Followed
  <1> SUFFICES ASSUME Closed = "last" PROVE SpecLadder => []CoilFollowsCircuit
    OBVIOUS
  <1>2. LadderInv /\ [NextLadder]_allvars => LadderInv'
    BY LadderStep
  <1> QED
    BY <1>1, <1>2, InitLadderInv, PTL DEF SpecLadder

\* And every complete scan of such a ladder pops what it has pushed, so that
\* frames of cut scans are neither applied nor increased (gen_expr, push, pop).
THEOREM LadderStack == Closed = "last" => (SpecLadder => []StackRestored)
  <1>1. LadderInv => StackRestored
    <2> SUFFICES ASSUME LadderInv, Complete, Room PROVE stack = base
      BY DEF StackRestored
    <2>1. PICK t : Tracks(t)
      BY DEF LadderInv, OnTrack, Complete
    <2> QED
      BY <2>1 DEF Tracks, Complete
  <1> SUFFICES ASSUME Closed = "last" PROVE SpecLadder => []StackRestored
    OBVIOUS
  <1>2. LadderInv /\ [NextLadder]_allvars => LadderInv'
    BY LadderStep
  <1> QED
    BY <1>1, <1>2, InitLadderInv, PTL DEF SpecLadder

-----------------------------------------------------------------------------
(* Until a scan is cut short the stack is empty between scans, and there   *)
(* is always room.                                                         *)

\* No ladder that is accepted is too deep for an empty stack.
LEMMA EmptyHasRoom == LadderInv /\ base = <<>> => Room
  <1> SUFFICES ASSUME LadderInv, base = <<>> PROVE Room
    OBVIOUS
  <1>1. PICK n \in Nat : n = Len(code)
    BY DEF LadderInv, LadderTyped, RungInv, TypeOK
  <1>2. n <= MAXSTACK /\ Len(base) = 0
    BY <1>1 DEF LadderInv, RungFollows
  <1>3. n \div 2 < MAXSTACK
    BY <1>2, MAXSTACKAssumption
  <1> QED
    BY <1>1, <1>2, <1>3 DEF Room

Uncut ==
    /\ phase = "draw" => stack = <<>>
    /\ (Drawn /\ cuts = 0 /\ phase = "host") => stack = <<>>
    /\ (Drawn /\ cuts = 0 /\ phase = "scan") => base = <<>>

\* A scan that comes to the end of the rung leaves the stack as it was.
LEMMA ScanUncut ==
    ASSUME LadderInv, Uncut, Run
    PROVE  Uncut'
  <1>1. Scan /\ base' = (IF phase = "host" THEN stack ELSE base) /\ UNCHANGED drawing
    BY DEF Run
  <1>2. (Drawn' <=> Drawn) /\ phase # "draw" /\ phase' # "draw" /\ cuts \in Nat
    BY <1>1, ScanStep DEF drawing, Drawn, LadderInv, LadderTyped, RungInv, TypeOK
  <1>3. CASE BeginScan
    <2>1. phase = "host" /\ phase' = "scan" /\ cuts' = cuts /\ base' = stack
      BY <1>1, <1>3 DEF BeginScan
    <2> QED
      BY <1>2, <2>1 DEF Uncut
  <1>4. CASE Fail \/ TimeOut
    <2>1. cuts' = cuts + 1
      BY <1>4 DEF Fail, TimeOut
    <2>2. cuts' # 0
      BY <1>2, <2>1
    <2> QED
      BY <1>2, <2>2 DEF Uncut
  <1>5. CASE Instruct /\ ~Fail
    <2>1. phase = "scan" /\ phase' = "scan" /\ cuts' = cuts
      BY <1>5 DEF Instruct, Load, Apply, PushAndLoad, Pop, Store, Latch, Jump, Nop, Write,
                  Continue, Executing
    <2> QED
      BY <1>1, <1>2, <2>1 DEF Uncut
  <1>6. CASE EndScan
    <2>1. phase = "scan" /\ phase' = "host" /\ UNCHANGED <<stack, cuts>> /\ pc >= Len(code)
      BY <1>6 DEF EndScan, Leave
    <2>2. ASSUME Drawn, cuts = 0 PROVE stack = <<>>
      <3>1. base = <<>> /\ Room
        BY <2>1, <2>2, EmptyHasRoom DEF Uncut
      <3>2. PICK t : Tracks(t) /\ pc <= Len(code)
        BY <2>1, <2>2, <3>1 DEF LadderInv, OnTrack
      <3>3. pc = Len(code)
        BY <2>1, <3>2 DEF LadderInv, LadderTyped, RungInv, TypeOK
      <3> QED
        BY <3>1, <3>2, <3>3 DEF Tracks
    <2> QED
      BY <1>2, <2>1, <2>2 DEF Uncut
  <1>7. CASE Restart
    BY <1>2, <1>7 DEF Restart, Uncut
  <1> QED
    BY <1>1, <1>3, <1>4, <1>5, <1>6, <1>7 DEF Scan

LEMMA UncutStep ==
    ASSUME LadderInv, Uncut, [NextLadder]_allvars
    PROVE  Uncut'
  <1>1. CASE Draw \/ Refuse
    <2>1. phase = "draw" /\ UNCHANGED <<phase, stack>>
      BY <1>1 DEF Draw, Contact, Node, End, Refuse, vars
    <2> QED
      BY <2>1 DEF Uncut
  <1>2. CASE Generate \/ InstallProgram
    <2>1. phase = "draw" /\ phase' = "host" /\ stack' = stack
      BY <1>2 DEF Generate, InstallProgram, Install
    <2> QED
      BY <2>1 DEF Uncut
  <1>3. CASE UNCHANGED allvars
    BY <1>3 DEF allvars, vars, drawing, Uncut, Drawn
  <1> QED
    BY <1>1, <1>2, <1>3, ScanUncut DEF NextLadder

\* As long as no scan of it has been cut short, every scan of a ladder finds an
\* empty stack and has room, and at its end coils follow the circuit and the
\* stack is empty again: whatever size the stack has, no ladder that append and
\* gen_ass accept is too deep for it (gen_expr, append, push, pop).
THEOREM LadderUncut ==
    Closed = "last" =>
        (SpecLadder => []((Drawn /\ phase = "scan" /\ cuts = 0) =>
            /\ base = <<>> /\ Room
            /\ pc = Len(code) => /\ stack = <<>>
                                 /\ \A l \in Line : out[l] = Effects(coil[l], bits \in power[l])))
  <1> DEFINE Promise ==
        (Drawn /\ phase = "scan" /\ cuts = 0) =>
            /\ base = <<>> /\ Room
            /\ pc = Len(code) => /\ stack = <<>>
                                 /\ \A l \in Line : out[l] = Effects(coil[l], bits \in power[l])
  <1> SUFFICES ASSUME Closed = "last" PROVE SpecLadder => []Promise
    OBVIOUS
  <1>1. LadderInv /\ Uncut /\ CoilFollowsCircuit /\ StackRestored => Promise
    BY EmptyHasRoom DEF Uncut, CoilFollowsCircuit, StackRestored, Complete
  <1>2. InitLadder => LadderInv /\ Uncut
    BY InitLadderInv DEF InitLadder, Init, Uncut
  <1>3. LadderInv /\ Uncut /\ [NextLadder]_allvars => LadderInv' /\ Uncut'
    BY LadderStep, UncutStep
  <1> HIDE DEF Promise
  <1> QED
    BY <1>1, <1>2, <1>3, LadderCoils, LadderStack, PTL DEF SpecLadder
-----------------------------------------------------------------------------
(* Bytes and words.                                                        *)

LEMMA WordPower == W!Power = Power
  BY DEF W!Power, Power

\* The types of words.
WordTypes == {W!BOOL} \cup {1, 2, 4, 8}

LEMMA Widths ==
    /\ \A type \in WordTypes :
          /\ W!Width(type) \in Nat \ {0}
          /\ 1 < W!Width(type) /\ W!Width(type) <= W!Width(8)
    /\ W!Width(W!BOOL) = 2
    /\ \A type \in WordTypes \ {W!BOOL} : W!Width(type) = Power[BYTESIZE * type]
  <1>1. BYTESIZE \in Nat /\ BYTESIZE - 1 \in Nat /\ W!Power = Power
    BY WordsAssumption, WordPower
  <1>2. W!Width(W!BOOL) = 2
    BY DEF W!Width
  <1>3. ASSUME NEW type \in {1, 2, 4, 8} PROVE W!Width(type) = Power[BYTESIZE * type]
    <2>1. type # W!BOOL /\ type * BYTESIZE = BYTESIZE * type
      BY <1>1 DEF W!BOOL
    <2> QED
      BY <1>1, <2>1 DEF W!Width
  <1>4. ASSUME NEW type \in {1, 2, 4, 8}
        PROVE  Power[BYTESIZE * type] \in Nat \ {0, 1} /\ Power[BYTESIZE * type] <= Power[BYTESIZE * 8]
    <2>1. type \in Nat /\ 8 - type \in Nat /\ type - 1 \in Nat
      OBVIOUS
    <2>2. BYTESIZE * type \in Nat /\ BYTESIZE * (8 - type) \in Nat
          /\ BYTESIZE * type + BYTESIZE * (8 - type) = BYTESIZE * 8
      BY <1>1, <2>1
    <2>3. Power[BYTESIZE * type] \in Nat \ {0} /\ Power[BYTESIZE * (8 - type)] \in Nat \ {0}
      BY <2>2, Powers
    <2>4. Power[BYTESIZE * 8] = Power[BYTESIZE * type] * Power[BYTESIZE * (8 - type)]
      BY <2>2, PowerOfSum
    <2>5. Power[BYTESIZE * type] <= Power[BYTESIZE * 8]
      <3> DEFINE p == Power[BYTESIZE * type]
                 q == Power[BYTESIZE * (8 - type)]
      <3>1. p \in Nat /\ q \in Nat /\ q >= 1
        BY <2>3
      <3> HIDE DEF p, q
      <3>2. p <= p * q
        BY <3>1
      <3> QED
        BY <2>4, <3>2 DEF p, q
    <2>6. BYTESIZE * type = (BYTESIZE * type - 1) + 1 /\ BYTESIZE * type - 1 \in Nat
      <3>1. BYTESIZE * type = BYTESIZE + BYTESIZE * (type - 1) /\ BYTESIZE * (type - 1) \in Nat
        BY <1>1, <2>1
      <3> QED
        BY <1>1, <3>1
    <2>7. Power[BYTESIZE * type] = 2 * Power[BYTESIZE * type - 1] /\ Power[BYTESIZE * type - 1] \in Nat \ {0}
      BY <2>6, Powers
    <2> QED
      BY <2>3, <2>5, <2>7
  <1>5. W!Width(8) = Power[BYTESIZE * 8] /\ Power[BYTESIZE * 8] \in Nat \ {0, 1}
    BY <1>3, <1>4
  <1> QED
    BY <1>2, <1>3, <1>4, <1>5 DEF WordTypes

Byte == 0 .. W!Width(1) - 1
Buffer == [0 .. NI - 1 -> Byte]

\* What ld_bytes has summed up, byte by byte.
Summing(buffer, first, size, rv) ==
    /\ rv[0] = 0
    /\ \A n \in 1 .. size :
          rv[n] = rv[n - 1] + buffer[first + (size - n)] * Power[BYTESIZE * (n - 1)]
    /\ W!Bytes(buffer, first, size) = rv[size]

LEMMA Summed ==
    ASSUME NEW buffer \in Buffer, NEW first \in Nat, NEW size \in Nat, first + size <= NI
    PROVE  \E rv : Summing(buffer, first, size, rv)
  <1> DEFINE Body(g) == [n \in 0 .. size |->
                 IF n = 0 THEN 0
                 ELSE g[n - 1] + buffer[first + (size - n)] * Power[BYTESIZE * (n - 1)]]
             H == [p \in (1 .. size) \X Int |->
                 p[2] + buffer[first + (size - p[1])] * Power[BYTESIZE * (p[1] - 1)]]
  <1>1. ASSUME NEW n \in 1 .. size, NEW v \in Int
        PROVE  v + buffer[first + (size - n)] * Power[BYTESIZE * (n - 1)] \in Int
    <2>1. n - 1 \in Nat /\ BYTESIZE \in Nat /\ first + (size - n) \in 0 .. NI - 1
      BY WordsAssumption
    <2>2. BYTESIZE * (n - 1) \in Nat
      BY <2>1
    <2>3. Power[BYTESIZE * (n - 1)] \in Int
      BY <2>2, Powers
    <2>4. buffer[first + (size - n)] \in Int
      BY <2>1 DEF Buffer, Byte
    <2> QED
      BY <2>3, <2>4
  <1>2. H \in [(1 .. size) \X Int -> Int]
    BY <1>1
  <1>3. \A n \in 1 .. size, v \in Int :
           H[<<n, v>>] = v + buffer[first + (size - n)] * Power[BYTESIZE * (n - 1)]
    OBVIOUS
  <1> HIDE DEF H
  <1>4. Recursed(size, Int, 0, H)
    BY <1>2, Recursion, 0 \in Int
  <1>5. PICK g \in [0 .. size -> Int] :
            g[0] = 0 /\ \A n \in 1 .. size : g[n] = H[<<n, g[n - 1]>>]
    BY <1>4 DEF Recursed
  <1>6. ASSUME NEW n \in 1 .. size
        PROVE  g[n] = g[n - 1] + buffer[first + (size - n)] * Power[BYTESIZE * (n - 1)]
    <2>1. n - 1 \in 0 .. size
      OBVIOUS
    <2>2. g[n - 1] \in Int /\ g[n] = H[<<n, g[n - 1]>>]
      BY <1>5, <2>1
    <2> QED
      BY <1>3, <2>2
  <1>7. g = Body(g)
    BY <1>5, <1>6
  <1> DEFINE rv == CHOOSE f : f = Body(f)
  <1>8. W!Bytes(buffer, first, size) = rv[size]
    BY WordPower DEF W!Bytes
  <1>9. rv = Body(rv)
    <2> HIDE DEF Body
    <2> QED
      BY <1>7
  <1> HIDE DEF rv
  <1>10. Summing(buffer, first, size, rv)
    <2>1. \A n \in 0 .. size : rv[n] = Body(rv)[n]
      BY <1>9
    <2>2. 0 \in 0 .. size
      OBVIOUS
    <2>3. rv[0] = 0
      BY <2>1, <2>2
    <2>4. \A n \in 1 .. size : n \in 0 .. size /\ n # 0
      OBVIOUS
    <2>5. \A n \in 1 .. size :
              rv[n] = rv[n - 1] + buffer[first + (size - n)] * Power[BYTESIZE * (n - 1)]
      BY <2>1, <2>4
    <2> QED
      BY <1>8, <2>3, <2>5 DEF Summing
  <1> QED
    BY <1>10
LEMMA BytesAbove ==
    ASSUME NEW size \in Nat, NEW n \in 1 .. size
    PROVE  /\ Power[BYTESIZE * (n - 1)] \in Nat \ {0}
           /\ Power[BYTESIZE * n] = Power[BYTESIZE * (n - 1)] * W!Width(1)
  <1>1. BYTESIZE \in Nat /\ n - 1 \in Nat
    BY WordsAssumption
  <1>2. BYTESIZE * (n - 1) \in Nat /\ BYTESIZE * n = BYTESIZE * (n - 1) + BYTESIZE
    BY <1>1
  <1>3. W!Width(1) = Power[BYTESIZE]
    BY <1>1, Widths, BYTESIZE * 1 = BYTESIZE DEF WordTypes, W!BOOL
  <1> QED
    BY <1>1, <1>2, <1>3, Powers, PowerOfSum

\* ld_bytes gives what so many bytes may hold.
LEMMA BytesRange ==
    ASSUME NEW buffer \in Buffer, NEW first \in Nat, NEW size \in Nat, first + size <= NI
    PROVE  W!Bytes(buffer, first, size) \in 0 .. Power[BYTESIZE * size] - 1
  <1>1. PICK rv : Summing(buffer, first, size, rv)
    BY Summed
  <1> DEFINE S == {n \in 0 .. size : rv[n] \in 0 .. Power[BYTESIZE * n] - 1}
  <1>2. 0 \in S
    <2>1. BYTESIZE * 0 = 0
      BY WordsAssumption
    <2> QED
      BY <1>1, <2>1, Powers DEF Summing
  <1>3. ASSUME NEW n \in 1 .. size, n - 1 \in S PROVE n \in S
    <2> DEFINE p == Power[BYTESIZE * (n - 1)]
               w == W!Width(1)
               b == buffer[first + (size - n)]
               r == rv[n - 1]
    <2>1. p \in Nat \ {0} /\ Power[BYTESIZE * n] = p * w
      BY BytesAbove
    <2>2. w \in Nat \ {0}
      BY Widths DEF WordTypes
    <2>3. first + (size - n) \in 0 .. NI - 1
      BY WordsAssumption
    <2>4. b \in 0 .. w - 1
      BY <2>3 DEF Buffer, Byte
    <2>5. r \in 0 .. p - 1
      BY <1>3
    <2>6. rv[n] = r + b * p
      BY <1>1 DEF Summing
    <2> HIDE DEF p, w, b, r
    <2>7. b * p >= 0 /\ b * p <= (w - 1) * p
      BY <2>1, <2>2, <2>4
    <2>8. (w - 1) * p = p * w - p
      BY <2>1, <2>2
    <2>9. r + b * p \in 0 .. p * w - 1
      BY <2>1, <2>2, <2>4, <2>5, <2>7, <2>8
    <2> QED
      BY <2>1, <2>6, <2>9
  <1> HIDE DEF S
  <1>4. \A n \in 0 .. size : n \in S
    BY <1>2, <1>3, Induction
  <1>5. size \in S
    BY <1>4
  <1> QED
    BY <1>1, <1>5 DEF S, Summing

\* ld_bytes puts together what is taken apart into bytes, the highest first.
LEMMA BytesOfDigits ==
    ASSUME NEW buffer \in Buffer, NEW first \in Nat, NEW size \in Nat, first + size <= NI,
           NEW v \in 0 .. Power[BYTESIZE * size] - 1,
           \A n \in 1 .. size : buffer[first + (size - n)]
                                    = (v \div Power[BYTESIZE * (n - 1)]) % W!Width(1)
    PROVE  W!Bytes(buffer, first, size) = v
  <1>0. BYTESIZE * size \in Nat
    BY WordsAssumption
  <1>1. PICK rv : Summing(buffer, first, size, rv)
    BY Summed
  <1>a. Power[BYTESIZE * size] \in Nat \ {0} /\ v \in Int
    BY <1>0, Powers
  <1> DEFINE S == {n \in 0 .. size : rv[n] = v % Power[BYTESIZE * n]}
  <1>2. 0 \in S
    <2>1. BYTESIZE * 0 = 0 /\ Power[0] = 1
      BY WordsAssumption, Powers
    <2>2. v % 1 = 0
      BY <1>a
    <2> QED
      BY <1>1, <2>1, <2>2 DEF Summing
  <1>3. ASSUME NEW n \in 1 .. size, n - 1 \in S PROVE n \in S
    <2> DEFINE p == Power[BYTESIZE * (n - 1)]
               w == W!Width(1)
    <2>1. p \in Nat \ {0} /\ Power[BYTESIZE * n] = p * w
      BY BytesAbove
    <2>2. w \in Nat \ {0}
      BY Widths DEF WordTypes
    <2>3. rv[n] = (v % p) + ((v \div p) % w) * p
      BY <1>1, <1>3 DEF Summing
    <2> HIDE DEF p, w
    <2>4. v % (p * w) = ((v \div p) % w) * p + (v % p)
      BY <1>a, <2>1, <2>2, RestInSteps
    <2>5. v % p \in Int /\ (v \div p) \in Int
      BY <1>a, <2>1, Division
    <2>6. (v \div p) % w \in Int
      BY <2>2, <2>5, Division
    <2>7. ((v \div p) % w) * p \in Int
      BY <2>1, <2>6
    <2>8. rv[n] = v % (p * w)
      BY <2>3, <2>4, <2>5, <2>7
    <2> QED
      BY <2>1, <2>8
  <1> HIDE DEF S
  <1>4. \A n \in 0 .. size : n \in S
    BY <1>2, <1>3, Induction
  <1>5. size \in S
    BY <1>4
  <1>6. v % Power[BYTESIZE * size] = v
    BY <1>a, DivisionBelow
  <1> QED
    BY <1>1, <1>5, <1>6 DEF S, Summing

\* One byte is loaded as it is.
LEMMA FirstByte ==
    ASSUME NEW buffer \in Buffer, NEW first \in 0 .. NI - 1
    PROVE  W!Bytes(buffer, first, 1) = buffer[first]
  <1>1. first \in Nat /\ 1 \in Nat /\ first + 1 <= NI /\ NI \in Nat
    BY WordsAssumption
  <1>2. PICK rv : Summing(buffer, first, 1, rv)
    BY <1>1, Summed
  <1>3. 1 \in 1 .. 1 /\ 1 - 1 = 0 /\ BYTESIZE * 0 = 0 /\ Power[0] = 1 /\ first + (1 - 1) = first
    BY <1>1, WordsAssumption, Powers
  <1>4. rv[1] = 0 + buffer[first] * 1
    BY <1>2, <1>3 DEF Summing
  <1>5. buffer[first] \in Int
    BY Widths DEF Buffer, Byte, WordTypes
  <1> QED
    BY <1>2, <1>4, <1>5 DEF Summing
-----------------------------------------------------------------------------
(* What the accumulator may hold.                                          *)

Types == {W!BOOL, W!REAL, 1} \cup Sizes
Acc == [real : BOOLEAN, v : Int]

\* The value a fits the type, or is a real number.
Fits(a, type) == a \in Acc /\ (~a.real => type # W!REAL /\ a.v \in 0 .. W!Width(type) - 1)

LEMMA TypesOfWords == Types \ {W!REAL} \subseteq WordTypes
  BY WordsAssumption DEF Types, WordTypes, W!BOOL, W!REAL

LEMMA AsWordRange ==
    ASSUME NEW a \in Acc, NEW type \in WordTypes
    PROVE  W!AsWord(a, type) \subseteq 0 .. W!Width(type) - 1
  <1>1. W!Width(type) \in Nat \ {0} /\ 1 < W!Width(type) /\ a.v \in Int
    BY Widths DEF Acc
  <1>2. a.v % W!Width(type) \in 0 .. W!Width(type) - 1
    BY <1>1, Division
  <1>3. W!Truth(a.v) \in 0 .. W!Width(type) - 1
    BY <1>1 DEF W!Truth
  <1>4. {0, 1} \subseteq 0 .. W!Width(type) - 1
    BY <1>1
  <1> QED
    BY <1>2, <1>3, <1>4 DEF W!AsWord

LEMMA AsRealRange == \A a \in Acc : W!AsReal(a) \subseteq Int
  BY WordsAssumption DEF Acc, W!AsReal

\* What a bitwise operation computes bit by bit is a number.
LEMMA BitwiseRange ==
    ASSUME NEW op \in W!BitOperations, NEW a \in Int, NEW b \in Int
    PROVE  W!Bitwise(op, a, b) \in Int
  <1> DEFINE n == 8 * BYTESIZE
             bit(k) == W!OfBits(op, W!BitIn(a, k - 1), W!BitIn(b, k - 1))
             Body(g) == [k \in 0 .. n |-> IF k = 0 THEN 0 ELSE g[k - 1] + Power[k - 1] * bit(k)]
             H == [p \in (1 .. n) \X Int |-> p[2] + Power[p[1] - 1] * bit(p[1])]
  <1>0. n \in Nat
    BY WordsAssumption
  <1> HIDE DEF n
  <1>1. ASSUME NEW k \in 1 .. n PROVE Power[k - 1] * bit(k) \in Int
    <2>1. k - 1 \in Nat
      BY <1>0
    <2>2. Power[k - 1] \in Int
      BY <2>1, Powers
    <2>3. W!BitIn(a, k - 1) = BitIn(a, k - 1) /\ W!BitIn(b, k - 1) = BitIn(b, k - 1)
      BY WordPower DEF W!BitIn, BitIn
    <2>4. BitIn(a, k - 1) \in Int /\ BitIn(b, k - 1) \in Int
      BY <2>1, BitRange
    <2>5. bit(k) \in Int
      BY <2>3, <2>4 DEF W!OfBits, W!BitOperations
    <2> HIDE DEF bit
    <2> QED
      BY <2>2, <2>5
  <1> HIDE DEF bit
  <1>2. H \in [(1 .. n) \X Int -> Int]
    BY <1>1
  <1>3. \A k \in 1 .. n, v \in Int : H[<<k, v>>] = v + Power[k - 1] * bit(k)
    OBVIOUS
  <1> HIDE DEF H
  <1>4. Recursed(n, Int, 0, H)
    BY <1>0, <1>2, Recursion, 0 \in Int
  <1>5. PICK g \in [0 .. n -> Int] : g[0] = 0 /\ \A k \in 1 .. n : g[k] = H[<<k, g[k - 1]>>]
    BY <1>4 DEF Recursed
  <1>6. ASSUME NEW k \in 1 .. n PROVE g[k] = g[k - 1] + Power[k - 1] * bit(k)
    <2>1. k - 1 \in 0 .. n
      BY <1>0
    <2>2. g[k - 1] \in Int /\ g[k] = H[<<k, g[k - 1]>>]
      BY <1>5, <2>1
    <2> QED
      BY <1>3, <2>2
  <1>7. g = Body(g)
    BY <1>5, <1>6
  <1> DEFINE low == CHOOSE f : f = Body(f)
  <1>8. W!Bitwise(op, a, b) = low[n]
    BY WordPower DEF W!Bitwise, n, bit
  <1>9. low = Body(low)
    <2> HIDE DEF Body
    <2> QED
      BY <1>7
  <1> HIDE DEF low
  <1> DEFINE S == {k \in 0 .. n : low[k] \in Int}
  <1>10. \A k \in 0 .. n : low[k] = Body(low)[k]
    BY <1>9
  <1>11. 0 \in S
    BY <1>0, <1>10
  <1>12. ASSUME NEW k \in 1 .. n, k - 1 \in S PROVE k \in S
    <2>1. k \in 0 .. n /\ k # 0
      BY <1>0
    <2>2. low[k] = low[k - 1] + Power[k - 1] * bit(k)
      BY <1>10, <2>1
    <2>3. low[k - 1] \in Int /\ Power[k - 1] * bit(k) \in Int
      BY <1>1, <1>12
    <2> QED
      BY <2>1, <2>2, <2>3
  <1> HIDE DEF S
  <1>13. \A k \in 0 .. n : k \in S
    BY <1>0, <1>11, <1>12, Induction
  <1>14. n \in S
    BY <1>0, <1>13
  <1> QED
    BY <1>8, <1>14 DEF S

LEMMA OperateRange ==
    ASSUME NEW op \in W!Operations, NEW type \in Types, NEW negated \in BOOLEAN,
           NEW a \in Acc, NEW b \in Acc,
           NEW r \in W!Operate(op, type, negated, a, b)
    PROVE  Fits(r, type)
  <1>1. CASE type = W!REAL
    <2>1. \E v \in Reals : r = W!Real(v)
      BY <1>1 DEF W!Operate
    <2> QED
      BY <2>1, WordsAssumption DEF W!Real, Acc, Fits
  <1>2. CASE type # W!REAL
    <2>1. type \in WordTypes
      BY <1>2, TypesOfWords
    <2> DEFINE y(w) == IF negated THEN W!Complement(type, w) ELSE w
    <2>2. PICK x \in W!AsWord(a, type), w \in W!AsWord(b, type) :
              r = W!Word(W!Truncated(type, W!OperateU(op, x, y(w))))
      BY <1>2 DEF W!Operate
    <2>3. W!Width(type) \in Nat \ {0} /\ 1 < W!Width(type) /\ W!Width(W!BOOL) = 2
      BY <2>1, Widths
    <2>4. x \in 0 .. W!Width(type) - 1 /\ w \in 0 .. W!Width(type) - 1
      BY <2>1, AsWordRange
    <2>5. x \in Nat /\ y(w) \in Nat
      BY <2>3, <2>4 DEF W!Complement
    <2> HIDE DEF y
    <2>6. W!OperateU(op, x, y(w)) \in Int
      <3>1. CASE op \in W!BitOperations
        <4>1. W!OperateU(op, x, y(w)) = W!Bitwise(op, x, y(w))
          BY <3>1 DEF W!OperateU, W!BitOperations, W!Comparisons
        <4> QED
          BY <2>5, <3>1, <4>1, BitwiseRange
      <3>2. CASE op \in W!Comparisons
        BY <3>2 DEF W!OperateU, W!Comparisons, W!BitOperations, W!Compare
      <3>3. CASE op \in W!Arithmetic
        <4>1. y(w) # 0 => x \div y(w) \in Int
          BY <2>5, Division
        <4> QED
          BY <2>5, <3>3, <4>1 DEF W!OperateU, W!Arithmetic, W!BitOperations, W!Comparisons
      <3> QED
        BY <3>1, <3>2, <3>3 DEF W!Operations
    <2> DEFINE u == W!OperateU(op, x, y(w))
    <2>7. u \in Int
      BY <2>6
    <2>8. r = W!Word(W!Truncated(type, u))
      BY <2>2
    <2> HIDE DEF u
    <2>9. W!Truncated(type, u) \in 0 .. W!Width(type) - 1
      <3>1. u % W!Width(type) \in 0 .. W!Width(type) - 1
        BY <2>3, <2>7, Division
      <3>2. W!Truth(u) \in 0 .. W!Width(type) - 1
        BY <2>3 DEF W!Truth
      <3> QED
        BY <3>1, <3>2 DEF W!Truncated
    <2> QED
      BY <1>2, <2>3, <2>8, <2>9 DEF W!Word, Acc, Fits
  <1> QED
    BY <1>1, <1>2
\* What the registers and the accumulator of a list may be.
Frames == [operation : W!Operations, type : Types, value : Acc]

WordRegisters ==
    /\ list \in Lists
    /\ inputs \in Buffer /\ outputs \in Buffer /\ qbit \in [0 .. NI - 1 -> {0, 1}]
    /\ mem \in [V : Int, PULSE : {0, 1}] /\ mr \in Int
    /\ wacc \in Acc /\ wstack \in Seq(Frames)
    /\ made.negated \in BOOLEAN

\* The operands of each kind of register.
LEMMA OperandTypes ==
    ASSUME NEW o \in W!Operands
    PROVE  /\ o.letter \in {"i", "q", "m", "t", "r", "b", "c", "if", "qf", "mf"}
           /\ o.byte \in Nat
           /\ o.letter \in {"if", "qf", "mf"} <=> o.type = W!REAL
           /\ o.letter \in {"i", "q", "m", "t"} => o.type \in {W!BOOL} \cup Sizes
           /\ o.letter \in {"r", "b", "c"} => o.type \in {W!BOOL, 1}
  BY WordsAssumption DEF W!Operands, W!RealOperands, W!BOOL, W!REAL

\* Whole words have a type of so many bytes.
LEMMA WholeTypes ==
    ASSUME NEW type \in {W!BOOL} \cup Sizes, type # W!BOOL
    PROVE  type \in Nat /\ type >= 1 /\ type - 1 \in Nat /\ type \in WordTypes \ {W!BOOL}
           /\ W!Width(type) = Power[BYTESIZE * type] /\ type # W!REAL
  <1>1. type \in {1, 2, 4, 8}
    BY WordsAssumption
  <1>2. type \in WordTypes \ {W!BOOL}
    BY <1>1 DEF WordTypes, W!BOOL
  <1> QED
    BY <1>1, <1>2, Widths DEF W!REAL

LEMMA WordBytes ==
    ASSUME NEW buffer \in Buffer, NEW first \in Nat, NEW type \in {W!BOOL} \cup Sizes,
           type # W!BOOL, first + (type - 1) < NI
    PROVE  W!Bytes(buffer, first, type) \in 0 .. W!Width(type) - 1
  <1>1. type \in Nat /\ W!Width(type) = Power[BYTESIZE * type]
    BY WholeTypes
  <1>2. first + type <= NI
    BY <1>1, WordsAssumption
  <1> QED
    BY <1>1, <1>2, BytesRange

\* What made notes of the type of a loaded operand.
MadeType(o) == IF o.letter = "c" THEN 1 ELSE o.type

LEMMA ContentsByLetter ==
    ASSUME NEW o \in W!Operands
    PROVE  W!Contents(o) = CASE o.letter = "i" -> W!InputContents(o)
                             [] o.letter = "q" -> W!OutputContents(o)
                             [] o.letter = "m" -> W!MemoryContents(o)
                             [] o.letter = "t" -> W!TimerContents(o)
                             [] o.letter = "b" -> W!BitContents(o)
                             [] o.letter = "r" -> {0, 1}
                             [] o.letter = "c" -> 0 .. W!Width(1) - 1
                             [] o.letter \in {"if", "qf", "mf"} -> W!RealContents(o)
  <1>1. o.letter \in {"if", "qf", "mf"} <=> o.type = W!REAL
    BY OperandTypes
  <1> QED
    BY <1>1 DEF W!Contents, W!EdgeContents

LEMMA ContentsRange ==
    ASSUME WordRegisters, NEW o \in W!Operands, W!IsPresent(o), NEW c \in W!Contents(o)
    PROVE  IF o.type = W!REAL THEN c \in Int ELSE c \in 0 .. W!Width(MadeType(o)) - 1
  <1>1. W!Width(W!BOOL) = 2 /\ W!Width(1) \in Nat /\ 1 < W!Width(1) /\ W!BOOL # W!REAL
    BY Widths DEF WordTypes, W!BOOL, W!REAL
  <1>2. CASE o.letter \in {"i", "q"}
    <2>1. CASE o.type = W!BOOL
      <3>1. o.letter = "q" => o.byte \in 0 .. NI - 1
        BY <2>1, OperandTypes, WordsAssumption DEF W!IsPresent, W!Offset
      <3>2. o.letter = "q" => qbit[o.byte] \in {0, 1}
        BY <3>1 DEF WordRegisters
      <3>3. c \in W!BitContents(o)
        BY <1>2, <2>1, ContentsByLetter DEF W!InputContents, W!OutputContents, W!Whole
      <3>4. c \in {0, 1}
        BY <1>2, <3>2, <3>3 DEF W!BitContents
      <3> QED
        BY <1>1, <1>2, <2>1, <3>4 DEF MadeType
    <2>2. CASE o.type # W!BOOL
      <3>1. o.type \in {W!BOOL} \cup Sizes /\ o.type # W!REAL /\ o.byte \in Nat
        BY <1>2, OperandTypes
      <3>2. W!Whole(o) /\ o.byte + (o.type - 1) < NI
        BY <1>2, <2>2, <3>1 DEF W!IsPresent, W!Offset, W!Whole
      <3>3. c \in {W!Bytes(inputs, o.byte, o.type), W!Bytes(outputs, o.byte, o.type)}
        BY <1>2, <3>2, ContentsByLetter DEF W!InputContents, W!OutputContents
      <3>4. c \in 0 .. W!Width(o.type) - 1
        BY <2>2, <3>1, <3>2, <3>3, WordBytes DEF WordRegisters
      <3> QED
        BY <1>2, <3>1, <3>4 DEF MadeType
    <2> QED
      BY <2>1, <2>2
  <1>3. CASE o.letter \in {"m", "t"}
    <2>1. o.type \in {W!BOOL} \cup Sizes /\ o.type # W!REAL
      BY <1>3, OperandTypes
    <2>2. CASE o.type = W!BOOL
      <3>1. c \in W!BitContents(o)
        BY <1>3, <2>2, ContentsByLetter DEF W!MemoryContents, W!TimerContents, W!Whole
      <3>2. c \in {0, 1}
        BY <1>3, <3>1 DEF W!BitContents, WordRegisters
      <3> QED
        BY <1>1, <1>3, <2>2, <3>2 DEF MadeType
    <2>3. CASE o.type # W!BOOL
      <3>1. W!Whole(o)
        BY <2>1, <2>3 DEF W!Whole
      <3>2. c = mem.V % W!Width(o.type) \/ c \in 0 .. W!Width(o.type) - 1
        BY <1>3, <3>1, ContentsByLetter DEF W!MemoryContents, W!TimerContents
      <3>3. W!Width(o.type) \in Nat \ {0}
        BY <2>1, <2>3, WholeTypes, Widths
      <3>4. mem.V % W!Width(o.type) \in 0 .. W!Width(o.type) - 1
        BY <3>3, Division DEF WordRegisters
      <3> QED
        BY <1>3, <2>1, <3>2, <3>4 DEF MadeType
    <2> QED
      BY <2>2, <2>3
  <1>4. CASE o.letter \in {"r", "b"}
    <2>1. c \in {0, 1}
      BY <1>4, ContentsByLetter DEF W!BitContents
    <2>2. o.type \in {W!BOOL, 1} /\ o.type # W!REAL
      BY <1>4, OperandTypes
    <2> QED
      BY <1>1, <1>4, <2>1, <2>2 DEF MadeType
  <1>5. CASE o.letter = "c"
    <2>1. c \in 0 .. W!Width(1) - 1 /\ MadeType(o) = 1 /\ o.type # W!REAL
      BY <1>5, ContentsByLetter, OperandTypes DEF MadeType
    <2> QED
      BY <2>1
  <1>6. CASE o.letter \in {"if", "qf", "mf"}
    <2>1. o.type = W!REAL
      BY <1>6, OperandTypes
    <2>2. c \in W!RealContents(o)
      BY <1>6, <2>1 DEF W!Contents
    <2> QED
      BY <1>6, <2>1, <2>2, WordsAssumption DEF W!RealContents, WordRegisters
  <1> QED
    BY <1>2, <1>3, <1>4, <1>5, <1>6, OperandTypes

\* A value that is loaded fits its type, but for a 0 loaded negated.
LEMMA LoadedRange ==
    ASSUME WordRegisters, NEW o \in W!Operands, W!IsPresent(o), NEW negated \in BOOLEAN,
           NEW r \in W!Loaded(o, negated)
    PROVE  /\ r \in Acc
           /\ Fits(r, MadeType(o)) \/ (negated /\ r.v = W!Width(MadeType(o)))
  <1>0. PICK c \in W!Contents(o) : LET v == IF negated THEN W!Negative(o, c) ELSE c
                                    IN r = IF o.type = W!REAL THEN W!Real(v) ELSE W!Word(v)
    BY DEF W!Loaded
  <1>1. CASE o.type = W!REAL
    <2>1. o.letter \in {"if", "qf", "mf"}
      BY <1>1, OperandTypes
    <2>2. c \in Int
      BY <1>1, <2>1, ContentsRange
    <2>3. W!Negative(o, c) \in Int
      BY <2>1, <2>2 DEF W!Negative
    <2>4. PICK v \in Int : r = W!Real(v)
      BY <1>0, <1>1, <2>2, <2>3
    <2>5. r.real = TRUE /\ r \in Acc
      BY <2>4 DEF W!Real, Acc
    <2> QED
      BY <2>5 DEF Fits
  <1>2. CASE o.type # W!REAL
    <2> DEFINE type == MadeType(o)
               w == W!Width(type)
    <2>1. o.letter \notin {"if", "qf", "mf"}
      BY <1>2, OperandTypes
    <2>2. type \in WordTypes /\ type # W!REAL
      <3>1. o.letter = "c" => type = 1
        BY DEF MadeType
      <3>2. o.letter # "c" => type = o.type /\ type \in (Types \ {W!REAL}) \cup {1}
        <4>1. o.type \in {W!BOOL, 1} \cup Sizes
          BY <2>1, OperandTypes
        <4> QED
          BY <1>2, <4>1 DEF MadeType, Types
      <3>3. 1 \in WordTypes /\ 1 # W!REAL
        BY DEF WordTypes, W!REAL
      <3>4. (Types \ {W!REAL}) \cup {1} \subseteq WordTypes
        BY <3>3, TypesOfWords
      <3> QED
        BY <1>2, <3>1, <3>2, <3>3, <3>4
    <2>3. w \in Nat \ {0} /\ w <= W!Width(8) /\ W!Width(8) \in Nat \ {0} /\ 1 < w
      BY <2>2, Widths DEF WordTypes
    <2>4. c \in 0 .. w - 1
      BY <1>2, ContentsRange
    <2>5. W!Negative(o, c) \in 0 .. w
      <3>1. CASE o.letter \in {"i", "q", "m", "t"} /\ o.type = W!BOOL
        <4>1. type = W!BOOL /\ w = 2
          BY <3>1, Widths DEF MadeType
        <4>2. W!Negative(o, c) = 1 - c
          BY <3>1 DEF W!Negative
        <4> HIDE DEF w, type
        <4> QED
          BY <2>4, <4>1, <4>2
      <3>2. CASE o.letter \in {"i", "q", "m", "t"} /\ o.type # W!BOOL
        <4>1. W!Negative(o, c) = (w - c) % W!Width(8)
          BY <3>2 DEF W!Negative, MadeType
        <4> DEFINE full == W!Width(8)
        <4>2. full \in Nat \ {0} /\ w <= full /\ w \in Nat
          BY <2>3
        <4> HIDE DEF w, full
        <4>3. w - c \in 1 .. full
          BY <2>4, <4>2
        <4>4. CASE w - c = full
          <5>1. full % full = 0
            <6>1. (1 * full) % full = 0
              BY <4>2, MultipleRest
            <6> QED
              BY <4>2, <6>1
          <5> QED
            BY <4>1, <4>2, <4>4, <5>1 DEF full
        <4>5. CASE w - c # full
          <5>1. w - c \in 0 .. full - 1
            BY <4>2, <4>3, <4>5
          <5>2. (w - c) % full = w - c
            BY <4>2, <5>1, DivisionBelow
          <5> QED
            BY <2>4, <4>1, <4>2, <4>3, <5>2 DEF full
        <4> QED
          BY <4>4, <4>5
      <3>3. CASE o.letter \notin {"i", "q", "m", "t"}
        <4>1. W!Negative(o, c) = c
          BY <2>1, <3>3 DEF W!Negative
        <4> HIDE DEF w
        <4> QED
          BY <2>3, <2>4, <4>1
      <3> QED
        BY <3>1, <3>2, <3>3
    <2>6. PICK v \in 0 .. w : r = W!Word(v) /\ (~negated => v \in 0 .. w - 1)
      <3> DEFINE v == IF negated THEN W!Negative(o, c) ELSE c
      <3>1. r = W!Word(v)
        BY <1>0, <1>2
      <3>2. v \in 0 .. w /\ (~negated => v \in 0 .. w - 1)
        <4> HIDE DEF w
        <4> QED
          BY <2>3, <2>4, <2>5
      <3> QED
        BY <3>1, <3>2
    <2>7. v \in Int /\ (v \in 0 .. w - 1 \/ v = w)
      <3> HIDE DEF w
      <3> QED
        BY <2>3, <2>6
    <2>8. r.v = v /\ r.real = FALSE /\ r \in Acc
      BY <2>6, <2>7 DEF W!Word, Acc
    <2> HIDE DEF type
    <2> QED
      BY <2>2, <2>6, <2>7, <2>8 DEF Fits, type
  <1> QED
    BY <1>1, <1>2
\* A store leaves what fits the operand it stores to.
LEMMA StoredRange ==
    ASSUME WordRegisters, NEW o \in W!Operands, NEW negated \in BOOLEAN,
           NEW v \in W!Stored(o, negated)
    PROVE  IF o.type = W!REAL THEN v \in Int
           ELSE o.letter \in {"q", "m"} => v \in 0 .. W!Width(o.type) - 1
  <1>1. CASE o.type = W!REAL
    BY <1>1, AsRealRange DEF W!Stored, WordRegisters, W!REAL, W!BOOL
  <1>2. CASE o.type # W!REAL /\ o.letter \in {"q", "m"}
    <2>1. o.type \in WordTypes /\ o.type \in Nat
      <3>1. o.type \in {W!BOOL} \cup Sizes
        BY <1>2, OperandTypes
      <3>2. W!BOOL \in WordTypes /\ W!BOOL \in Nat
        BY DEF WordTypes, W!BOOL
      <3> QED
        BY <3>1, <3>2, WholeTypes
    <2> DEFINE w == W!Width(o.type)
    <2>2. w \in Nat \ {0} /\ 1 < w
      BY <2>1, Widths
    <2>3. W!AsWord(wacc, o.type) \subseteq 0 .. w - 1
      BY <2>1, AsWordRange DEF WordRegisters
    <2>4. \/ v \in W!AsWord(wacc, o.type)
          \/ v \in {0, 1}
          \/ \E x \in W!AsWord(wacc, o.type) : v = (w - x) % w
      <3>1. o.type = W!BOOL \/ o.type > W!BOOL
        BY <2>1 DEF W!BOOL
      <3>2. CASE ~(negated /\ o.letter = "q")
        BY <1>2, <3>2 DEF W!Stored
      <3>3. CASE negated /\ o.letter = "q" /\ o.type = W!BOOL
        BY <1>2, <3>3 DEF W!Stored, W!BOOL
      <3>4. CASE negated /\ o.letter = "q" /\ o.type > W!BOOL
        <4>1. o.type # W!BOOL
          BY <3>4, <2>1 DEF W!BOOL
        <4> QED
          BY <1>2, <3>4, <4>1 DEF W!Stored
      <3> QED
        BY <3>1, <3>2, <3>3, <3>4
    <2> HIDE DEF w
    <2>5. \A x \in 0 .. w - 1 : (w - x) % w \in 0 .. w - 1
      <3> SUFFICES ASSUME NEW x \in 0 .. w - 1 PROVE (w - x) % w \in 0 .. w - 1
        OBVIOUS
      <3>1. w - x \in Int
        BY <2>2
      <3> QED
        BY <2>2, <3>1, Division
    <2>6. {0, 1} \subseteq 0 .. w - 1
      BY <2>2
    <2>7. v \in 0 .. w - 1
      BY <2>3, <2>4, <2>5, <2>6
    <2> QED
      BY <1>2, <2>7 DEF w
  <1> QED
    BY <1>1, <1>2

\* st_out takes a word apart into bytes that ld_out puts together again, and the
\* first of them has its highest digits.
LEMMA BytesStored ==
    ASSUME WordRegisters, NEW o \in W!Operands, o.letter = "q", o.type # W!BOOL,
           W!IsPresent(o), NEW v \in 0 .. W!Width(o.type) - 1, W!StoreBytes(o, v)
    PROVE  /\ outputs' \in Buffer
           /\ W!Bytes(outputs', o.byte, o.type) = v
           /\ o.type > 1 => W!Bytes(outputs', o.byte, 1) = v \div W!Width(o.type - 1)
  <1> DEFINE size == o.type
             first == o.byte
             digit(k) == (v \div Power[BYTESIZE * k]) % W!Width(1)
  <1>1. size \in Nat /\ size >= 1 /\ size - 1 \in Nat /\ W!Width(size) = Power[BYTESIZE * size]
        /\ first \in Nat /\ size # W!REAL
    <2>1. size \in {W!BOOL} \cup Sizes
      BY OperandTypes
    <2> QED
      BY <2>1, WholeTypes, OperandTypes
  <1>2. W!Offset(o) = size - 1 /\ first + size <= NI /\ BYTESIZE \in Nat /\ NI \in Nat
    <2>1. W!Offset(o) = size - 1
      BY DEF W!Offset
    <2>2. first + (size - 1) < NI
      BY <2>1 DEF W!IsPresent
    <2> QED
      BY <1>1, <2>1, <2>2, WordsAssumption
  <1>3. v \in Int /\ W!Width(1) \in Nat \ {0} /\ W!Width(1) = Power[BYTESIZE]
    BY <1>1, <1>2, Widths, BYTESIZE * 1 = BYTESIZE DEF WordTypes, W!BOOL
  <1>4. ASSUME NEW k \in 0 .. size - 1
        PROVE  digit(k) \in Byte /\ Power[BYTESIZE * k] \in Nat \ {0}
    <2>1. BYTESIZE * k \in Nat
      BY <1>2
    <2>2. Power[BYTESIZE * k] \in Nat \ {0}
      BY <2>1, Powers
    <2>3. v \div Power[BYTESIZE * k] \in Int
      BY <1>3, <2>2, Division
    <2> QED
      BY <1>3, <2>2, <2>3, Division DEF Byte
  <1>5. outputs' = [i \in 0 .. NI - 1 |->
                       IF i \in first .. first + (size - 1)
                       THEN digit(size - 1 - (i - first)) ELSE outputs[i]]
    <2>1. DOMAIN outputs = 0 .. NI - 1
      BY DEF WordRegisters, Buffer
    <2> QED
      BY <1>2, <2>1, WordPower DEF W!StoreBytes
  <1> HIDE DEF digit
  <1>6. outputs' \in Buffer
    <2> SUFFICES ASSUME NEW i \in 0 .. NI - 1
                 PROVE  (IF i \in first .. first + (size - 1)
                         THEN digit(size - 1 - (i - first)) ELSE outputs[i]) \in Byte
      BY <1>5 DEF Buffer
    <2>1. outputs[i] \in Byte
      BY DEF WordRegisters, Buffer
    <2>2. i \in first .. first + (size - 1) => size - 1 - (i - first) \in 0 .. size - 1
      BY <1>1, <1>2
    <2> QED
      BY <1>4, <2>1, <2>2
  <1>7. ASSUME NEW n \in 1 .. size PROVE outputs'[first + (size - n)] = digit(n - 1)
    <2> HIDE DEF size, first
    <2> DEFINE i == first + (size - n)
    <2>1. i \in 0 .. NI - 1 /\ i \in first .. first + (size - 1)
      BY <1>1, <1>2
    <2>2. i - first = size - n
      BY <1>1
    <2>3. size - 1 - (size - n) = n - 1
      BY <1>1
    <2> HIDE DEF i
    <2>4. outputs'[i] = digit(size - 1 - (i - first))
      BY <1>5, <2>1
    <2> QED
      BY <2>2, <2>3, <2>4 DEF i
  <1>8. W!Bytes(outputs', first, size) = v
    <2>1. \A n \in 1 .. size : outputs'[first + (size - n)]
                                  = (v \div Power[BYTESIZE * (n - 1)]) % W!Width(1)
      BY <1>7 DEF digit
    <2>2. v \in 0 .. Power[BYTESIZE * size] - 1
      BY <1>1
    <2> HIDE DEF size, first
    <2> QED
      BY <1>1, <1>2, <1>6, <2>1, <2>2, BytesOfDigits
  <1>9. ASSUME size > 1 PROVE W!Bytes(outputs', first, 1) = v \div W!Width(size - 1)
    <2>1. size \in 1 .. size /\ first + (size - size) = first /\ first \in 0 .. NI - 1
      BY <1>1, <1>2
    <2>2. W!Bytes(outputs', first, 1) = digit(size - 1)
      BY <1>6, <1>7, <2>1, FirstByte
    <2> DEFINE p == Power[BYTESIZE * (size - 1)]
               w == W!Width(1)
    <2>3. p \in Nat \ {0} /\ Power[BYTESIZE * size] = p * w
      BY <1>1, <2>1, BytesAbove
    <2>4. W!Width(size - 1) = p
      <3>1. size - 1 # W!BOOL /\ (size - 1) * BYTESIZE = BYTESIZE * (size - 1)
        BY <1>1, <1>2, <1>9 DEF W!BOOL
      <3> QED
        BY <3>1, WordPower DEF W!Width
    <2>5. w \in Nat \ {0} /\ v \in 0 .. p * w - 1
      BY <1>1, <1>3, <2>3
    <2> DEFINE q == v \div p
    <2> HIDE DEF p, w
    <2>6. q \in Int /\ v % p \in 0 .. p - 1 /\ v = q * p + (v % p)
      BY <1>3, <2>3, Division
    <2> DEFINE r == v % p
    <2> HIDE DEF q, r
    <2>7. r \in 0 .. p - 1 /\ v = q * p + r
      BY <2>6 DEF r
    <2>8. q >= 0
      <3> SUFFICES ASSUME q <= -1 PROVE FALSE
        BY <2>6
      <3>1. q * p <= (-1) * p
        BY <2>3, <2>6
      <3> QED
        BY <2>3, <2>5, <2>6, <2>7, <3>1
    <2>9. q <= w - 1
      <3> SUFFICES ASSUME q >= w PROVE FALSE
        BY <2>5, <2>6
      <3>1. q * p >= w * p
        BY <2>3, <2>5, <2>6
      <3>2. w * p = p * w
        BY <2>3, <2>5
      <3> QED
        BY <2>3, <2>5, <2>6, <2>7, <3>1, <3>2
    <2>10. q \in 0 .. w - 1
      BY <2>5, <2>6, <2>8, <2>9
    <2>11. q % w = q
      BY <2>5, <2>10, DivisionBelow
    <2> QED
      BY <2>2, <2>4, <2>11 DEF digit, q, p, w
  <1> QED
    BY <1>6, <1>8, <1>9
-----------------------------------------------------------------------------
(* The invariant of a list of instructions.                                *)

WordInv == WordRegisters /\ ValueFits /\ StoredIsLoaded

\* What fits its type is what ValueFits wants of the accumulator.
LEMMA FitsWell ==
    ASSUME NEW type, NEW negated \in BOOLEAN,
           wacc' \in Acc, Fits(wacc', type) \/ (negated /\ wacc'.v = W!Width(type)),
           made' = [type |-> type, negated |-> negated]
    PROVE  ValueFits' /\ made'.negated \in BOOLEAN
  BY DEF ValueFits, W!ValueFits, Fits

\* What leaves the registers alone leaves alone what is loaded from them.
LEMMA RegistersKept ==
    ASSUME StoredIsLoaded, UNCHANGED <<list, inputs, outputs, qbit, mem, mr, last>>
    PROVE  StoredIsLoaded'
  <1> DEFINE o == last.at
  <1>1. o' = o
    OBVIOUS
  <1>2. /\ W!InputContents(o)' = W!InputContents(o) /\ W!OutputContents(o)' = W!OutputContents(o)
        /\ W!MemoryContents(o)' = W!MemoryContents(o) /\ W!TimerContents(o)' = W!TimerContents(o)
    <2>1. W!BitContents(o)' = W!BitContents(o)
      BY DEF W!BitContents
    <2> QED
      BY <2>1 DEF W!InputContents, W!OutputContents, W!MemoryContents, W!TimerContents, W!Whole
  <1>3. W!BitContents(o)' = W!BitContents(o) /\ W!RealContents(o)' = W!RealContents(o)
    BY DEF W!BitContents, W!RealContents
  <1>4. W!Contents(o)' = W!Contents(o)
    BY <1>2, <1>3 DEF W!Contents, W!EdgeContents
  <1> QED
    BY <1>4 DEF StoredIsLoaded, W!StoredIsLoaded

LEMMA WordInit == W!Init => WordInv
  <1> SUFFICES ASSUME W!Init PROVE WordInv
    OBVIOUS
  <1>1. 0 \in Byte /\ 0 \in 0 .. W!Width(W!BOOL) - 1
    BY Widths DEF Byte, WordTypes
  <1>2. inputs \in Buffer
    BY WordsAssumption DEF W!Init, Buffer, Byte
  <1>3. outputs \in Buffer /\ qbit \in [0 .. NI - 1 -> {0, 1}]
    BY <1>1 DEF W!Init, Buffer
  <1>4. wacc \in Acc /\ wstack \in Seq(Frames)
    BY DEF W!Init, W!Word, Acc
  <1>5. ValueFits
    BY <1>1 DEF ValueFits, W!ValueFits, W!Init, W!Word
  <1>6. StoredIsLoaded
    BY DEF StoredIsLoaded, W!StoredIsLoaded, W!Init
  <1> QED
    BY <1>2, <1>3, <1>4, <1>5, <1>6 DEF W!Init, WordInv, WordRegisters

\* An instruction that leaves the registers alone need only leave the
\* accumulator and the stack as they should be.
LEMMA Accumulates ==
    ASSUME WordInv, UNCHANGED <<list, inputs, outputs, qbit, mem, mr, last>>,
           wacc' \in Acc, wstack' \in Seq(Frames), ValueFits', made'.negated \in BOOLEAN
    PROVE  WordInv'
  <1>1. StoredIsLoaded'
    BY RegistersKept DEF WordInv
  <1> QED
    BY <1>1 DEF WordInv, WordRegisters

LEMMA LoadKeeps ==
    ASSUME WordInv, NEW o \in W!Operands, NEW negated \in BOOLEAN, W!Load(o, negated)
    PROVE  WordInv'
  <1>1. wacc' \in Acc
        /\ (Fits(wacc', MadeType(o)) \/ (negated /\ wacc'.v = W!Width(MadeType(o))))
    BY LoadedRange DEF WordInv, W!Load
  <1>2. made' = [type |-> MadeType(o), negated |-> negated]
    BY DEF W!Load, W!Made, MadeType
  <1>3. ValueFits' /\ made'.negated \in BOOLEAN
    BY <1>1, <1>2, FitsWell
  <1> QED
    BY <1>1, <1>3, Accumulates DEF W!Load, W!registers, WordInv, WordRegisters

LEMMA ApplyKeeps ==
    ASSUME WordInv, NEW o \in W!Operands, NEW op \in W!Operations, NEW negated \in BOOLEAN,
           W!Apply(op, o, negated)
    PROVE  WordInv'
  <1>1. \A v \in W!OperandValue(o) : v \in Acc
    <2>1. W!Word(0) \in Acc
      BY DEF W!Word, Acc
    <2>2. W!IsPresent(o) => \A v \in W!Loaded(o, FALSE) : v \in Acc
      BY LoadedRange DEF WordInv
    <2> QED
      BY <2>1, <2>2 DEF W!OperandValue
  <1>2. PICK v \in W!OperandValue(o) : wacc' \in W!Operate(op, o.type, negated, wacc, v)
    BY DEF W!Apply
  <1>3. o.type \in Types
    BY OperandTypes DEF Types
  <1>4. Fits(wacc', o.type)
    BY <1>1, <1>2, <1>3, OperateRange DEF WordInv, WordRegisters
  <1>5. ValueFits' /\ made'.negated \in BOOLEAN
    <2>1. made' = [type |-> o.type, negated |-> FALSE] /\ wacc' \in Acc
      BY <1>4 DEF W!Apply, Fits
    <2> QED
      BY <1>4, <2>1, FitsWell
  <1> QED
    BY <1>4, <1>5, Accumulates DEF W!Apply, W!registers, WordInv, WordRegisters, Fits

LEMMA PushKeeps ==
    ASSUME WordInv, NEW o \in W!Operands, NEW op \in W!Operations, W!PushAndLoad(op, o)
    PROVE  WordInv'
  <1>1. wstack' \in Seq(Frames)
    <2>1. [operation |-> op, type |-> o.type, value |-> wacc] \in Frames
      BY OperandTypes DEF Frames, Types, WordInv, WordRegisters
    <2> DEFINE f == [operation |-> op, type |-> o.type, value |-> wacc]
    <2>2. wstack' \in {<<f>> \o wstack, wstack}
      BY DEF W!PushAndLoad
    <2> HIDE DEF f
    <2>3. f \in Frames /\ wstack \in Seq(Frames)
      BY <2>1 DEF f, WordInv, WordRegisters
    <2>4. <<f>> \in Seq(Frames)
      BY <2>3
    <2>5. <<f>> \o wstack \in Seq(Frames)
      BY <2>3, <2>4
    <2> QED
      BY <2>2, <2>3, <2>5
  <1>2. UNCHANGED <<list, inputs, outputs, qbit, mem, mr, last>>
    BY DEF W!PushAndLoad, W!registers
  <1>3. CASE W!IsPresent(o)
    <2>1. wacc' \in Acc /\ (Fits(wacc', MadeType(o)) \/ (FALSE /\ wacc'.v = W!Width(MadeType(o))))
      BY <1>3, LoadedRange DEF WordInv, W!PushAndLoad
    <2>2. made' = [type |-> MadeType(o), negated |-> FALSE]
      BY <1>3 DEF W!PushAndLoad, W!Made, MadeType
    <2>3. ValueFits' /\ made'.negated \in BOOLEAN
      BY <2>1, <2>2, FitsWell
    <2> QED
      BY <1>1, <1>2, <2>1, <2>3, Accumulates
  <1>4. CASE ~W!IsPresent(o)
    <2>1. UNCHANGED <<wacc, made>>
      BY <1>4 DEF W!PushAndLoad
    <2>2. ValueFits' /\ wacc' \in Acc /\ made'.negated \in BOOLEAN
      BY <2>1 DEF WordInv, WordRegisters, ValueFits, W!ValueFits
    <2> QED
      BY <1>1, <1>2, <2>2, Accumulates
  <1> QED
    BY <1>3, <1>4

LEMMA PopKeeps ==
    ASSUME WordInv, W!Pop
    PROVE  WordInv'
  <1>1. wstack \in Seq(Frames) /\ wstack # <<>>
    BY DEF WordInv, WordRegisters, W!Pop
  <1>2. wstack[1] \in Frames /\ Tail(wstack) \in Seq(Frames)
    BY <1>1
  <1>3. wstack[1].operation \in W!Operations /\ wstack[1].type \in Types /\ wstack[1].value \in Acc
    BY <1>2 DEF Frames
  <1>4. Fits(wacc', wstack[1].type)
    BY <1>3, OperateRange DEF W!Pop, WordInv, WordRegisters
  <1>5. ValueFits' /\ made'.negated \in BOOLEAN
    <2>1. made' = [type |-> wstack[1].type, negated |-> FALSE] /\ wacc' \in Acc
      BY <1>4 DEF W!Pop, Fits
    <2> QED
      BY <1>4, <2>1, FitsWell
  <1>6. wstack' = Tail(wstack) /\ UNCHANGED <<list, inputs, outputs, qbit, mem, mr, last>>
    BY DEF W!Pop, W!registers
  <1> QED
    BY <1>2, <1>4, <1>5, <1>6, Accumulates DEF Fits

LEMMA StoreKeeps ==
    ASSUME WordInv, NEW o \in W!Operands, NEW negated \in BOOLEAN, W!Store(o, negated)
    PROVE  WordInv'
  <1>1. PICK v \in W!Stored(o, negated) :
            /\ W!StoreOutput(o, v) \/ W!StoreMemory(o, v) \/ W!StoreReal(o, v)
            /\ last' = [at |-> o, v |-> v]
    BY DEF W!Store
  <1>2. W!IsPresent(o) /\ UNCHANGED <<list, inputs, wacc, wstack, made>> /\ WordRegisters
    BY DEF W!Store, WordInv
  <1>3. ValueFits'
    BY <1>2 DEF WordInv, ValueFits, W!ValueFits
  <1>4. IF o.type = W!REAL THEN v \in Int
        ELSE o.letter \in {"q", "m"} => v \in 0 .. W!Width(o.type) - 1
    BY <1>2, StoredRange
  <1>5. W!Width(W!BOOL) = 2 /\ W!BOOL # W!REAL
    BY Widths DEF W!BOOL, W!REAL
  <1> DEFINE Kept == /\ outputs' \in Buffer /\ qbit' \in [0 .. NI - 1 -> {0, 1}]
                     /\ mem' \in [V : Int, PULSE : {0, 1}] /\ mr' \in Int
             Loads == /\ W!Contents(o)' = {v}
                      /\ o.letter = "q" /\ o.type > 1 =>
                            W!Bytes(outputs', o.byte, 1) = v \div W!Width(o.type - 1)
  <1>6. ASSUME W!StoreOutput(o, v), o.type = W!BOOL PROVE Kept /\ Loads
    <2>1. o.letter = "q" /\ v \in {0, 1}
      BY <1>4, <1>5, <1>6 DEF W!StoreOutput
    <2>2. o.byte \in 0 .. NI - 1
      BY <1>2, <1>6, <2>1, OperandTypes, WordsAssumption DEF W!IsPresent, W!Offset
    <2>3. qbit' = [qbit EXCEPT ![o.byte] = v] /\ UNCHANGED <<outputs, mem, mr>>
      BY <1>6 DEF W!StoreOutput
    <2>4. qbit' \in [0 .. NI - 1 -> {0, 1}] /\ qbit'[o.byte] = v
      BY <1>2, <2>1, <2>2, <2>3 DEF WordRegisters
    <2>5. W!Contents(o)' = {v}
      BY <1>5, <1>6, <2>1, <2>4 DEF W!Contents, W!OutputContents, W!Whole, W!BitContents
    <2> QED
      BY <1>2, <1>6, <2>3, <2>4, <2>5 DEF WordRegisters, W!BOOL
  <1>7. ASSUME W!StoreOutput(o, v), o.type # W!BOOL PROVE Kept /\ Loads
    <2>1. o.letter = "q" /\ W!StoreBytes(o, v) /\ UNCHANGED <<qbit, mem, mr>>
      BY <1>7 DEF W!StoreOutput
    <2>2. o.type # W!REAL
      BY <2>1, OperandTypes
    <2>3. v \in 0 .. W!Width(o.type) - 1
      BY <1>4, <2>1, <2>2
    <2>4. outputs' \in Buffer /\ W!Bytes(outputs', o.byte, o.type) = v
          /\ (o.type > 1 => W!Bytes(outputs', o.byte, 1) = v \div W!Width(o.type - 1))
      BY <1>2, <1>7, <2>1, <2>3, BytesStored
    <2>5. W!Contents(o)' = {v}
      BY <1>7, <2>1, <2>2, <2>4 DEF W!Contents, W!OutputContents, W!Whole
    <2> QED
      BY <1>2, <2>1, <2>4, <2>5 DEF WordRegisters
  <1>8. ASSUME W!StoreMemory(o, v) PROVE Kept /\ Loads
    <2>1. o.letter = "m" /\ UNCHANGED <<outputs, qbit, mr>>
      BY <1>8 DEF W!StoreMemory
    <2>2. o.type # W!REAL /\ o.type \in {W!BOOL} \cup Sizes
      BY <2>1, OperandTypes
    <2>3. v \in 0 .. W!Width(o.type) - 1
      BY <1>4, <2>1, <2>2
    <2>4. mem' = IF o.type = W!BOOL THEN [mem EXCEPT !.PULSE = v] ELSE [mem EXCEPT !.V = v]
      BY <1>8 DEF W!StoreMemory
    <2>5. CASE o.type = W!BOOL
      <3>1. v \in {0, 1}
        BY <1>5, <2>3, <2>5
      <3>2. mem' \in [V : Int, PULSE : {0, 1}] /\ mem'.PULSE = v
        BY <1>2, <2>4, <2>5, <3>1 DEF WordRegisters
      <3>3. W!Contents(o)' = {v}
        BY <1>5, <2>1, <2>5, <3>2 DEF W!Contents, W!MemoryContents, W!Whole, W!BitContents
      <3> QED
        BY <1>2, <2>1, <3>2, <3>3 DEF WordRegisters
    <2>6. CASE o.type # W!BOOL
      <3>1. W!Width(o.type) \in Nat \ {0}
        BY <2>2, <2>6, WholeTypes, Widths
      <3>2. v \in Int /\ v % W!Width(o.type) = v
        BY <2>3, <3>1, DivisionBelow
      <3>3. mem' \in [V : Int, PULSE : {0, 1}] /\ mem'.V = v
        BY <1>2, <2>4, <2>6, <3>2 DEF WordRegisters
      <3>4. W!Contents(o)' = {v}
        BY <2>1, <2>2, <2>6, <3>2, <3>3 DEF W!Contents, W!MemoryContents, W!Whole
      <3> QED
        BY <1>2, <2>1, <3>3, <3>4 DEF WordRegisters
    <2> QED
      BY <2>5, <2>6
  <1>9. ASSUME W!StoreReal(o, v) PROVE Kept /\ Loads
    <2>1. o.letter = "mf" /\ mr' = v /\ UNCHANGED <<outputs, qbit, mem>>
      BY <1>9 DEF W!StoreReal
    <2>2. o.type = W!REAL
      BY <2>1, OperandTypes
    <2>3. W!Contents(o)' = {v}
      BY <2>1, <2>2 DEF W!Contents, W!RealContents
    <2> QED
      BY <1>2, <1>4, <2>1, <2>2, <2>3 DEF WordRegisters
  <1>10. Kept /\ Loads
    BY <1>1, <1>6, <1>7, <1>8, <1>9
  <1>11. StoredIsLoaded'
    BY <1>1, <1>10 DEF StoredIsLoaded, W!StoredIsLoaded
  <1> QED
    BY <1>2, <1>3, <1>10, <1>11 DEF WordInv, WordRegisters
\* An instruction of a list keeps the invariant.
LEMMA WordStep == WordInv /\ W!Next => WordInv'
  <1> SUFFICES ASSUME WordInv, W!Next PROVE WordInv'
    OBVIOUS
  <1>1. list.operations \subseteq W!Operations /\ W!Used \subseteq W!Operands
    BY WordsAssumption DEF WordInv, WordRegisters, W!Used
  <1>2. CASE \E o \in W!Used, negated \in BOOLEAN : W!Load(o, negated)
    BY <1>1, <1>2, LoadKeeps
  <1>3. CASE \E o \in W!Used, op \in list.operations, negated \in BOOLEAN : W!Apply(op, o, negated)
    BY <1>1, <1>3, ApplyKeeps
  <1>4. CASE \E o \in W!Used, op \in list.operations : W!PushAndLoad(op, o)
    BY <1>1, <1>4, PushKeeps
  <1>5. CASE \E o \in W!Used, negated \in BOOLEAN : W!Store(o, negated)
    BY <1>1, <1>5, StoreKeeps
  <1>6. CASE W!Pop
    BY <1>6, PopKeeps
  <1> QED
    BY <1>2, <1>3, <1>4, <1>5, <1>6 DEF W!Next

LEMMA WordsInvariant == SpecMachine => []WordInv
  <1>1. InitMachine => WordInv
    BY WordInit DEF InitMachine
  <1>2. WordInv /\ [NextMachine]_<<use, allvars, wordvars>> => WordInv'
    <2> SUFFICES ASSUME WordInv, [NextMachine]_<<use, allvars, wordvars>> PROVE WordInv'
      OBVIOUS
    <2>1. CASE W!Next
      BY <2>1, WordStep
    <2>2. CASE UNCHANGED wordvars
      <3>1. UNCHANGED <<list, inputs, outputs, qbit, mem, mr, wacc, wstack, made, last>>
        BY <2>2 DEF wordvars
      <3>2. wacc' \in Acc /\ wstack' \in Seq(Frames) /\ ValueFits' /\ made'.negated \in BOOLEAN
        BY <3>1 DEF WordInv, WordRegisters, ValueFits, W!ValueFits
      <3> QED
        BY <3>1, <3>2, Accumulates
    <2> QED
      BY <2>1, <2>2 DEF NextMachine
  <1> QED
    BY <1>1, <1>2, PTL DEF SpecMachine

\* What a list stores is what it loads from the same operand, first byte highest
\* (st_out with ld_out and ld_bytes, st_mem with ld_mem), for any list of
\* operations and operands, any number of bytes, any width of a byte.
THEOREM MachineStores == SpecMachine => []StoredIsLoaded
  <1>1. WordInv => StoredIsLoaded
    BY DEF WordInv
  <1> QED
    BY <1>1, WordsInvariant, PTL

\* No operation gives a value wider than its operand (operate of data.c and
\* handle_ld), for any list of operations and operands and any width of a byte.
THEOREM MachineFits == SpecMachine => []ValueFits
  <1>1. WordInv => ValueFits
    BY DEF WordInv
  <1> QED
    BY <1>1, WordsInvariant, PTL

-----------------------------------------------------------------------------
(* A machine that executes ladders or lists.                               *)

\* A machine with lists of words does with ladders what it does without them.
THEOREM MachineRungs == SpecMachine => SpecLadder
  <1>1. InitMachine => InitLadder
    BY DEF InitMachine
  <1>2. [NextMachine]_<<use, allvars, wordvars>> => [NextLadder]_allvars
    BY DEF NextMachine
  <1> QED
    BY <1>1, <1>2, PTL DEF SpecMachine, SpecLadder

\* On every machine the coils of a drawn ladder follow its circuit, and the
\* stack is left as it was found, when a line has its negated contact last
\* (generate_code and gen_expr, with instruct).
THEOREM MachineCoils ==
    Closed = "last" =>
        (SpecMachine => [](TypeOK /\ NothingPastFailure /\ CoilFollowsCircuit /\ StackRestored))
  BY MachineRungs, LadderRungs, LadderCoils, LadderStack, PTL
=============================================================================
