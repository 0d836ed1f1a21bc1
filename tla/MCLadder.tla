------------------------------ MODULE MCLadder ------------------------------
(* A small instance of Machine for TLC.                                    *)
EXTENDS Machine

\* Programs no ladder generates: a loop that pushes for ever, and every
\* operation and modifier in a loop that may end.
Pushing ==
    <<Ins("LD", {}, 0), Ins("AND", {"PUSH"}, 1), Ins("OR", {"PUSH"}, 0),
      Ins("AND", {"PUSH"}, 1), Ins("OR", {"PUSH"}, 0), Ins("AND", {"PUSH"}, 1),
      Ins("OR", {"PUSH"}, 0), Ins("JMP", {}, 1)>>
Mixed ==
    <<Ins("LD", {"NEG"}, 0), Ins("XOR", {}, 1), Ins("OR", {"NEG"}, 0), Ins("S", {}, 1),
      Ins("ST", {"NEG"}, 1), [operation |-> "NOP"], PopIns, Ins("AND", {"NEG"}, 2),
      Ins("XOR", {"PUSH"}, 1), Ins("R", {"COND"}, 2), Ins("JMP", {"COND"}, 0)>>
MCPrograms == {Pushing, Mixed}

MCPlant == {[i \in 0 .. 1 |-> IF i = 0 THEN 1 ELSE 2]}
MCReals == -1 .. 1

\* Each group of operands with some of the operations.
List(letters, operations) == [letters |-> letters, operations |-> operations]
MCLists == {List({"i", "q"}, {}), List({"i", "m"}, {"DIV"}),
            List({"t", "r", "b"}, {"LT", "SUB"}), List({"t", "c"}, {"XOR"}), List({"m", "c"}, {"MUL"}),
            List({"i", "if", "mf"}, {"DIV"}), List({"qf", "mf"}, {"ADD", "MUL", "EQ", "AND"})}
=============================================================================
