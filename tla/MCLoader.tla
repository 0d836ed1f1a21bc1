------------------------------ MODULE MCLoader ------------------------------
(* Small ladders and lists.                                                *)
EXTENDS Loader

-----------------------------------------------------------------------------
(* Ladders: two columns of junctions and a coil, with the cells that the   *)
(* cursor passes over after a contact drawn as wire.                       *)
Cell(c) == <<[c |-> c]>>
Name(letter, byte, bit) ==
    <<[c |-> letter, byte |-> byte], [c |-> "9"], [c |-> "/", bit |-> bit], [c |-> "9"]>>
A == Name("i", 0, 0)
B == Name("i", 0, 1)
T == <<[c |-> "t", byte |-> 0], [c |-> "9"]>>
Out == Cell("(") \o Name("Q", 0, 0)
End == Cell("END") \o Cell("END")        \* the second one is appended
Run(c, n) == [k \in 1 .. n |-> [c |-> c]]
Nameless == <<[c |-> "i", byte |-> -1]>>
Long(letter, byte) == <<[c |-> letter, byte |-> byte]>> \o Run("9", 3)

Shape(a, w, j, b, k, tail) == a \o Cell(w) \o Cell(j) \o b \o Cell(w) \o Cell(k) \o tail \o End

MCTexts ==
    {Shape(A, "-", j, b, k, Cell("-") \o Out) :
        j \in {"+", "-"}, b \in {B, Run("-", 4)}, k \in {"+", "-"}}
    \cup {Shape(A, "-", j, B, k, <<>>) : j \in {"+", "-"}, k \in {"+", "|"}}
    \cup {Shape(Run("blank", 4), "blank", j, B, "+", <<>>) : j \in {"+", "|"}}
    \cup {Shape(Run("blank", 4), "blank", j, Run("blank", 4), "|", <<>>) : j \in {"|", "blank"}}
    \cup {Cell("!") \o A \o Cell("+") \o Run("-", 6) \o Out \o End,
          Cell("+") \o Run("-", 2) \o B \o Run("-", 2) \o Out \o End,
          Cell("+") \o Cell("-") \o A \o Cell("+") \o Cell("bad") \o End,
          T \o Run("-", 4) \o Cell("+") \o Run("-", 5) \o Cell("+") \o End,
          Shape(B, "-", "+", Cell("bad"), "-", Out),
          Shape(B, "-", "+", Name("i", 0, 8), "-", Out),
          Shape(B, "-", "+", Nameless, "-", Out),
          Long("i", 256) \o Cell("-") \o Cell("+") \o Run("-", 5) \o Out \o End,
          Cell("+") \o Run("-", 2) \o B \o Run("-", 2) \o Cell("(") \o Long("Q", 255) \o End}

MCOperands == {<<"i", 0, 0>>, <<"i", 0, 1>>, <<"t", 0, 0>>, <<"t", 0, 8>>}

-----------------------------------------------------------------------------
(* Lists.                                                                  *)
Piece(mark) == <<[mark |-> mark]>>
Word(name) == <<[mark |-> "name", name |-> name]>>
To(name) == [kind |-> "label", name |-> Word(name)]
Arg(letter, type, byte, bit) ==
    [kind |-> "operand", letter |-> letter, type |-> type, byte |-> byte, bit |-> bit]
WHOLE == -2                              \* no slash
MISSING == -1                            \* BAD of module ParserIL
Blank == <<"blank">>
ILine(op, mods, arg) == <<[mark |-> "statement", op |-> op, mods |-> mods, arg |-> arg]>>
At(label) == IF label = "" THEN <<>> ELSE Word(label) \o Piece("colon")

MCLines ==
    {At(l) \o Piece("blank") \o ILine("LD", Blank, Arg("i", "none", 0, 0)) : l \in {"", "a"}}
    \cup {At(l) \o ILine("JMP", <<"?">>, To("b")) : l \in {"", "a"}}
    \cup {ILine("JMP", mods, To("a")) : mods \in {Blank, <<"?", "blank">>}}
    \cup {ILine(")", <<>>, [kind |-> "none"])}
    \cup {ILine(op, Blank, Arg("q", "none", 0, 1)) \o Piece("blank") : op \in {"ST", "LD"}}
    \cup {ILine("AND", mods, Arg("t", "none", 256, WHOLE)) : mods \in {<<"(">>, <<"!">>, <<"blank", "(">>}}
    \cup {ILine("ST", Blank, Arg(l, "none", 0, MISSING)) : l \in {"x", "r", "t"}}
    \cup {At("b") \o ILine("LD", Blank, Arg("i", "none", MISSING, WHOLE)),
          ILine("LD", Blank, Arg("t", "f", 1, 1)),
          At("a"), ILine("JMP", <<"?">>, [kind |-> "none"]),
          Word("b") \o Piece("blank") \o Piece("colon") \o ILine("LD", Blank, Arg("i", "none", 0, 0))
              \o Piece("semicolon") \o At("a") \o Word("b"),
          Piece("semicolon") \o At("a") \o ILine("LD", Blank, Arg("i", "none", 0, 0)),
          At("b") \o At("a") \o ILine("ADD", Blank, Arg("m", "f", 0, WHOLE))}
=============================================================================
