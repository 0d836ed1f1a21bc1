---------------------------- MODULE LoaderProofs ----------------------------
(***************************************************************************)
(* Proofs about loads, for any lines and limits: what a list becomes and   *)
(* where its jumps lead, and what the coils of a drawn ladder get.         *)
(***************************************************************************)
EXTENDS Loader, BinaryProofs

\* lookup of a label that an instruction has.
LEMMA LookupFinds ==
    ASSUME NEW label, IL!Labelled(label) # {}
    PROVE  IL!Lookup(label) \in IL!Labelled(label)
  <1>1. IL!Labelled(label) \in SUBSET Nat
    BY DEF IL!Labelled
  <1>2. \E k \in IL!Labelled(label) : \A j \in IL!Labelled(label) : k <= j
    BY <1>1, LeastNatural
  <1> QED
    BY <1>2 DEF IL!Lookup

-----------------------------------------------------------------------------
\* The instructions that lines may leave in a rung.
Compiled == {IL!Written(IL!InstructionOf(IL!Parsed(listed))) : listed \in ILLines}

\* The instruction i with the number that intern gives to its label.
Resolved(i, number) == [i EXCEPT !.target = number]

\* Only fields of an instruction other than its number are looked at by intern.
LEMMA ResolvedKeeps ==
    ASSUME NEW i \in Compiled, NEW number
    PROVE  /\ Resolved(i, number).operation = i.operation
           /\ Resolved(i, number).lookup = i.lookup
           /\ Resolved(i, number).label = i.label
           /\ Resolved(i, number).target = number
  <1>1. PICK listed \in ILLines : i = IL!Written(IL!InstructionOf(IL!Parsed(listed)))
    BY DEF Compiled
  <1>2. "target" \in DOMAIN i
    BY <1>1 DEF IL!Written, IL!InstructionOf
  <1> QED
    BY <1>2 DEF Resolved

\* What has been appended, until intern has been called.
Appended == ilStep # "done" => rung \in Seq(Compiled)

LoaderInv ==
    /\ ilStep \in {"parse", "intern", "done"}
    /\ lang # "il" => ilStep = "parse"
    /\ Appended
    /\ JumpsLand

LEMMA InitLoader == Init => LoaderInv
  BY DEF Init, IL!InitIL, LoaderInv, Appended, JumpsLand, IL!JumpsLand

\* intern: a label that is found is in the rung, and none of them changes.
LEMMA InternLands ==
    ASSUME LoaderInv, ParseIL, IL!Intern
    PROVE  LoaderInv'
  <1>1. ilStep = "intern" /\ ilStep' = "done" /\ rung \in Seq(Compiled)
    BY DEF IL!Intern, LoaderInv, Appended
  <1>2. ASSUME outcome' = "STOPPED",
               NEW k \in DOMAIN rung',
               rung'[k].operation = "JMP", rung'[k].lookup # <<>>
        PROVE  /\ rung'[k].target \in 0 .. Len(rung') - 1
               /\ rung'[rung'[k].target + 1].label = rung'[k].lookup
    <2>1. IL!Unresolved = {}
      BY <1>2 DEF IL!Intern
    <2>2. rung' = [j \in 1 .. Len(rung) |->
                      IF rung[j].lookup = <<>> THEN rung[j]
                      ELSE Resolved(rung[j], IL!Lookup(rung[j].lookup) - 1)]
      BY <2>1 DEF IL!Intern, Resolved
    <2>3. Len(rung) \in Nat /\ DOMAIN rung' = 1 .. Len(rung) /\ Len(rung') = Len(rung)
          /\ \A j \in 1 .. Len(rung) : rung[j] \in Compiled
      BY <1>1, <2>2
    <2>4. \A j \in 1 .. Len(rung) : rung'[j].label = rung[j].label /\ rung'[j].lookup = rung[j].lookup
      BY <2>2, <2>3, ResolvedKeeps
    <2>5. rung[k].lookup # <<>>
      BY <1>2, <2>3, <2>4
    <2>6. IL!Labelled(rung[k].lookup) # {}
      BY <2>1, <2>3, <2>5 DEF IL!Unresolved
    <2>7. PICK n \in 1 .. Len(rung) :
              n = IL!Lookup(rung[k].lookup) /\ rung[n].label = rung[k].lookup
      BY <2>6, LookupFinds DEF IL!Labelled
    <2>8. rung'[k].target = n - 1
      BY <2>2, <2>3, <2>5, <2>7, ResolvedKeeps
    <2>9. n - 1 \in 0 .. Len(rung') - 1 /\ (n - 1) + 1 = n
      BY <2>3
    <2> QED
      BY <2>3, <2>4, <2>7, <2>8, <2>9
  <1>3. JumpsLand'
    BY <1>2 DEF JumpsLand, IL!JumpsLand
  <1>4. lang = "il" /\ lang' = lang
    BY DEF ParseIL
  <1> QED
    BY <1>1, <1>3, <1>4 DEF LoaderInv, Appended

LEMMA ListStep ==
    ASSUME LoaderInv, ParseIL
    PROVE  LoaderInv'
  <1> USE DEF LoaderInv
  <1>1. lang = "il" /\ lang' = lang
    BY DEF ParseIL
  <1>2. ASSUME NEW listed \in ILLines, IL!Parsing,
               NEW x, x = IL!Parsed(listed),
               IL!Store(x) \/ IL!Drop(x) \/ IL!Skip(x) \/ IL!Refuse(x)
        PROVE  LoaderInv'
    <2>1. ilStep = "parse" /\ rung \in Seq(Compiled)
      BY <1>2 DEF IL!Parsing, Appended
    <2>2. rung' \in Seq(Compiled)
      <3>1. IL!Written(IL!InstructionOf(x)) \in Compiled
        BY <1>2 DEF Compiled
      <3>2. CASE IL!Store(x)
        <4>1. rung' = Append(rung, IL!Written(IL!InstructionOf(x)))
          BY <3>2 DEF IL!Store
        <4> QED
          BY <2>1, <3>1, <4>1
      <3> QED
        BY <1>2, <2>1, <3>2 DEF IL!Drop, IL!Skip, IL!Refuse
    <2>3. ilStep' \in {"parse", "intern"}
      BY <1>2, <2>1 DEF IL!Store, IL!Drop, IL!Skip, IL!Refuse
    <2> QED
      BY <1>1, <2>2, <2>3 DEF Appended, JumpsLand, IL!JumpsLand
  <1>3. CASE IL!EndOfProgram
    BY <1>1, <1>3 DEF IL!EndOfProgram, Appended, JumpsLand, IL!JumpsLand
  <1>4. CASE IL!Intern
    BY <1>4, InternLands
  <1> QED
    BY <1>2, <1>3, <1>4 DEF ParseIL, IL!NextIL

LEMMA LoaderStep == LoaderInv /\ [Next]_vars => LoaderInv'
  <1> SUFFICES ASSUME LoaderInv, [Next]_vars PROVE LoaderInv'
    OBVIOUS
  <1>1. CASE ParseIL
    BY <1>1, ListStep
  <1>2. CASE Reject \/ ParseLD
    BY <1>2 DEF Reject, ParseLD, list, LoaderInv, Appended, JumpsLand, IL!JumpsLand
  <1>3. CASE UNCHANGED vars
    BY <1>3 DEF vars, list, LoaderInv, Appended, JumpsLand, IL!JumpsLand
  <1> QED
    BY <1>1, <1>2, <1>3 DEF Next

\* Of whatever list is accepted, no jump that names a label leads past the rung
\* or to an instruction with another label, for any lines, also where some have
\* been dropped from a full rung or cut off (append, lookup, intern).
THEOREM LoaderJumpsLand == Spec => []JumpsLand
  <1>1. LoaderInv => JumpsLand
    BY DEF LoaderInv
  <1> QED
    BY <1>1, InitLoader, LoaderStep, PTL DEF Spec
-----------------------------------------------------------------------------
(* What the parser makes of a line that is written by the rules.           *)

LEMMA SinglePiece ==
    ASSUME NEW X, NEW row \in Seq(X), NEW k \in 1 .. Len(row)
    PROVE  SubSeq(row, k, k) = <<row[k]>>
  <1> DEFINE p == SubSeq(row, k, k)
  <1>1. row[k] \in X /\ k \in Int /\ Len(row) \in Nat
    OBVIOUS
  <1>2. SubSeq(row, k, k) \in Seq(X) /\ Len(SubSeq(row, k, k)) = 1
    BY <1>1
  <1>3. SubSeq(row, k, k)[1] = row[k]
    BY <1>1
  <1>4. p \in Seq(X) /\ Len(p) = 1 /\ p[1] = row[k]
    BY <1>2, <1>3
  <1> HIDE DEF p
  <1>5. p = <<row[k]>>
    BY <1>1, <1>4
  <1> QED
    BY <1>5 DEF p

\* What is left of blanks around a single piece.
LEMMA SingleTrimmed ==
    ASSUME NEW X, NEW row \in Seq(X), NEW k \in 1 .. Len(row), row[k].mark # "blank",
           \A j \in 1 .. Len(row) : j # k => row[j].mark = "blank"
    PROVE  IL!Trimmed(row) = <<row[k]>>
  <1>1. DOMAIN row = 1 .. Len(row) /\ Len(row) \in Nat /\ k \in Int
    OBVIOUS
  <1>2. {n \in DOMAIN row : row[n].mark # "blank"} = {k}
    BY <1>1
  <1>3. IL!Min({k}) = k /\ IL!Max({k}) = k
    BY <1>1 DEF IL!Min, IL!Max
  <1>4. SubSeq(row, k, k) = <<row[k]>>
    BY SinglePiece
  <1> QED
    BY <1>2, <1>3, <1>4 DEF IL!Trimmed

LEMMA BlankTrimmed ==
    ASSUME NEW row, \A j \in DOMAIN row : row[j].mark = "blank"
    PROVE  IL!Trimmed(row) = <<>>
  BY DEF IL!Trimmed

LEMMA SameCardinality == \A S : IL!Cardinality(S) = Cardinality(S)
  BY DEF IL!Cardinality, Cardinality

\* A line ends where its comment begins.
LEMMA CommentCut ==
    ASSUME NEW X, NEW row \in Seq(X)
    PROVE  \E u \in 0 .. Len(row) :
              /\ IL!Uncommented(row) = 1 .. u /\ IL!Cardinality(IL!Uncommented(row)) = u
              /\ \A n \in 1 .. Len(row) : IL!InComment(row, n) <=> u < n
  <1> DEFINE ends == {n \in DOMAIN row : row[n].mark = "semicolon"}
  <1>0. DOMAIN row = 1 .. Len(row) /\ Len(row) \in Nat
    OBVIOUS
  <1>1. ends \subseteq 1 .. Len(row) /\ Len(row) \in Nat /\ DOMAIN row = 1 .. Len(row)
        /\ \A k \in 1 .. Len(row) : k \in ends <=> row[k].mark = "semicolon"
    BY <1>0
  <1>2. \A n \in 1 .. Len(row) : IL!InComment(row, n) <=> \E k \in ends : k <= n
    <2> HIDE DEF ends
    <2> SUFFICES ASSUME NEW n \in 1 .. Len(row)
                 PROVE  (\E k \in 1 .. n : row[k].mark = "semicolon") <=> \E k \in ends : k <= n
      BY DEF IL!InComment
    <2>1. 1 .. n \subseteq 1 .. Len(row) /\ \A k \in 1 .. Len(row) : k <= n <=> k \in 1 .. n
      BY <1>1
    <2> QED
      BY <1>1, <2>1
  <1>3. IL!Uncommented(row) = {n \in 1 .. Len(row) : \A k \in ends : n < k}
    BY <1>1 DEF IL!Uncommented
  <1> HIDE DEF ends
  <1>4. \A u \in 0 .. Len(row) : 1 .. u = {n \in 1 .. Len(row) : n <= u}
    BY <1>1
  <1>5. \A u \in 0 .. Len(row) : IL!Cardinality(1 .. u) = u
    BY <1>1, FS_Interval, SameCardinality
  <1>6. CASE ends = {}
    <2>1. IL!Uncommented(row) = 1 .. Len(row) /\ Len(row) \in 0 .. Len(row)
      BY <1>1, <1>3, <1>6
    <2>2. IL!Cardinality(IL!Uncommented(row)) = Len(row)
      BY <1>5, <2>1
    <2>3. \A n \in 1 .. Len(row) : ~IL!InComment(row, n) /\ ~(Len(row) < n)
      BY <1>1, <1>2, <1>6
    <2> QED
      BY <2>1, <2>2, <2>3
  <1>7. CASE ends # {}
    <2>1. PICK e \in ends : \A k \in ends : e <= k
      BY <1>1, <1>7, LeastNatural
    <2>2. e - 1 \in 0 .. Len(row) /\ e \in 1 .. Len(row)
      BY <1>1, <2>1
    <2>3. \A n \in 1 .. Len(row) : (\A k \in ends : n < k) <=> n <= e - 1
      BY <1>1, <2>1, <2>2
    <2>4. IL!Uncommented(row) = 1 .. (e - 1)
      BY <1>3, <1>4, <2>2, <2>3
    <2>5. \A n \in 1 .. Len(row) : (\E k \in ends : k <= n) <=> e - 1 < n
      BY <1>1, <2>1, <2>2
    <2> QED
      BY <1>2, <1>5, <2>2, <2>4, <2>5
  <1> QED
    BY <1>6, <1>7

\* A line without label and statement.
LEMMA EmptyRead ==
    ASSUME NEW X, NEW row \in Seq(X), IL!Solid(row) = {}
    PROVE  /\ ~IL!Speaks(row)
           /\ IL!Parsed(row) = [label |-> <<>>, op |-> "none", mods |-> <<>>, arg |-> [kind |-> "none"]]
  <1>1. PICK u \in 0 .. Len(row) :
            /\ IL!Uncommented(row) = 1 .. u /\ IL!Cardinality(IL!Uncommented(row)) = u
            /\ \A n \in 1 .. Len(row) : IL!InComment(row, n) <=> u < n
    BY CommentCut
  <1>2. DOMAIN row = 1 .. Len(row) /\ Len(row) \in Nat
    OBVIOUS
  <1>3. \A n \in 1 .. u : row[n].mark = "blank" /\ n \in 1 .. Len(row)
    BY <1>1, <1>2 DEF IL!Solid
  <1>4. ~IL!Speaks(row)
    BY <1>1, <1>2, <1>3 DEF IL!Speaks, IL!Outside, IL!Solid
  <1>5. IL!LastColon(row) = 0
    <2>1. {n \in IL!Uncommented(row) : row[n].mark = "colon"} = {}
      BY <1>1, <1>3
    <2> QED
      BY <2>1 DEF IL!LastColon, IL!Max
  <1>6. IL!LabelOf(row) = <<>>
    <2>1. SubSeq(row, 1, 0 - 1) = <<>>
      OBVIOUS
    <2>2. IL!Trimmed(<<>>) = <<>>
      BY BlankTrimmed
    <2> QED
      BY <1>5, <2>1, <2>2 DEF IL!LabelOf
  <1>7. IL!StatementOf(row) = IL!NoStatement
    <2> DEFINE rest == SubSeq(row, 1, u)
    <2>1. \A n \in DOMAIN rest : rest[n].mark = "blank"
      <3>1. DOMAIN rest = 1 .. u /\ \A n \in 1 .. u : rest[n] = row[n]
        BY <1>1, <1>2
      <3> QED
        BY <1>3, <3>1
    <2>2. IL!Trimmed(rest) = <<>>
      BY <2>1, BlankTrimmed
    <2> QED
      BY <1>1, <1>5, <2>2, 0 + 1 = 1 DEF IL!StatementOf
  <1> QED
    BY <1>4, <1>6, <1>7 DEF IL!Parsed, IL!NoStatement
\* A part of a line with one piece that is no blank.
LEMMA PartTrimmed ==
    ASSUME NEW X, NEW row \in Seq(X), NEW a \in 1 .. Len(row), NEW e \in 0 .. Len(row),
           NEW k \in a .. e, row[k].mark # "blank",
           \A j \in a .. e : j # k => row[j].mark = "blank"
    PROVE  IL!Trimmed(SubSeq(row, a, e)) = <<row[k]>>
  <1> DEFINE part == SubSeq(row, a, e)
  <1>0. Len(row) \in Nat /\ a \in Int /\ e \in Int /\ k \in Int
    OBVIOUS
  <1>1. part \in Seq(X) /\ Len(part) = e - a + 1
    BY <1>0
  <1>2. \A j \in 1 .. Len(part) : part[j] = row[a + j - 1]
    BY <1>0, <1>1
  <1> HIDE DEF part
  <1>3. k - a + 1 \in 1 .. Len(part) /\ a + (k - a + 1) - 1 = k
    BY <1>0, <1>1
  <1>4. part[k - a + 1] = row[k]
    BY <1>2, <1>3
  <1>5. ASSUME NEW j \in 1 .. Len(part), j # k - a + 1 PROVE part[j].mark = "blank"
    <2>1. a + j - 1 \in a .. e /\ a + j - 1 # k
      BY <1>0, <1>1, <1>5
    <2> QED
      BY <1>2, <2>1
  <1>6. IL!Trimmed(part) = <<part[k - a + 1]>>
    BY <1>1, <1>3, <1>4, <1>5, SingleTrimmed
  <1> QED
    BY <1>4, <1>6 DEF part

\* The parts of a line that are outside of its comment.
LEMMA PartsOutside ==
    ASSUME NEW X, NEW row \in Seq(X), NEW u \in 0 .. Len(row),
           \A n \in 1 .. Len(row) : IL!InComment(row, n) <=> u < n
    PROVE  /\ \A mark : IL!Outside(row, mark) = {n \in 1 .. u : row[n].mark = mark}
           /\ IL!Solid(row) = {n \in 1 .. u : row[n].mark # "blank"}
  <1>1. DOMAIN row = 1 .. Len(row) /\ Len(row) \in Nat
    OBVIOUS
  <1>2. \A n \in 1 .. Len(row) : ~IL!InComment(row, n) <=> n \in 1 .. u
    BY <1>1
  <1>3. 1 .. u \subseteq 1 .. Len(row)
    BY <1>1
  <1> QED
    BY <1>1, <1>2, <1>3 DEF IL!Outside, IL!Solid

\* A line with a statement.
LEMMA StatementRead ==
    ASSUME NEW X, NEW row \in Seq(X), NEW s \in IL!Outside(row, "statement"),
           IL!Solid(row) = {s}
    PROVE  /\ IL!Speaks(row) /\ IL!Said(row) = row[s] /\ IL!Label(row) = <<>>
           /\ IL!LabelOf(row) = <<>> /\ IL!StatementOf(row) = row[s]
  <1>1. PICK u \in 0 .. Len(row) :
            /\ IL!Uncommented(row) = 1 .. u /\ IL!Cardinality(IL!Uncommented(row)) = u
            /\ \A n \in 1 .. Len(row) : IL!InComment(row, n) <=> u < n
    BY CommentCut
  <1>2. /\ \A mark : IL!Outside(row, mark) = {n \in 1 .. u : row[n].mark = mark}
        /\ {n \in 1 .. u : row[n].mark # "blank"} = {s}
    BY <1>1, PartsOutside
  <1>3. s \in 1 .. u /\ row[s].mark = "statement"
    BY <1>2
  <1>4. \A n \in 1 .. u : n # s => row[n].mark = "blank"
    BY <1>2
  <1>5. IL!Outside(row, "statement") = {s} /\ IL!Outside(row, "name") = {}
        /\ {n \in 1 .. u : row[n].mark = "colon"} = {}
    BY <1>2, <1>3, <1>4
  <1>6. IL!LastColon(row) = 0
    BY <1>1, <1>5 DEF IL!LastColon, IL!Max
  <1>7. IL!LabelOf(row) = <<>>
    <2>1. SubSeq(row, 1, 0 - 1) = <<>> /\ IL!Trimmed(<<>>) = <<>>
      BY BlankTrimmed
    <2> QED
      BY <1>6, <2>1 DEF IL!LabelOf
  <1>8. IL!Trimmed(SubSeq(row, 1, u)) = <<row[s]>>
    <2>1. Len(row) \in Nat /\ 1 \in 1 .. Len(row)
      BY <1>1, <1>3
    <2>2. row[s].mark # "blank"
      BY <1>3
    <2> QED
      BY <1>1, <1>3, <1>4, <2>1, <2>2, PartTrimmed
  <1>9. IL!StatementOf(row) = row[s]
    <2>1. IL!Trimmed(SubSeq(row, IL!LastColon(row) + 1, IL!Cardinality(IL!Uncommented(row))))
              = <<row[s]>>
      BY <1>1, <1>6, <1>8, 0 + 1 = 1
    <2>2. <<row[s]>> # <<>> /\ <<row[s]>>[1] = row[s]
      OBVIOUS
    <2> QED
      BY <2>1, <2>2 DEF IL!StatementOf
  <1> QED
    BY <1>5, <1>7, <1>9 DEF IL!Speaks, IL!Said, IL!Label

\* A line with a label and a statement.
LEMMA LabelledRead ==
    ASSUME NEW X, NEW row \in Seq(X), NEW s \in IL!Outside(row, "statement"),
           NEW n \in IL!Outside(row, "name"), NEW c \in IL!Outside(row, "colon"),
           n < c, c < s, IL!Solid(row) = {n, c, s}
    PROVE  /\ IL!Speaks(row) /\ IL!Said(row) = row[s] /\ IL!Label(row) = <<row[n]>>
           /\ IL!LabelOf(row) = <<row[n]>> /\ IL!StatementOf(row) = row[s]
  <1>1. PICK u \in 0 .. Len(row) :
            /\ IL!Uncommented(row) = 1 .. u /\ IL!Cardinality(IL!Uncommented(row)) = u
            /\ \A j \in 1 .. Len(row) : IL!InComment(row, j) <=> u < j
    BY CommentCut
  <1>2. /\ \A mark : IL!Outside(row, mark) = {j \in 1 .. u : row[j].mark = mark}
        /\ {j \in 1 .. u : row[j].mark # "blank"} = {n, c, s}
    BY <1>1, PartsOutside
  <1>3. /\ s \in 1 .. u /\ row[s].mark = "statement"
        /\ n \in 1 .. u /\ row[n].mark = "name"
        /\ c \in 1 .. u /\ row[c].mark = "colon"
    BY <1>2
  <1>4. \A j \in 1 .. u : j \notin {n, c, s} => row[j].mark = "blank"
    BY <1>2
  <1>5. IL!Outside(row, "statement") = {s} /\ IL!Outside(row, "name") = {n}
        /\ {j \in 1 .. u : row[j].mark = "colon"} = {c}
    BY <1>2, <1>3, <1>4
  <1>0. Len(row) \in Nat /\ u \in Nat /\ 1 .. u \subseteq 1 .. Len(row)
    OBVIOUS
  <1>6. IL!LastColon(row) = c
    <2>1. {0} \cup {c} = {0, c} /\ c \in Int /\ c > 0
      BY <1>0, <1>3
    <2>2. IL!Max({0, c}) = c
      BY <2>1 DEF IL!Max
    <2> QED
      BY <1>1, <1>5, <2>1, <2>2 DEF IL!LastColon
  <1>7. IL!LabelOf(row) = <<row[n]>>
    <2>1. 1 \in 1 .. Len(row) /\ c - 1 \in 0 .. Len(row) /\ n \in 1 .. (c - 1)
      BY <1>0, <1>3
    <2>2. \A j \in 1 .. (c - 1) : j # n => row[j].mark = "blank"
      BY <1>0, <1>3, <1>4
    <2>3. row[n].mark # "blank"
      BY <1>3
    <2>4. IL!Trimmed(SubSeq(row, 1, c - 1)) = <<row[n]>>
      BY <2>1, <2>2, <2>3, PartTrimmed
    <2> QED
      BY <1>6, <2>4 DEF IL!LabelOf
  <1>8. IL!Trimmed(SubSeq(row, c + 1, u)) = <<row[s]>>
    <2>1. c + 1 \in 1 .. Len(row) /\ u \in 0 .. Len(row) /\ s \in (c + 1) .. u
      BY <1>0, <1>3
    <2>2. \A j \in (c + 1) .. u : j # s => row[j].mark = "blank"
      BY <1>0, <1>3, <1>4
    <2>3. row[s].mark # "blank"
      BY <1>3
    <2> QED
      BY <2>1, <2>2, <2>3, PartTrimmed
  <1>9. IL!StatementOf(row) = row[s]
    <2>1. IL!Trimmed(SubSeq(row, IL!LastColon(row) + 1, IL!Cardinality(IL!Uncommented(row))))
              = <<row[s]>>
      BY <1>1, <1>6, <1>8
    <2>2. <<row[s]>> # <<>> /\ <<row[s]>>[1] = row[s]
      OBVIOUS
    <2> QED
      BY <2>1, <2>2 DEF IL!StatementOf
  <1> QED
    BY <1>5, <1>7, <1>9 DEF IL!Speaks, IL!Said, IL!Label
\* read_modifier on a statement with one modifier character.
LEMMA ModifierRead ==
    ASSUME NEW x, NEW c \in {"(", "?", "blank"}, x.mods = <<c>>
    PROVE  /\ IL!Modifier(x) = IF c = "(" THEN "PUSH" ELSE IF c = "?" THEN "COND" ELSE "NORM"
           /\ IL!Modifier(x) = IL!MeantModifier(x)
           /\ IL!Precedence[IL!Found(x)] = x.mods[1]
           /\ x.mods # <<>> /\ Len(x.mods) = 1
  <1> DEFINE found == IF c = "(" THEN 1 ELSE IF c = "?" THEN 3 ELSE 4
  <1>1. x.mods # <<>> /\ Len(x.mods) = 1 /\ x.mods[1] = c /\ DOMAIN x.mods = {1}
    OBVIOUS
  <1>2. /\ IL!Precedence[1] = "(" /\ IL!Precedence[2] = "!" /\ IL!Precedence[3] = "?"
        /\ IL!Precedence[4] = "blank"
        /\ IL!Meanings[1] = "PUSH" /\ IL!Meanings[3] = "COND" /\ IL!Meanings[4] = "NORM"
    BY DEF IL!Precedence, IL!Meanings
  <1>3. \A k \in 1 .. 4 : IL!On(x, k) <=> k = found
    <2>1. \A k \in 1 .. 4 : IL!On(x, k) <=> c = IL!Precedence[k]
      BY <1>1 DEF IL!On
    <2>2. \A k \in 1 .. 4 : k = 1 \/ k = 2 \/ k = 3 \/ k = 4
      OBVIOUS
    <2> QED
      BY <1>2, <2>1, <2>2
  <1>4. found \in 1 .. 4 /\ IL!Precedence[found] = c
    BY <1>2
  <1>5. IL!Found(x) = found
    <2>1. \A k \in 1 .. 4 :
              (IL!On(x, k) /\ \A j \in 1 .. k - 1 : ~IL!On(x, j)) <=> k = found
      <3>1. \A j \in 1 .. found - 1 : j \in 1 .. 4 /\ j # found
        BY <1>4
      <3> HIDE DEF found
      <3> QED
        BY <1>3, <1>4, <3>1
    <2> HIDE DEF found
    <2> QED
      BY <1>4, <2>1 DEF IL!Found
  <1>6. IL!Modifier(x) = IF c = "(" THEN "PUSH" ELSE IF c = "?" THEN "COND" ELSE "NORM"
    BY <1>1, <1>2, <1>5 DEF IL!Modifier
  <1>7. (x.mods = <<"(">> <=> c = "(") /\ (x.mods = <<"?">> <=> c = "?")
    BY <1>1
  <1> QED
    BY <1>1, <1>4, <1>5, <1>6, <1>7 DEF IL!MeantModifier

\* A statement that is written by the rules is accepted and compiled as meant.
LEMMA GoodCompiled ==
    ASSUME NEW x, IL!GoodStatement(x)
    PROVE  LET i == IL!Written(IL!InstructionOf(x))
           IN /\ ~IL!Refused(x) /\ x.op # "none"
              /\ i.label = x.label /\ i.operation = x.op /\ i.modifier = IL!MeantModifier(x)
              /\ i.lookup = IF x.op = "JMP" THEN x.arg.name ELSE <<>>
              /\ x.op = "JMP" => x.arg.name # <<>>
              /\ x.op \notin IL!Silent =>
                    /\ i.operand = IL!MeantOperand(x) /\ i.byte = x.arg.byte
                    /\ i.bit = IF x.arg.bit \in 0 .. 7 THEN x.arg.bit ELSE BYTESIZE
  <1> DEFINE j == IL!InstructionOf(x)
             i == IL!Written(j)
  <1>0. j.label = x.label /\ j.operation = x.op /\ j.modifier = IL!Modifier(x)
        /\ j.lookup = IF x.op = "JMP" THEN IL!Target(x) ELSE <<>>
    BY DEF IL!InstructionOf
  <1>1. CASE x.op = ")" /\ x.mods = <<>> /\ x.arg.kind = "none"
    <2>1. x.op \in IL!Silent /\ x.op \in IL!Commands /\ x.op \notin IL!Stackable
          /\ x.op \notin IL!Writes /\ x.op # "LD" /\ x.op # "none" /\ x.op # "JMP"
          /\ x.op # "N_IL_INSN"
      BY <1>1 DEF IL!Silent, IL!Commands, IL!Stackable, IL!Writes
    <2>2. IL!Operator(x) = x.op
      BY <1>1, <2>1 DEF IL!Operator
    <2>3. IL!GoodModifier(j) /\ IL!GoodOperand(j)
      BY <1>0, <2>1 DEF IL!GoodModifier, IL!GoodOperand
    <2>4. i = j
      BY <1>0, <2>1 DEF IL!Written
    <2>5. IL!Modifier(x) = "NORM" /\ IL!MeantModifier(x) = "NORM"
      BY <1>1 DEF IL!Modifier, IL!MeantModifier
    <2> QED
      BY <1>0, <2>1, <2>2, <2>3, <2>4, <2>5 DEF IL!Refused
  <1>2. CASE /\ x.op = "JMP" /\ x.mods \in {<<"blank">>, <<"?">>}
             /\ x.arg.kind = "label" /\ x.arg.name # <<>>
    <2>1. x.op \in IL!Silent /\ x.op \in IL!Commands /\ x.op \notin IL!Stackable
          /\ x.op \notin IL!Writes /\ x.op # "LD" /\ x.op # "none" /\ x.op # "N_IL_INSN"
      BY <1>2 DEF IL!Silent, IL!Commands, IL!Stackable, IL!Writes
    <2>2. IL!Modifier(x) = IL!MeantModifier(x) /\ IL!Precedence[IL!Found(x)] = x.mods[1]
          /\ x.mods # <<>> /\ Len(x.mods) = 1
      BY <1>2, ModifierRead
    <2>3. IL!Operator(x) = x.op
      BY <2>1, <2>2 DEF IL!Operator
    <2>4. IL!GoodModifier(j) /\ IL!GoodOperand(j)
      BY <1>0, <2>1 DEF IL!GoodModifier, IL!GoodOperand
    <2>5. i = j
      BY <1>0, <2>1 DEF IL!Written
    <2>6. IL!Target(x) = x.arg.name
      BY <1>2, <2>2 DEF IL!Target
    <2> QED
      BY <1>0, <1>2, <2>1, <2>2, <2>3, <2>4, <2>5, <2>6 DEF IL!Refused
  <1>3. CASE /\ x.op \in IL!Stackable \cup IL!Writes \cup {"LD"}
             /\ x.mods = <<"blank">> \/ (x.mods = <<"(">> /\ x.op \in IL!Stackable)
             /\ x.arg.kind = "operand" /\ x.arg.letter \in IL!Letters
             /\ x.op \in IL!Writes => x.arg.letter \in {"q", "m", "t"}
             /\ x.arg.type = "none" \/ (x.arg.type = "f" /\ x.arg.letter \in {"i", "m", "q"})
             /\ x.arg.byte \in 0 .. 254 /\ x.arg.bit # IL!BAD
    <2>1. x.op \notin IL!Silent /\ x.op \in IL!Commands /\ x.op # "none" /\ x.op # "JMP"
          /\ x.op # "N_IL_INSN"
      BY <1>3 DEF IL!Silent, IL!Commands, IL!Stackable, IL!Writes
    <2>2. IL!Modifier(x) = IL!MeantModifier(x) /\ IL!Precedence[IL!Found(x)] = x.mods[1]
          /\ x.mods # <<>> /\ IL!Modifier(x) \in {"NORM", "PUSH"}
          /\ (x.op \notin IL!Stackable => IL!Modifier(x) = "NORM")
      BY <1>3, ModifierRead
    <2>3. IL!Operator(x) = x.op
      BY <2>1, <2>2 DEF IL!Operator
    <2>4. IL!GoodModifier(j)
      <3>1. x.op \in IL!Writes \cup {"LD"} => x.op \notin IL!Stackable
        BY DEF IL!Writes, IL!Stackable
      <3> QED
        BY <1>0, <2>2, <3>1 DEF IL!GoodModifier
    <2>5. x.arg.byte # IL!BAD /\ x.arg.byte % 256 = x.arg.byte /\ x.arg.byte # 255
      BY <1>3 DEF IL!BAD
    <2>6. IL!Byte(x) = x.arg.byte
          /\ IL!Bit(x) = IF x.arg.bit \in 0 .. 7 THEN x.arg.bit ELSE BYTESIZE
      BY <2>5 DEF IL!Byte, IL!Bit
    <2> DEFINE name == IF x.arg.type = "f" THEN IL!Real[x.arg.letter] ELSE x.arg.letter
    <2>7. j.operand = name /\ j.byte = IL!Byte(x) /\ j.bit = IL!Bit(x)
      <3>1. x.arg.type = "f" => x.arg.letter \in IL!RealLetters
        BY <1>3 DEF IL!RealLetters, IL!Real
      <3>2. IL!Arguments(x) = [operand |-> name, byte |-> IL!Byte(x), bit |-> IL!Bit(x)]
        BY <1>3, <3>1 DEF IL!Arguments
      <3> HIDE DEF name
      <3> QED
        BY <2>1, <3>2 DEF IL!InstructionOf
    <2>8. /\ IL!Real["i"] = "if" /\ IL!Real["m"] = "mf" /\ IL!Real["q"] = "qf"
          /\ IL!CoilOf["q"] = "Q" /\ IL!CoilOf["m"] = "M" /\ IL!CoilOf["t"] = "T"
          /\ IL!CoilOf["qf"] = "QF" /\ IL!CoilOf["mf"] = "MF"
          /\ DOMAIN IL!CoilOf = {"q", "m", "t", "qf", "mf"}
      BY DEF IL!Real, IL!CoilOf
    <2>9. x.op \in IL!Writes => name \in DOMAIN IL!CoilOf
      BY <1>3, <2>8
    <2>10. name \in IL!Letters \cup {"if", "mf", "qf"}
      BY <1>3, <2>8
    <2>11. name \notin {"NOP", "BADCHAR"}
      BY <2>10 DEF IL!Letters
    <2>12. IL!GoodOperand(j)
      BY <1>0, <2>7, <2>9, <2>11 DEF IL!GoodOperand
    <2>13. IL!MeantOperand(x) = IF x.op \in IL!Writes THEN IL!CoilOf[name] ELSE name
      BY <1>3, <2>8 DEF IL!MeantOperand, IL!Letters
    <2>14. i.operand = IL!MeantOperand(x) /\ i.byte = j.byte /\ i.bit = j.bit
           /\ i.label = j.label /\ i.operation = j.operation /\ i.modifier = j.modifier
           /\ i.lookup = j.lookup
      <3> HIDE DEF name
      <3>1. CASE x.op \in IL!Writes
        <4>1. i = [j EXCEPT !.operand = IL!CoilOf[name]]
          BY <1>0, <2>7, <2>9, <3>1 DEF IL!Written
        <4>2. "operand" \in DOMAIN j
          BY DEF IL!InstructionOf
        <4> HIDE DEF j
        <4> QED
          BY <2>13, <3>1, <4>1, <4>2
      <3>2. CASE x.op \notin IL!Writes
        BY <1>0, <2>7, <2>13, <3>2 DEF IL!Written
      <3> QED
        BY <3>1, <3>2
    <2> QED
      BY <1>0, <2>1, <2>2, <2>3, <2>4, <2>6, <2>7, <2>12, <2>14 DEF IL!Refused
  <1> QED
    BY <1>1, <1>2, <1>3 DEF IL!GoodStatement

\* The instruction i is the one that the statement of a line means, before its
\* jump has a number.
MeantBy(i, row) ==
    LET x == IL!Said(row)
    IN /\ i.label = IL!Label(row) /\ i.operation = x.op /\ i.modifier = IL!MeantModifier(x)
       /\ i.lookup = IF x.op = "JMP" THEN x.arg.name ELSE <<>>
       /\ x.op = "JMP" => x.arg.name # <<>>
       /\ x.op \notin IL!Silent =>
             /\ i.operand = IL!MeantOperand(x) /\ i.byte = x.arg.byte
             /\ i.bit = IF x.arg.bit \in 0 .. 7 THEN x.arg.bit ELSE BYTESIZE

\* parse_il_line on a line that is written by the rules.
LEMMA LineRead ==
    ASSUME NEW listed \in ILLines, IL!WellFormed(listed)
    PROVE  LET x == IL!Parsed(listed)
           IN /\ ~IL!Refused(x)
              /\ IL!Speaks(listed) => /\ x.op # "none" /\ x.label = IL!Label(listed)
                                      /\ MeantBy(IL!Written(IL!InstructionOf(x)), listed)
              /\ ~IL!Speaks(listed) => x.op = "none"
  <1> DEFINE x == IL!Parsed(listed)
             y == IL!Said(listed)
  <1>1. PICK X : listed \in Seq(X)
    BY LinesAssumption
  <1>2. CASE IL!Solid(listed) = {}
    <2>1. ~IL!Speaks(listed) /\ x.op = "none" /\ x.mods = <<>> /\ x.arg.kind = "none"
      BY <1>1, <1>2, EmptyRead
    <2>2. x.op \in IL!Silent /\ x.op \in IL!Commands /\ x.op \notin IL!Stackable
          /\ x.op \notin IL!Writes /\ x.op # "LD" /\ x.op # "N_IL_INSN"
      BY <2>1 DEF IL!Silent, IL!Commands, IL!Stackable, IL!Writes
    <2>3. IL!Operator(x) = x.op
      <3> HIDE DEF x
      <3> QED
        BY <2>1, <2>2 DEF IL!Operator
    <2>4. IL!GoodModifier(IL!InstructionOf(x)) /\ IL!GoodOperand(IL!InstructionOf(x))
      <3> HIDE DEF x
      <3>1. IL!InstructionOf(x).operation = x.op
        BY DEF IL!InstructionOf
      <3> QED
        BY <2>2, <3>1 DEF IL!GoodModifier, IL!GoodOperand
    <2> HIDE DEF x
    <2>5. ~IL!Refused(x)
      BY <2>2, <2>3, <2>4 DEF IL!Refused
    <2> QED
      BY <2>1, <2>5 DEF x
  <1>3. CASE \E s \in IL!Outside(listed, "statement") :
                /\ IL!GoodStatement(listed[s])
                /\ \/ IL!Solid(listed) = {s}
                   \/ \E n \in IL!Outside(listed, "name"), c \in IL!Outside(listed, "colon") :
                         n < c /\ c < s /\ IL!Solid(listed) = {n, c, s}
    <2>1. PICK s \in IL!Outside(listed, "statement") :
              /\ IL!GoodStatement(listed[s])
              /\ \/ IL!Solid(listed) = {s}
                 \/ \E n \in IL!Outside(listed, "name"), c \in IL!Outside(listed, "colon") :
                       n < c /\ c < s /\ IL!Solid(listed) = {n, c, s}
      BY <1>3
    <2>2. /\ IL!Speaks(listed) /\ y = listed[s] /\ IL!LabelOf(listed) = IL!Label(listed)
          /\ IL!StatementOf(listed) = y
      <3>1. CASE IL!Solid(listed) = {s}
        BY <1>1, <3>1, StatementRead
      <3>2. ASSUME NEW n \in IL!Outside(listed, "name"), NEW c \in IL!Outside(listed, "colon"),
                   n < c, c < s, IL!Solid(listed) = {n, c, s}
            PROVE  /\ IL!Speaks(listed) /\ y = listed[s] /\ IL!LabelOf(listed) = IL!Label(listed)
                   /\ IL!StatementOf(listed) = y
        BY <1>1, <3>2, LabelledRead
      <3> QED
        BY <2>1, <3>1, <3>2
    <2> HIDE DEF y
    <2>3. x.op = y.op /\ x.mods = y.mods /\ x.arg = y.arg /\ x.label = IL!Label(listed)
      BY <2>2 DEF IL!Parsed
    <2> HIDE DEF x
    <2>4. IL!GoodStatement(x)
      BY <2>1, <2>2, <2>3 DEF IL!GoodStatement
    <2>5. IL!MeantModifier(x) = IL!MeantModifier(y) /\ IL!MeantOperand(x) = IL!MeantOperand(y)
      BY <2>3 DEF IL!MeantModifier, IL!MeantOperand
    <2>6. MeantBy(IL!Written(IL!InstructionOf(x)), listed)
      BY <2>3, <2>4, <2>5, GoodCompiled DEF MeantBy, y
    <2> QED
      BY <2>2, <2>3, <2>4, <2>6, GoodCompiled DEF x
  <1> QED
    BY <1>2, <1>3 DEF IL!WellFormed

-----------------------------------------------------------------------------
(* The lines of a program that say something.                              *)

\* The lines that are kept from the first ones of a program.
Keeping(program, kept) ==
    /\ kept \in [0 .. Len(program) -> Seq(ILLines)] /\ kept[0] = <<>>
    /\ \A n \in 1 .. Len(program) :
          kept[n] = IF IL!Speaks(program[n]) THEN Append(kept[n - 1], program[n]) ELSE kept[n - 1]

LEMMA Kept ==
    ASSUME NEW program \in Seq(ILLines)
    PROVE  \E kept : Keeping(program, kept) /\ IL!Speaking(program) = kept[Len(program)]
  <1> DEFINE size == Len(program)
             Body(g) == [n \in 0 .. size |->
                 IF n = 0 THEN <<>>
                 ELSE IF IL!Speaks(program[n]) THEN Append(g[n - 1], program[n]) ELSE g[n - 1]]
             H == [p \in (1 .. size) \X Seq(ILLines) |->
                 IF IL!Speaks(program[p[1]]) THEN Append(p[2], program[p[1]]) ELSE p[2]]
  <1>0. size \in Nat /\ \A n \in 1 .. size : program[n] \in ILLines
    OBVIOUS
  <1>1. H \in [(1 .. size) \X Seq(ILLines) -> Seq(ILLines)]
    <2>1. ASSUME NEW n \in 1 .. size, NEW v \in Seq(ILLines)
          PROVE  Append(v, program[n]) \in Seq(ILLines)
      BY <1>0
    <2> HIDE DEF size
    <2> QED
      BY <2>1
  <1>2. \A n \in 1 .. size, v \in Seq(ILLines) :
           H[<<n, v>>] = IF IL!Speaks(program[n]) THEN Append(v, program[n]) ELSE v
    OBVIOUS
  <1> HIDE DEF H
  <1>3. <<>> \in Seq(ILLines)
    OBVIOUS
  <1>4. Recursed(size, Seq(ILLines), <<>>, H)
    <2> HIDE DEF size
    <2> QED
      BY <1>0, <1>1, <1>3, Recursion
  <1>5. PICK g \in [0 .. size -> Seq(ILLines)] :
            g[0] = <<>> /\ \A n \in 1 .. size : g[n] = H[<<n, g[n - 1]>>]
    BY <1>4 DEF Recursed
  <1>6. ASSUME NEW n \in 1 .. size
        PROVE  g[n] = IF IL!Speaks(program[n]) THEN Append(g[n - 1], program[n]) ELSE g[n - 1]
    <2>1. n - 1 \in 0 .. size
      BY <1>0
    <2>2. g[n - 1] \in Seq(ILLines) /\ g[n] = H[<<n, g[n - 1]>>]
      BY <1>5, <2>1
    <2> QED
      BY <1>2, <2>2
  <1>7. g = Body(g)
    <2> HIDE DEF size
    <2>1. \A n \in 0 .. size : n # 0 => n \in 1 .. size
      BY <1>0
    <2> QED
      BY <1>5, <1>6, <2>1
  <1> DEFINE kept == CHOOSE f : f = Body(f)
  <1>8. IL!Speaking(program) = kept[size]
    BY DEF IL!Speaking
  <1>9. kept = Body(kept)
    <2> HIDE DEF Body
    <2> QED
      BY <1>7
  <1> HIDE DEF kept
  <1>10. DOMAIN kept = 0 .. size /\ kept[0] = <<>>
         /\ \A n \in 1 .. size :
               kept[n] = IF IL!Speaks(program[n]) THEN Append(kept[n - 1], program[n]) ELSE kept[n - 1]
    <2> HIDE DEF size
    <2>1. 0 \in 0 .. size /\ \A n \in 1 .. size : n \in 0 .. size /\ n # 0
      BY <1>0
    <2>2. DOMAIN kept = 0 .. size
      BY <1>9
    <2>3. \A n \in 0 .. size : kept[n] = Body(kept)[n]
      BY <1>9
    <2> QED
      BY <2>1, <2>2, <2>3
  <1> DEFINE S == {n \in 0 .. size : kept[n] = g[n]}
  <1>11. \A n \in 0 .. size : n \in S
    <2>1. 0 \in S
      BY <1>0, <1>5, <1>10
    <2>2. ASSUME NEW n \in 1 .. size, n - 1 \in S PROVE n \in S
      <3>1. kept[n - 1] = g[n - 1] /\ n \in 0 .. size
        BY <2>2
      <3> QED
        BY <1>6, <1>10, <3>1
    <2> HIDE DEF S, size
    <2> QED
      BY <1>0, <2>1, <2>2, Induction
  <1>12. \A n \in 0 .. size : kept[n] \in Seq(ILLines)
    BY <1>5, <1>11
  <1>13. kept \in [0 .. size -> Seq(ILLines)]
    <2>1. kept = [n \in 0 .. size |-> kept[n]]
      BY <1>9
    <2> QED
      BY <1>12, <2>1
  <1>14. Keeping(program, kept)
    BY <1>10, <1>13 DEF Keeping
  <1> QED
    BY <1>8, <1>14

LEMMA SayingNothing == IL!Speaking(<<>>) = <<>>
  <1>1. <<>> \in Seq(ILLines) /\ Len(<<>>) = 0
    OBVIOUS
  <1>2. PICK kept : Keeping(<<>>, kept) /\ IL!Speaking(<<>>) = kept[0]
    BY <1>1, Kept
  <1> QED
    BY <1>2 DEF Keeping

\* What one more line says comes after what the lines before it say.
LEMMA SayingMore ==
    ASSUME NEW program \in Seq(ILLines), NEW listed \in ILLines
    PROVE  /\ IL!Speaking(program) \in Seq(ILLines)
           /\ IL!Speaking(Append(program, listed)) =
                 IF IL!Speaks(listed) THEN Append(IL!Speaking(program), listed)
                 ELSE IL!Speaking(program)
  <1> DEFINE size == Len(program)
             more == Append(program, listed)
  <1>1. size \in Nat /\ more \in Seq(ILLines) /\ Len(more) = size + 1 /\ more[size + 1] = listed
        /\ \A n \in 1 .. size : more[n] = program[n]
    OBVIOUS
  <1> HIDE DEF more
  <1>2. PICK f : Keeping(program, f) /\ IL!Speaking(program) = f[size]
    BY Kept
  <1>3. PICK g : Keeping(more, g) /\ IL!Speaking(more) = g[size + 1]
    BY <1>1, Kept
  <1> HIDE DEF size
  <1>4. /\ f[0] = <<>> /\ f[size] \in Seq(ILLines)
        /\ \A n \in 1 .. size : f[n] = IF IL!Speaks(program[n]) THEN Append(f[n - 1], program[n]) ELSE f[n - 1]
    BY <1>1, <1>2 DEF Keeping, size
  <1>5. /\ g[0] = <<>>
        /\ \A n \in 1 .. size + 1 : g[n] = IF IL!Speaks(more[n]) THEN Append(g[n - 1], more[n]) ELSE g[n - 1]
    BY <1>1, <1>3 DEF Keeping
  <1> DEFINE S == {n \in 0 .. size : g[n] = f[n]}
  <1>6. 0 \in S
    BY <1>1, <1>4, <1>5
  <1>7. ASSUME NEW n \in 1 .. size, n - 1 \in S PROVE n \in S
    <2>1. g[n - 1] = f[n - 1] /\ n \in 0 .. size /\ n \in 1 .. size + 1 /\ more[n] = program[n]
      BY <1>1, <1>7
    <2>2. g[n] = IF IL!Speaks(more[n]) THEN Append(g[n - 1], more[n]) ELSE g[n - 1]
      BY <1>5, <2>1
    <2>3. f[n] = IF IL!Speaks(program[n]) THEN Append(f[n - 1], program[n]) ELSE f[n - 1]
      BY <1>4
    <2>4. g[n] = f[n]
      BY <2>1, <2>2, <2>3
    <2> QED
      BY <2>1, <2>4
  <1>8. g[size] = f[size]
    <2> HIDE DEF S
    <2>1. \A n \in 0 .. size : n \in S
      BY <1>1, <1>6, <1>7, Induction
    <2>2. size \in 0 .. size
      BY <1>1
    <2> QED
      BY <2>1, <2>2 DEF S
  <1>9. size + 1 \in 1 .. size + 1 /\ (size + 1) - 1 = size
    BY <1>1
  <1>10. g[size + 1] = IF IL!Speaks(listed) THEN Append(g[size], listed) ELSE g[size]
    BY <1>1, <1>5, <1>9
  <1> QED
    BY <1>2, <1>3, <1>4, <1>8, <1>10 DEF more

-----------------------------------------------------------------------------
(* Lists that are written by the rules.                                    *)

\* What the rules ask of a list besides that its jumps have a line to go to.
Tidy(program) ==
    /\ \A k \in DOMAIN program : IL!WellFormed(program[k])
    /\ Len(IL!Speaking(program)) <= MAXSTACK
    /\ \A j, k \in DOMAIN IL!Speaking(program) :
          j # k /\ IL!Label(IL!Speaking(program)[j]) # <<>> =>
              IL!Label(IL!Speaking(program)[j]) # IL!Label(IL!Speaking(program)[k])

\* The rung has what the lines say.
Follows(compiled, said) ==
    Len(compiled) = Len(said) /\ \A k \in 1 .. Len(said) : MeantBy(compiled[k], said[k])

\* Until intern, the rung follows the lines; once it has been called, it has
\* all that they mean.
ListInv ==
    /\ LoaderInv
    /\ text \in Seq(ILLines)
    /\ ilStep # "done" /\ Tidy(text) => Follows(rung, IL!Saying)
    /\ ListAsWritten

LEMMA InitList == Init => ListInv
  <1> SUFFICES ASSUME Init PROVE ListInv
    OBVIOUS
  <1>1. text = <<>> /\ rung = <<>> /\ ilStep = "parse"
    BY DEF Init, IL!InitIL
  <1>2. IL!Saying = <<>>
    BY <1>1, SayingNothing DEF IL!Saying
  <1>3. Follows(rung, IL!Saying)
    BY <1>1, <1>2 DEF Follows
  <1> QED
    BY <1>1, <1>3, InitLoader DEF ListInv, ListAsWritten, IL!ProgramAsWritten

\* A list that is tidy with one more line was tidy without it, and its label is
\* the first of its kind.
LEMMA TidyBefore ==
    ASSUME NEW program \in Seq(ILLines), NEW listed \in ILLines, Tidy(Append(program, listed))
    PROVE  /\ Tidy(program) /\ IL!WellFormed(listed)
           /\ IL!Speaks(listed) =>
                 /\ Len(IL!Speaking(program)) < MAXSTACK
                 /\ \A k \in 1 .. Len(IL!Speaking(program)) :
                       IL!Label(listed) # <<>> => IL!Label(IL!Speaking(program)[k]) # IL!Label(listed)
  <1> DEFINE more == Append(program, listed)
             said == IL!Speaking(program)
             saying == IL!Speaking(more)
  <1>1. /\ said \in Seq(ILLines)
        /\ saying = IF IL!Speaks(listed) THEN Append(said, listed) ELSE said
    BY SayingMore
  <1>2. /\ DOMAIN more = 1 .. Len(program) + 1 /\ DOMAIN program = 1 .. Len(program)
        /\ more[Len(program) + 1] = listed /\ Len(program) \in Nat
        /\ \A k \in 1 .. Len(program) : more[k] = program[k]
    OBVIOUS
  <1>3. IL!WellFormed(listed) /\ \A k \in DOMAIN program : IL!WellFormed(program[k])
    <2>1. \A k \in DOMAIN more : IL!WellFormed(more[k])
      BY DEF Tidy
    <2> HIDE DEF more
    <2> QED
      BY <1>2, <2>1
  <1>4. /\ Len(saying) <= MAXSTACK
        /\ \A j, k \in DOMAIN saying :
              j # k /\ IL!Label(saying[j]) # <<>> => IL!Label(saying[j]) # IL!Label(saying[k])
    BY DEF Tidy
  <1> HIDE DEF more, said, saying
  <1>5. Len(said) \in Nat /\ DOMAIN said = 1 .. Len(said) /\ MAXSTACK \in Nat
    BY <1>1, LimitsAssumption
  <1>6. CASE ~IL!Speaks(listed)
    BY <1>1, <1>3, <1>4, <1>6 DEF Tidy, said
  <1>7. CASE IL!Speaks(listed)
    <2>1. /\ Len(saying) = Len(said) + 1 /\ DOMAIN saying = 1 .. Len(said) + 1
          /\ saying[Len(said) + 1] = listed
          /\ \A k \in 1 .. Len(said) : saying[k] = said[k]
      BY <1>1, <1>5, <1>7
    <2>2. Len(said) < MAXSTACK
      BY <1>4, <1>5, <2>1
    <2>3. \A k \in 1 .. Len(said) : k \in DOMAIN saying /\ k # Len(said) + 1
      BY <1>5, <2>1
    <2>4. Len(said) + 1 \in DOMAIN saying
      BY <1>5, <2>1
    <2>5. \A k \in 1 .. Len(said) : IL!Label(listed) # <<>> => IL!Label(said[k]) # IL!Label(listed)
      BY <1>4, <2>1, <2>3, <2>4
    <2>6. \A j, k \in DOMAIN said :
             j # k /\ IL!Label(said[j]) # <<>> => IL!Label(said[j]) # IL!Label(said[k])
      BY <1>4, <1>5, <2>1, <2>3
    <2>7. Len(said) <= MAXSTACK
      BY <1>5, <2>2
    <2> QED
      BY <1>3, <2>2, <2>5, <2>6, <2>7 DEF Tidy, said
  <1> QED
    BY <1>6, <1>7

\* parse_il_line: no line of a tidy list is dropped or refused.
LEMMA LineFollows ==
    ASSUME ListInv, ilStep = "parse", NEW listed \in ILLines, text' = Append(text, listed),
           NEW x, x = IL!Parsed(listed),
           IL!Store(x) \/ IL!Drop(x) \/ IL!Skip(x) \/ IL!Refuse(x),
           Tidy(text')
    PROVE  Follows(rung', IL!Saying')
  <1> DEFINE said == IL!Speaking(text)
             i == IL!Written(IL!InstructionOf(x))
  <1>1. /\ Tidy(text) /\ IL!WellFormed(listed)
        /\ IL!Speaks(listed) =>
              /\ Len(said) < MAXSTACK
              /\ \A k \in 1 .. Len(said) :
                    IL!Label(listed) # <<>> => IL!Label(said[k]) # IL!Label(listed)
    BY TidyBefore DEF ListInv
  <1>2. /\ said \in Seq(ILLines)
        /\ IL!Saying' = IF IL!Speaks(listed) THEN Append(said, listed) ELSE said
    BY SayingMore DEF ListInv, IL!Saying
  <1>3. Follows(rung, said) /\ rung \in Seq(Compiled)
    BY <1>1 DEF ListInv, LoaderInv, Appended, IL!Saying
  <1>4. /\ ~IL!Refused(x)
        /\ IL!Speaks(listed) => x.op # "none" /\ x.label = IL!Label(listed) /\ MeantBy(i, listed)
        /\ ~IL!Speaks(listed) => x.op = "none"
    BY <1>1, LineRead
  <1> HIDE DEF said, i
  <1>5. Len(said) \in Nat /\ Len(rung) = Len(said) /\ \A k \in 1 .. Len(said) : MeantBy(rung[k], said[k])
    BY <1>2, <1>3 DEF Follows
  <1>6. CASE ~IL!Speaks(listed)
    <2>1. IL!Skip(x)
      BY <1>4, <1>6 DEF IL!Store, IL!Drop, IL!Refuse
    <2> QED
      BY <1>2, <1>3, <1>6, <2>1 DEF IL!Skip
  <1>7. CASE IL!Speaks(listed)
    <2>1. Len(rung) # MAXSTACK
      BY <1>1, <1>5, <1>7, LimitsAssumption
    <2>2. IL!Labelled(x.label) = {}
      <3>1. \A k \in 1 .. Len(rung) : x.label # <<>> => rung[k].label # x.label
        BY <1>1, <1>4, <1>5, <1>7 DEF MeantBy
      <3> QED
        BY <3>1 DEF IL!Labelled
    <2>3. IL!Store(x)
      BY <1>4, <1>7, <2>1, <2>2 DEF IL!Drop, IL!Skip, IL!Refuse
    <2>4. rung' = Append(rung, i)
      BY <2>3 DEF IL!Store, i
    <2>5. i \in Compiled
      BY DEF Compiled, i
    <2>6. /\ Len(rung') = Len(said) + 1 /\ rung'[Len(said) + 1] = i
          /\ \A k \in 1 .. Len(said) : rung'[k] = rung[k]
      BY <1>3, <1>5, <2>4, <2>5
    <2>7. /\ Len(IL!Saying') = Len(said) + 1 /\ IL!Saying'[Len(said) + 1] = listed
          /\ \A k \in 1 .. Len(said) : IL!Saying'[k] = said[k]
      <3> DEFINE saying == IL!Saying'
      <3>1. saying = Append(said, listed)
        BY <1>2, <1>7
      <3> HIDE DEF saying
      <3>2. /\ Len(saying) = Len(said) + 1 /\ saying[Len(said) + 1] = listed
            /\ \A k \in 1 .. Len(said) : saying[k] = said[k]
        BY <1>2, <3>1
      <3> QED
        BY <3>2 DEF saying
    <2>8. \A k \in 1 .. Len(said) + 1 : k \in 1 .. Len(said) \/ k = Len(said) + 1
      BY <1>5
    <2>9. \A k \in 1 .. Len(said) + 1 : MeantBy(rung'[k], IL!Saying'[k])
      BY <1>4, <1>5, <1>7, <2>6, <2>7, <2>8
    <2> QED
      BY <2>6, <2>7, <2>9 DEF Follows
  <1> QED
    BY <1>6, <1>7

\* The instruction i is the one that a line means among those that say something.
Means(i, row, said) ==
    LET x == IL!Said(row)
    IN /\ i.label = IL!Label(row) /\ i.operation = x.op /\ i.modifier = IL!MeantModifier(x)
       /\ x.op = "JMP" =>
             i.target + 1 \in {k \in 1 .. Len(said) : IL!Label(said[k]) = x.arg.name}
       /\ x.op \notin IL!Silent =>
             /\ i.operand = IL!MeantOperand(x) /\ i.byte = x.arg.byte
             /\ i.bit = IF x.arg.bit \in 0 .. 7 THEN x.arg.bit ELSE BYTESIZE

\* intern: the jumps of a list that is written by the rules have their numbers.
LEMMA InternFollows ==
    ASSUME ListInv, IL!Intern
    PROVE  ListAsWritten'
  <1> SUFFICES ASSUME IL!Coherent'
               PROVE  /\ outcome' = "STOPPED" /\ Len(rung') = Len(IL!Saying')
                      /\ \A k \in DOMAIN rung' : Means(rung'[k], IL!Saying'[k], IL!Saying')
    BY DEF ListAsWritten, IL!ProgramAsWritten, IL!Says, IL!Labelling, Means
  <1>1. ilStep = "intern" /\ text' = text /\ rung \in Seq(Compiled) /\ text \in Seq(ILLines)
    BY DEF IL!Intern, ListInv, LoaderInv, Appended
  <1>2. IL!Saying' = IL!Saying /\ \A label : IL!Labelling(label)' = IL!Labelling(label)
    BY <1>1 DEF IL!Saying, IL!Labelling
  <1>3. IL!Coherent
    BY <1>1, <1>2 DEF IL!Coherent
  <1>4. Tidy(text)
    BY <1>3 DEF IL!Coherent, Tidy, IL!Saying
  <1>5. Follows(rung, IL!Saying)
    BY <1>1, <1>4 DEF ListInv
  <1> DEFINE size == Len(rung)
  <1>6. /\ size \in Nat /\ DOMAIN rung = 1 .. size /\ Len(IL!Saying) = size
        /\ DOMAIN IL!Saying = 1 .. size
        /\ \A k \in 1 .. size : rung[k] \in Compiled /\ MeantBy(rung[k], IL!Saying[k])
    <2>1. IL!Saying \in Seq(ILLines)
      <3>1. PICK kept : Keeping(text, kept) /\ IL!Speaking(text) = kept[Len(text)]
        BY <1>1, Kept
      <3>2. Len(text) \in 0 .. Len(text)
        BY <1>1
      <3> QED
        BY <3>1, <3>2 DEF Keeping, IL!Saying
    <2> QED
      BY <1>1, <1>5, <2>1 DEF Follows
  <1> HIDE DEF size
  <1>7. \A label : label # <<>> => IL!Labelled(label) = IL!Labelling(label)
    <2>1. \A k \in 1 .. size : rung[k].label = IL!Label(IL!Saying[k])
      BY <1>6 DEF MeantBy
    <2> QED
      BY <1>6, <2>1 DEF IL!Labelled, IL!Labelling, size
  <1>8. ASSUME NEW k \in 1 .. size, rung[k].lookup # <<>>
        PROVE  /\ IL!Labelled(rung[k].lookup) # {}
               /\ IL!Said(IL!Saying[k]).op = "JMP"
               /\ rung[k].lookup = IL!Said(IL!Saying[k]).arg.name
    <2>1. /\ IL!Said(IL!Saying[k]).op = "JMP"
          /\ rung[k].lookup = IL!Said(IL!Saying[k]).arg.name
      BY <1>6, <1>8 DEF MeantBy
    <2>2. IL!Labelling(IL!Said(IL!Saying[k]).arg.name) # {}
      BY <1>3, <1>6, <2>1 DEF IL!Coherent
    <2> QED
      BY <1>7, <1>8, <2>1, <2>2
  <1>9. IL!Unresolved = {}
    BY <1>8 DEF IL!Unresolved, size
  <1>10. outcome' = "STOPPED"
    BY <1>9 DEF IL!Intern
  <1>11. rung' = [j \in 1 .. size |->
                    IF rung[j].lookup = <<>> THEN rung[j]
                    ELSE Resolved(rung[j], IL!Lookup(rung[j].lookup) - 1)]
    BY <1>9 DEF IL!Intern, Resolved, size
  <1>12. DOMAIN rung' = 1 .. size /\ Len(rung') = size
    BY <1>6, <1>11
  <1>13. ASSUME NEW k \in 1 .. size
         PROVE  Means(rung'[k], IL!Saying'[k], IL!Saying')
    <2> DEFINE y == IL!Said(IL!Saying[k])
               i == rung[k]
               j == rung'[k]
    <2>1. i \in Compiled /\ MeantBy(i, IL!Saying[k])
      BY <1>6
    <2>2. /\ j.label = i.label /\ j.operation = i.operation /\ j.modifier = i.modifier
          /\ j.operand = i.operand /\ j.byte = i.byte /\ j.bit = i.bit
      BY <1>11 DEF Resolved
    <2>3. y.op = "JMP" => j.target + 1 \in IL!Labelling(y.arg.name)
      <3> SUFFICES ASSUME y.op = "JMP" PROVE j.target + 1 \in IL!Labelling(y.arg.name)
        OBVIOUS
      <3>1. i.lookup = y.arg.name /\ i.lookup # <<>>
        BY <2>1 DEF MeantBy
      <3>2. IL!Lookup(i.lookup) \in IL!Labelled(i.lookup)
        BY <1>8, <3>1, LookupFinds
      <3>3. IL!Lookup(i.lookup) \in Nat
        BY <1>6, <3>2 DEF IL!Labelled
      <3>4. j = Resolved(i, IL!Lookup(i.lookup) - 1)
        BY <1>11, <3>1
      <3>5. j.target = IL!Lookup(i.lookup) - 1
        BY <2>1, <3>4, ResolvedKeeps
      <3>6. j.target + 1 = IL!Lookup(i.lookup)
        BY <3>3, <3>5
      <3> QED
        BY <1>7, <3>1, <3>2, <3>6
    <2>4. /\ j.label = IL!Label(IL!Saying[k]) /\ j.operation = y.op
          /\ j.modifier = IL!MeantModifier(y)
          /\ y.op \notin IL!Silent =>
                /\ j.operand = IL!MeantOperand(y) /\ j.byte = y.arg.byte
                /\ j.bit = IF y.arg.bit \in 0 .. 7 THEN y.arg.bit ELSE BYTESIZE
      BY <2>1, <2>2 DEF MeantBy
    <2> HIDE DEF j
    <2>5. Means(j, IL!Saying[k], IL!Saying)
      BY <2>3, <2>4 DEF Means, IL!Labelling
    <2> QED
      BY <1>2, <2>5 DEF j
  <1> QED
    BY <1>2, <1>6, <1>10, <1>12, <1>13

LEMMA ListInvStep == ListInv /\ [Next]_vars => ListInv'
  <1> SUFFICES ASSUME ListInv, [Next]_vars PROVE ListInv'
    OBVIOUS
  <1>1. LoaderInv'
    BY LoaderStep DEF ListInv
  <1>2. ilStep \in {"parse", "intern", "done"} /\ (lang # "il" => ilStep = "parse")
    BY DEF ListInv, LoaderInv
  <1>3. CASE ParseIL
    <2>1. ASSUME NEW listed \in ILLines, IL!Parsing, text' = Append(text, listed),
                 NEW x, x = IL!Parsed(listed),
                 IL!Store(x) \/ IL!Drop(x) \/ IL!Skip(x) \/ IL!Refuse(x)
          PROVE  ListInv'
      <3>1. ilStep = "parse"
        BY <2>1 DEF IL!Parsing
      <3>2. Tidy(text') => Follows(rung', IL!Saying')
        BY <2>1, <3>1, LineFollows
      <3>3. text' \in Seq(ILLines)
        BY <2>1 DEF ListInv
      <3>4. ilStep' # "done"
        BY <2>1, <3>1 DEF IL!Store, IL!Drop, IL!Skip, IL!Refuse
      <3> QED
        BY <1>1, <3>2, <3>3, <3>4 DEF ListInv, Tidy, Follows, ListAsWritten, IL!ProgramAsWritten
    <2>2. CASE IL!EndOfProgram
      <3>1. ilStep = "parse" /\ ilStep' = "intern" /\ text' = text /\ rung' = rung
        BY <2>2 DEF IL!EndOfProgram
      <3>2. IL!Saying' = IL!Saying
        BY <3>1 DEF IL!Saying
      <3> QED
        BY <1>1, <3>1, <3>2 DEF ListInv, Tidy, Follows, ListAsWritten, IL!ProgramAsWritten
    <2>3. CASE IL!Intern
      <3>1. text' = text /\ ilStep' = "done"
        BY <2>3 DEF IL!Intern
      <3> QED
        BY <1>1, <2>3, <3>1, InternFollows DEF ListInv
    <2> QED
      BY <1>3, <2>1, <2>2, <2>3 DEF ParseIL, IL!NextIL
  <1>4. CASE Reject \/ ParseLD \/ UNCHANGED vars
    <2>1. text' = text /\ rung' = rung /\ ilStep' = ilStep
      BY <1>4 DEF Reject, ParseLD, vars, list
    <2>2. ilStep = "done" => outcome' = outcome
      BY <1>2, <1>4 DEF Reject, ParseLD, vars
    <2>3. IL!Saying' = IL!Saying /\ (IL!Coherent' <=> IL!Coherent)
          /\ \A k \in DOMAIN rung : IL!Says(rung[k], IL!Saying[k])' <=> IL!Says(rung[k], IL!Saying[k])
      BY <2>1 DEF IL!Saying, IL!Coherent, IL!Labelling, IL!Says
    <2> QED
      BY <1>1, <2>1, <2>2, <2>3 DEF ListInv, Tidy, Follows, ListAsWritten, IL!ProgramAsWritten
  <1> QED
    BY <1>3, <1>4 DEF Next

\* A list written by the rules is accepted, and its rung has the instructions
\* that its lines say, in their order, each jump leading to a line that has its
\* label, for any such lines, any number of them and any size of a rung
\* (parse_il_line, append, intern).
THEOREM LoaderAsWritten == Spec => []ListAsWritten
  <1>1. ListInv => ListAsWritten
    BY DEF ListInv
  <1> QED
    BY <1>1, InitList, ListInvStep, PTL DEF Spec

-----------------------------------------------------------------------------
(* The meaning of a drawing.                                               *)

Cell == [c : STRING] \cup [c : STRING, byte : Int] \cup [c : STRING, bit : Int]

LEMMA TextsRead == Init => buf \in [Line -> Seq(Cell)]
  <1>1. \A x \in Texts : x \in Seq(Cell)
    BY TextsAssumption DEF Cell
  <1>2. <<>> \in Seq(Cell)
    OBVIOUS
  <1> QED
    BY <1>1, <1>2 DEF Init

\* Lines are numbered from 0, and each has a last column.
LEMMA Numbering ==
    ASSUME buf \in [Line -> Seq(Cell)]
    PROVE  /\ Length \in Nat \ {0} /\ Line \subseteq Nat /\ 0 \in Line
           /\ \A l \in Line : Len(buf[l]) \in Nat /\ l < Length
           /\ \A l \in Nat : l < Length => l \in Line
  BY LengthAssumption DEF Line

LEMMA Widest ==
    ASSUME buf \in [Line -> Seq(Cell)]
    PROVE  Width \in Nat /\ \A l \in Line : Len(buf[l]) <= Width
  <1> DEFINE long(n, w) == \A l \in Line : l <= n => Len(buf[l]) <= w
             S == {n \in 0 .. Length - 1 : \E l \in Line : long(n, Len(buf[l]))}
  <1>1. 0 \in S
    <2>1. \A l \in Line : l <= 0 => l = 0
      BY Numbering
    <2>2. long(0, Len(buf[0])) /\ 0 \in 0 .. Length - 1
      BY <2>1, Numbering
    <2> QED
      BY <2>2, Numbering
  <1>2. ASSUME NEW n \in 1 .. Length - 1, n - 1 \in S PROVE n \in S
    <2>1. PICK l \in Line : long(n - 1, Len(buf[l]))
      BY <1>2
    <2>2. n \in Line /\ n \in 0 .. Length - 1
      BY Numbering
    <2>3. \A k \in Line : k <= n => k <= n - 1 \/ k = n
      BY Numbering
    <2>4. CASE Len(buf[n]) <= Len(buf[l])
      <3>1. long(n, Len(buf[l]))
        BY <2>1, <2>3, <2>4
      <3> QED
        BY <2>2, <3>1
    <2>5. CASE ~(Len(buf[n]) <= Len(buf[l]))
      <3>1. \A k \in Line : Len(buf[k]) <= Len(buf[l]) => Len(buf[k]) <= Len(buf[n])
        BY <2>2, <2>5, Numbering
      <3>2. Len(buf[n]) <= Len(buf[n])
        BY <2>2, Numbering
      <3>3. long(n, Len(buf[n]))
        BY <2>1, <2>3, <3>1, <3>2
      <3> QED
        BY <2>2, <3>3
    <2> QED
      BY <2>4, <2>5
  <1>3. Length - 1 \in S
    <2> HIDE DEF S
    <2>1. Length - 1 \in Nat /\ Length - 1 \in 0 .. Length - 1
      BY Numbering
    <2>2. \A n \in 0 .. Length - 1 : n \in S
      BY <1>1, <1>2, <2>1, Induction
    <2> QED
      BY <2>1, <2>2
  <1>4. PICK l \in Line : \A k \in Line : Len(buf[k]) <= Len(buf[l])
    <2>1. PICK l \in Line : long(Length - 1, Len(buf[l]))
      BY <1>3
    <2>2. \A k \in Line : k <= Length - 1
      BY Numbering
    <2> QED
      BY <2>1, <2>2
  <1>5. \E w \in {Len(buf[k]) : k \in Line} : \A k \in Line : Len(buf[k]) <= w
    BY <1>4
  <1>6. Width \in {Len(buf[k]) : k \in Line} /\ \A k \in Line : Len(buf[k]) <= Width
    BY <1>5 DEF Width
  <1> QED
    BY <1>6, Numbering

-----------------------------------------------------------------------------
(* The flow of a drawing.                                                  *)

\* What may reach a column.
State == [wired : BOOLEAN, on : SUBSET SUBSET Operands]

\* F says of each column what reaches it.
Conducts(F) ==
    /\ F \in [0 .. Width -> [Line -> State]]
    /\ \A l \in Line : F[0][l] = Unwired
    /\ \A c \in 1 .. Width, l \in Line : F[c][l] = Through(l, c - 1, F[c - 1])

LEMMA ThroughState ==
    ASSUME NEW l \in Line, NEW c, NEW p \in [Line -> State]
    PROVE  Through(l, c, p) \in State
  <1>1. Unwired \in State
    BY DEF Unwired, State
  <1>2. CASE Symbol(l, c) \in Contacts
    <2> DEFINE on == {v \in (IF p[l].wired THEN p[l].on ELSE SUBSET Operands) :
                        (Written(l, c) \in v) # (c > 0 /\ Symbol(l, c - 1) = "!")}
    <2>1. p[l].on \in SUBSET SUBSET Operands
      BY DEF State
    <2>2. on \in SUBSET SUBSET Operands
      BY <2>1
    <2>3. Symbol(l, c) \notin {"+", "blank", "|", "END", "ERR"}
      BY <1>2 DEF Contacts
    <2> HIDE DEF on
    <2>4. [wired |-> TRUE, on |-> on] \in State
      BY <2>2 DEF State
    <2>5. Through(l, c, p) = [wired |-> TRUE, on |-> on]
      BY <1>2, <2>3 DEF Through, on
    <2> QED
      BY <2>4, <2>5
  <1>3. CASE Symbol(l, c) = "+"
    <2> DEFINE branches == {k \in Connected(l, c) : Symbol(k, c) = "+" /\ p[k].wired}
    <2>1. branches \subseteq Line
      BY DEF Connected
    <2>2. Through(l, c, p) = [wired |-> branches # {}, on |-> UNION {p[k].on : k \in branches}]
      BY <1>3 DEF Through, Contacts
    <2> HIDE DEF branches
    <2>3. \A k \in branches : p[k].on \in SUBSET SUBSET Operands
      BY <2>1 DEF State
    <2>4. UNION {p[k].on : k \in branches} \in SUBSET SUBSET Operands
      BY <2>3
    <2> QED
      BY <2>2, <2>4 DEF State
  <1>4. CASE Symbol(l, c) \in {"blank", "|", "END", "ERR"}
    BY <1>1, <1>4 DEF Through, Contacts
  <1>5. CASE Symbol(l, c) \notin {"+", "blank", "|", "END", "ERR"} \cup Contacts
    BY <1>5 DEF Through
  <1> QED
    BY <1>2, <1>3, <1>4, <1>5

LEMMA FlowConducts == buf \in [Line -> Seq(Cell)] => Conducts(Flow)
  <1> SUFFICES ASSUME buf \in [Line -> Seq(Cell)] PROVE Conducts(Flow)
    OBVIOUS
  <1> DEFINE X == [Line -> State]
             none == [l \in Line |-> Unwired]
             H == [p \in (1 .. Width) \X X |-> [l \in Line |-> Through(l, p[1] - 1, p[2])]]
             Body(f) == [c \in 0 .. Width |->
                 IF c = 0 THEN [l \in Line |-> Unwired]
                 ELSE [l \in Line |-> Through(l, c - 1, f[c - 1])]]
  <1>0. Width \in Nat
    BY Widest
  <1>1. none \in X
    BY DEF Unwired, State
  <1>2. H \in [(1 .. Width) \X X -> X]
    <2>1. \A c \in 1 .. Width, p \in X : [l \in Line |-> Through(l, c - 1, p)] \in X
      BY ThroughState
    <2> HIDE DEF X
    <2> QED
      BY <2>1
  <1>3. \A c \in 1 .. Width, p \in X : H[<<c, p>>] = [l \in Line |-> Through(l, c - 1, p)]
    <2> HIDE DEF X
    <2> QED
      OBVIOUS
  <1> HIDE DEF H, none, X
  <1>4. Recursed(Width, X, none, H)
    BY <1>0, <1>1, <1>2, Recursion
  <1>5. PICK g \in [0 .. Width -> X] : g[0] = none /\ \A c \in 1 .. Width : g[c] = H[<<c, g[c - 1]>>]
    BY <1>4 DEF Recursed
  <1>6. \A c \in 1 .. Width : g[c] = [l \in Line |-> Through(l, c - 1, g[c - 1])]
    <2>1. \A c \in 1 .. Width : c - 1 \in 0 .. Width
      BY <1>0
    <2> QED
      BY <1>3, <1>5, <2>1
  <1>7. g = Body(g)
    <2>1. \A c \in 0 .. Width : c # 0 => c \in 1 .. Width
      BY <1>0
    <2> QED
      BY <1>5, <1>6, <2>1 DEF none
  <1>8. Flow = Body(Flow)
    <2>1. Flow = CHOOSE f : f = Body(f)
      BY DEF Flow
    <2> HIDE DEF Body
    <2> QED
      BY <1>7, <2>1
  <1>9. \A c \in 0 .. Width : Flow[c] = IF c = 0 THEN [l \in Line |-> Unwired]
                                     ELSE [l \in Line |-> Through(l, c - 1, Flow[c - 1])]
    BY <1>8
  <1>10. \A c \in 1 .. Width : c \in 0 .. Width /\ c # 0 /\ c - 1 \in 0 .. Width
    BY <1>0
  <1> DEFINE S == {c \in 0 .. Width : Flow[c] = g[c]}
  <1>11. \A c \in 0 .. Width : c \in S
    <2>1. 0 \in S
      <3>1. 0 \in 0 .. Width
        BY <1>0
      <3>2. Flow[0] = [l \in Line |-> Unwired]
        BY <1>9, <3>1
      <3> QED
        BY <1>5, <3>1, <3>2 DEF none
    <2>2. ASSUME NEW c \in 1 .. Width, c - 1 \in S PROVE c \in S
      BY <1>6, <1>9, <1>10, <2>2
    <2> HIDE DEF S
    <2> QED
      BY <1>0, <2>1, <2>2, Induction
  <1>12. \A c \in 0 .. Width : Flow[c] \in X
    BY <1>5, <1>11
  <1>13. Flow = [c \in 0 .. Width |-> Flow[c]]
    BY <1>8
  <1>14. Flow \in [0 .. Width -> X]
    BY <1>12, <1>13
  <1>15. \A l \in Line : Flow[0][l] = Unwired
    <2>1. 0 \in 0 .. Width
      BY <1>0
    <2>2. Flow[0] = [l \in Line |-> Unwired]
      BY <1>9, <2>1
    <2> QED
      BY <2>2
  <1>16. \A c \in 1 .. Width, l \in Line : Flow[c][l] = Through(l, c - 1, Flow[c - 1])
    BY <1>9, <1>10
  <1> QED
    BY <1>14, <1>15, <1>16 DEF Conducts, X

LEMMA FlowOnce ==
    ASSUME buf \in [Line -> Seq(Cell)], NEW F, NEW G, Conducts(F), Conducts(G)
    PROVE  F = G
  <1>0. Width \in Nat
    BY Widest
  <1> DEFINE S == {c \in 0 .. Width : F[c] = G[c]}
  <1>1. 0 \in S
    <2>1. 0 \in 0 .. Width
      BY <1>0
    <2> QED
      BY <2>1 DEF Conducts
  <1>2. ASSUME NEW c \in 1 .. Width, c - 1 \in S PROVE c \in S
    <2>1. c \in 0 .. Width /\ F[c - 1] = G[c - 1]
      BY <1>0, <1>2
    <2>2. \A l \in Line : F[c][l] = G[c][l]
      BY <2>1 DEF Conducts
    <2>3. F[c] \in [Line -> State] /\ G[c] \in [Line -> State]
      BY <2>1 DEF Conducts
    <2> QED
      BY <2>1, <2>2, <2>3
  <1>3. \A c \in 0 .. Width : c \in S
    <2> HIDE DEF S
    <2> QED
      BY <1>0, <1>1, <1>2, Induction
  <1>4. F \in [0 .. Width -> [Line -> State]] /\ G \in [0 .. Width -> [Line -> State]]
    BY DEF Conducts
  <1>5. \A c \in 0 .. Width : F[c] = G[c]
    BY <1>3
  <1>6. F = [c \in 0 .. Width |-> F[c]] /\ G = [c \in 0 .. Width |-> G[c]]
    BY <1>4
  <1>7. [c \in 0 .. Width |-> F[c]] = [c \in 0 .. Width |-> G[c]]
    BY <1>5
  <1> QED
    BY <1>6, <1>7

-----------------------------------------------------------------------------
(* A drawing does not change while it is read.                             *)

LEMMA SameSymbols ==
    ASSUME buf' = buf
    PROVE  /\ \A l, c : Symbol(l, c)' = Symbol(l, c)
           /\ \A l, c : NumberEnd(l, c)' = NumberEnd(l, c)
           /\ \A l, c : BitAfter(l, c)' = BitAfter(l, c) /\ Byte(l, c)' = Byte(l, c)
           /\ Width' = Width
  <1>1. \A l, c : Symbol(l, c)' = Symbol(l, c)
    BY DEF Symbol
  <1>2. ASSUME NEW l, NEW c PROVE NumberEnd(l, c)' = NumberEnd(l, c)
    BY DEF NumberEnd, Symbol
  <1>3. ASSUME NEW l, NEW c
        PROVE  BitAfter(l, c)' = BitAfter(l, c) /\ Byte(l, c)' = Byte(l, c)
    BY DEF BitAfter, Slashes, Byte, Symbol
  <1>4. Width' = Width
    BY DEF Width
  <1> QED
    BY <1>1, <1>2, <1>3, <1>4

LEMMA SameOperands ==
    ASSUME buf' = buf
    PROVE  /\ \A l, c : Written(l, c)' = Written(l, c)
           /\ \A l, c : Operand(l, c)' = Operand(l, c)
           /\ \A l, c : OperandEnd(l, c)' = OperandEnd(l, c)
           /\ \A l, c : Connected(l, c)' = Connected(l, c)
           /\ \A l, S : Cells(l, S)' = Cells(l, S)
           /\ \A l : CoilColumns(l)' = CoilColumns(l)
           /\ \A l : CoilColumn(l)' = CoilColumn(l)
  <1>1. \A l, c : Written(l, c)' = Written(l, c)
    BY SameSymbols DEF Written
  <1>2. \A l, c : Operand(l, c)' = Operand(l, c)
    BY SameSymbols DEF Operand
  <1>3. \A l, c : OperandEnd(l, c)' = OperandEnd(l, c)
    BY SameSymbols DEF OperandEnd
  <1>4. \A l, c : Connected(l, c)' = Connected(l, c)
    BY SameSymbols DEF Connected
  <1>5. \A l, S : Cells(l, S)' = Cells(l, S)
    BY SameSymbols DEF Cells
  <1>6. \A l : CoilColumns(l)' = CoilColumns(l)
    BY SameSymbols DEF CoilColumns
  <1>7. \A l : CoilColumn(l)' = CoilColumn(l)
    BY <1>6 DEF CoilColumn
  <1> QED
    BY <1>1, <1>2, <1>3, <1>4, <1>5, <1>6, <1>7

LEMMA SameThrough ==
    ASSUME buf' = buf
    PROVE  \A l, c, p : Through(l, c, p)' = Through(l, c, p)
  <1> SUFFICES ASSUME NEW l, NEW c, NEW p PROVE Through(l, c, p)' = Through(l, c, p)
    OBVIOUS
  <1>1. /\ Symbol(l, c)' = Symbol(l, c) /\ Symbol(l, c - 1)' = Symbol(l, c - 1)
        /\ Written(l, c)' = Written(l, c)
        /\ {k \in Connected(l, c) : Symbol(k, c) = "+" /\ p[k].wired}'
            = {k \in Connected(l, c) : Symbol(k, c) = "+" /\ p[k].wired}
    BY SameSymbols, SameOperands
  <1> QED
    BY <1>1 DEF Through

LEMMA SameFlow ==
    ASSUME buf \in [Line -> Seq(Cell)], buf' = buf
    PROVE  Flow' = Flow
  <1>1. Conducts(Flow)
    BY FlowConducts
  <1>2. (buf \in [Line -> Seq(Cell)] => Conducts(Flow))'
    BY FlowConducts, PTL
  <1>3. Conducts(Flow)'
    BY <1>2
  <1>4. Conducts(Flow')
    BY <1>3, SameSymbols, SameThrough DEF Conducts
  <1> QED
    BY <1>1, <1>4, FlowOnce

LEMMA SameDrawing ==
    ASSUME buf \in [Line -> Seq(Cell)], buf' = buf
    PROVE  /\ WellDrawn' <=> WellDrawn
           /\ \A l : Meant(l)' = Meant(l)
           /\ \A l : HasCoil(l)' <=> HasCoil(l)
  <1>1. Known' <=> Known
    BY SameSymbols DEF Known
  <1>2. WireAfterContacts' <=> WireAfterContacts
    BY SameSymbols, SameOperands DEF WireAfterContacts
  <1>3. OwnBits' <=> OwnBits
    <2>1. \A l, S : Cells(l, S)' = Cells(l, S)
      BY SameOperands
    <2>2. \A l, c : Operand(l, c)' = Operand(l, c) /\ Written(l, c)' = Written(l, c)
      BY SameOperands
    <2> QED
      BY <2>1, <2>2 DEF OwnBits
  <1>4. NothingAfterCoils' <=> NothingAfterCoils
    BY SameOperands DEF NothingAfterCoils
  <1>5. NothingAfterCrossing' <=> NothingAfterCrossing
    BY SameOperands DEF NothingAfterCrossing
  <1>6. NodesToTheRight' <=> NodesToTheRight
    BY SameOperands DEF NodesToTheRight
  <1>7. \A l : Meant(l)' = Meant(l)
    <2> TAKE l
    <2>1. /\ CoilColumn(l)' = CoilColumn(l) /\ Flow' = Flow
          /\ \A c : Symbol(l, c)' = Symbol(l, c) /\ Written(l, c)' = Written(l, c)
      BY SameSymbols, SameOperands, SameFlow
    <2> QED
      BY <2>1 DEF Meant
  <1>8. \A l : HasCoil(l)' <=> HasCoil(l)
    BY SameOperands DEF HasCoil
  <1>9. NumbersExist' <=> NumbersExist
    BY SameOperands DEF NumbersExist
  <1> QED
    BY <1>1, <1>2, <1>3, <1>4, <1>5, <1>6, <1>7, <1>8, <1>9 DEF WellDrawn

-----------------------------------------------------------------------------
(* Lines that are well drawn.                                              *)

\* The symbols that parse_ld_line may find where it begins to read.
Alphabet == {"-", "!", "blank", "|", "+", "END"} \cup Contacts \cup Coils

LEMMA SymbolsRead ==
    ASSUME buf \in [Line -> Seq(Cell)], NEW l \in Line, NEW c \in Nat
    PROVE  /\ c = Len(buf[l]) => Symbol(l, c) = "END"
           /\ c <= Len(buf[l]) /\ Symbol(l, c) # "END" =>
                 c \in 0 .. Len(buf[l]) - 1 /\ c + 1 <= Len(buf[l])
           /\ Symbol(l, c) \notin {"END", "ERR"} => c \in 0 .. Len(buf[l]) - 1
  BY Numbering DEF Symbol

LEMMA Spelled ==
    ASSUME buf \in [Line -> Seq(Cell)], Known, NEW l \in Line, NEW c \in 0 .. Len(buf[l])
    PROVE  /\ Symbol(l, c) \in Alphabet \cup {"9", "/", "Q"}
           /\ Symbol(l, c) = "!" => Symbol(l, c + 1) \in Contacts
           /\ Symbol(l, c) \in Coils => Symbol(l, c + 1) = "Q"
           /\ Symbol(l, c) = "Q" => c > 0 /\ Symbol(l, c - 1) \in Coils
           /\ Symbol(l, c) \in {"9", "/"} =>
                 c > 0 /\ Symbol(l, c - 1) \in {"9", "/", "Q"} \cup Contacts
           /\ Symbol(l, c) = "/" => Symbol(l, c + 1) = "9" /\ Symbol(l, c + 2) \notin {"9", "/"}
  <1>1. CASE c = Len(buf[l])
    BY <1>1, SymbolsRead, Numbering DEF Alphabet, Coils
  <1>2. CASE c # Len(buf[l])
    <2>1. c \in 0 .. Len(buf[l]) - 1
      BY <1>2, Numbering
    <2> QED
      BY <2>1 DEF Known, Alphabet
  <1> QED
    BY <1>1, <1>2

LEMMA NumberEnds ==
    ASSUME buf \in [Line -> Seq(Cell)], NEW l \in Line, NEW c \in 0 .. Len(buf[l]) - 1
    PROVE  /\ NumberEnd(l, c) \in c + 1 .. Len(buf[l]) /\ Symbol(l, NumberEnd(l, c)) # "9"
           /\ \A d \in c + 1 .. NumberEnd(l, c) - 1 : Symbol(l, d) = "9"
  <1> DEFINE ends == {e \in c + 1 .. Len(buf[l]) : Symbol(l, e) # "9"}
  <1>0. Len(buf[l]) \in Nat
    BY Numbering
  <1>1. Len(buf[l]) \in c + 1 .. Len(buf[l]) /\ Symbol(l, Len(buf[l])) # "9"
    BY <1>0, SymbolsRead
  <1>2. ends \in SUBSET Nat /\ ends # {}
    BY <1>0, <1>1
  <1> HIDE DEF ends
  <1>3. PICK e \in ends : \A d \in ends : e <= d
    BY <1>2, LeastNatural
  <1>4. e \in c + 1 .. Len(buf[l]) /\ Symbol(l, e) # "9"
    BY DEF ends
  <1>5. ASSUME NEW d \in c + 1 .. e - 1 PROVE Symbol(l, d) = "9"
    <2>1. d \in c + 1 .. Len(buf[l]) /\ ~(e <= d)
      BY <1>0, <1>4
    <2>2. d \notin ends
      BY <1>3, <2>1
    <2> QED
      BY <2>1, <2>2 DEF ends
  <1>6. \E n \in c + 1 .. Len(buf[l]) :
            Symbol(l, n) # "9" /\ \A d \in c + 1 .. n - 1 : Symbol(l, d) = "9"
    BY <1>4, <1>5
  <1> QED
    BY <1>6 DEF NumberEnd

\* The column at which parse_ld_line reads on after a contact.
After(l, c) == c + 4 + Digits(Byte(l, c))

\* What is passed over after a contact.
LEMMA ContactPassed ==
    ASSUME buf \in [Line -> Seq(Cell)], WellDrawn, NEW l \in Line, NEW c \in Nat,
           Symbol(l, c) \in Contacts
    PROVE  /\ After(l, c) \in Nat /\ c + 5 <= After(l, c) /\ After(l, c) <= Len(buf[l])
           /\ \A d \in c + 1 .. After(l, c) - 1 : Symbol(l, d) \in {"9", "/", "-"}
           /\ Symbol(l, After(l, c)) \in Alphabet
  <1> DEFINE e == NumberEnd(l, c)
             own == OperandEnd(l, c)
             next == After(l, c)
             len == Len(buf[l])
  <1>0. Known
    BY DEF WellDrawn
  <1>1. c \in 0 .. len - 1 /\ len \in Nat /\ c \in Cells(l, Contacts)
    <2>1. Symbol(l, c) \notin {"END", "ERR"}
      BY DEF Contacts
    <2> QED
      BY <2>1, SymbolsRead, Numbering DEF Cells
  <1>2. e \in c + 1 .. len /\ Symbol(l, e) # "9" /\ \A d \in c + 1 .. e - 1 : Symbol(l, d) = "9"
    BY <1>1, NumberEnds
  <1>3. next \in {c + 5, c + 6, c + 7}
    BY DEF After, Digits
  <1>4. own <= next /\ \A d \in own .. next - 1 : Symbol(l, d) = "-"
    BY <1>1 DEF WellDrawn, WireAfterContacts, After
  <1>5. /\ own \in Nat /\ e <= own /\ own <= len /\ Symbol(l, own) \notin {"9", "/"}
        /\ \A d \in e .. own - 1 : Symbol(l, d) \in {"9", "/"}
    <2>1. CASE Symbol(l, e) = "/"
      <3>1. own = e + 2 /\ e \in 0 .. len
        BY <1>1, <1>2, <2>1 DEF OperandEnd
      <3>2. Symbol(l, e + 1) = "9" /\ Symbol(l, e + 2) \notin {"9", "/"}
        BY <1>0, <2>1, <3>1, Spelled
      <3>3. e + 1 \in 0 .. len - 1 /\ e + 1 \in Nat
        <4>1. e + 1 \in Nat /\ Symbol(l, e + 1) \notin {"END", "ERR"}
          BY <3>1, <3>2
        <4> QED
          BY <4>1, SymbolsRead
      <3>4. \A d \in e .. own - 1 : d = e \/ d = e + 1
        BY <3>1
      <3>5. own \in Nat /\ e <= own /\ own <= len
        BY <1>1, <3>1, <3>3
      <3> QED
        BY <2>1, <3>1, <3>2, <3>4, <3>5
    <2>2. CASE Symbol(l, e) # "/"
      <3>1. own = e
        BY <2>2 DEF OperandEnd
      <3>2. \A d \in e .. e - 1 : FALSE
        BY <1>2
      <3> QED
        BY <1>1, <1>2, <2>2, <3>1, <3>2
    <2> QED
      BY <2>1, <2>2
  <1> HIDE DEF e, own, next, len
  <1>6. next \in Nat /\ c + 5 <= next
    BY <1>3
  <1>7. next <= len
    <2>1. CASE next = own
      BY <1>5, <2>1
    <2>2. CASE next # own
      <3>1. next - 1 \in own .. next - 1 /\ next - 1 \in Nat
        BY <1>4, <1>5, <1>6, <2>2
      <3>2. Symbol(l, next - 1) \notin {"END", "ERR"}
        BY <1>4, <3>1
      <3>3. next - 1 \in 0 .. len - 1
        BY <3>1, <3>2, SymbolsRead DEF len
      <3> QED
        BY <1>1, <1>6, <3>3
    <2> QED
      BY <2>1, <2>2
  <1>8. ASSUME NEW d \in c + 1 .. next - 1 PROVE Symbol(l, d) \in {"9", "/", "-"}
    <2>1. d \in c + 1 .. e - 1 \/ d \in e .. own - 1 \/ d \in own .. next - 1
      BY <1>1, <1>2, <1>5, <1>6
    <2> QED
      BY <1>2, <1>4, <1>5, <2>1
  <1>9. Symbol(l, next) \in Alphabet
    <2>1. next \in 0 .. len /\ next - 1 \in c + 1 .. next - 1
      BY <1>1, <1>6, <1>7
    <2>2. Symbol(l, next - 1) \in {"9", "/", "-"}
      BY <1>8, <2>1
    <2>3. Symbol(l, next) # "Q"
      BY <1>0, <2>1, <2>2, Spelled DEF Coils, len
    <2>4. Symbol(l, next) \notin {"9", "/"}
      <3>1. CASE next = own
        BY <1>5, <3>1
      <3>2. CASE next # own
        <4>1. next - 1 \in own .. next - 1
          BY <1>4, <1>5, <1>6, <3>2
        <4>2. Symbol(l, next - 1) = "-"
          BY <1>4, <4>1
        <4> QED
          BY <1>0, <2>1, <4>2, Spelled DEF Contacts, len
      <3> QED
        BY <3>1, <3>2
    <2> QED
      BY <1>0, <2>1, <2>3, <2>4, Spelled DEF len
  <1> QED
    BY <1>6, <1>7, <1>8, <1>9 DEF next, len

\* Where parse_ld_line reads on after any other symbol but a coil.
LEMMA SymbolPassed ==
    ASSUME buf \in [Line -> Seq(Cell)], WellDrawn, NEW l \in Line, NEW c \in 0 .. Len(buf[l]),
           Symbol(l, c) \in {"-", "!", "blank", "|", "+"}
    PROVE  c + 1 <= Len(buf[l]) /\ Symbol(l, c + 1) \in Alphabet
  <1>0. Known
    BY DEF WellDrawn
  <1>1. Len(buf[l]) \in Nat /\ c + 1 \in 0 .. Len(buf[l]) /\ (c + 1) - 1 = c
    BY SymbolsRead, Numbering
  <1>2. Symbol(l, c + 1) \notin {"9", "/", "Q"}
    BY <1>0, <1>1, Spelled DEF Contacts, Coils
  <1> QED
    BY <1>0, <1>1, <1>2, Spelled

-----------------------------------------------------------------------------
(* The flow of a line that is well drawn.                                  *)

LEMMA FlowState ==
    ASSUME buf \in [Line -> Seq(Cell)], NEW l \in Line, NEW c \in 0 .. Len(buf[l])
    PROVE  /\ Flow[c] \in [Line -> State] /\ Flow[c][l] \in State
           /\ Flow[0][l] = Unwired
           /\ c < Len(buf[l]) => Flow[c + 1][l] = Through(l, c, Flow[c])
  <1>1. Width \in Nat /\ Len(buf[l]) <= Width /\ Len(buf[l]) \in Nat
    BY Widest, Numbering
  <1>2. c \in 0 .. Width /\ (c < Len(buf[l]) => c + 1 \in 1 .. Width /\ (c + 1) - 1 = c)
    BY <1>1
  <1> QED
    BY <1>2, FlowConducts DEF Conducts

\* Wire, and what is written of an operand, lets pass what comes.
LEMMA FlowPasses ==
    ASSUME buf \in [Line -> Seq(Cell)], NEW l \in Line, NEW c \in 0 .. Len(buf[l]) - 1,
           Symbol(l, c) \in {"-", "!", "9", "/"}
    PROVE  Flow[c + 1][l] = Flow[c][l]
  <1>1. c \in 0 .. Len(buf[l]) /\ c < Len(buf[l])
    BY Numbering
  <1>2. Symbol(l, c) \notin Contacts \cup {"+", "blank", "|", "END", "ERR"}
    BY DEF Contacts
  <1>3. Through(l, c, Flow[c]) = Flow[c][l]
    BY <1>2 DEF Through
  <1> QED
    BY <1>1, <1>3, FlowState

LEMMA FlowStops ==
    ASSUME buf \in [Line -> Seq(Cell)], NEW l \in Line, NEW c \in 0 .. Len(buf[l]) - 1,
           Symbol(l, c) \in {"blank", "|"}
    PROVE  Flow[c + 1][l] = Unwired
  <1>1. c \in 0 .. Len(buf[l]) /\ c < Len(buf[l])
    BY Numbering
  <1>2. Symbol(l, c) \notin Contacts \cup {"+"}
    BY DEF Contacts
  <1>3. Through(l, c, Flow[c]) = Unwired
    BY <1>2 DEF Through
  <1> QED
    BY <1>1, <1>3, FlowState

\* A contact makes of what comes what is read after it.
LEMMA FlowContact ==
    ASSUME buf \in [Line -> Seq(Cell)], WellDrawn, NEW l \in Line, NEW c \in Nat,
           Symbol(l, c) \in Contacts
    PROVE  Flow[After(l, c)][l] =
              [wired |-> TRUE,
               on |-> {v \in (IF Flow[c][l].wired THEN Flow[c][l].on ELSE SUBSET Operands) :
                         (Operand(l, c) \in v) # (c > 0 /\ Symbol(l, c - 1) = "!")}]
  <1> DEFINE next == After(l, c)
             len == Len(buf[l])
             through == Through(l, c, Flow[c])
  <1>1. /\ next \in Nat /\ c + 5 <= next /\ next <= len /\ len \in Nat
        /\ \A d \in c + 1 .. next - 1 : Symbol(l, d) \in {"9", "/", "-"}
    BY ContactPassed, Numbering
  <1>2. c \in 0 .. len - 1 /\ c \in 0 .. len /\ c < len /\ c \in Cells(l, Contacts \cup {"Q"})
    BY <1>1 DEF Cells
  <1>3. Operand(l, c) = Written(l, c)
    BY <1>2 DEF WellDrawn, OwnBits
  <1>4. Symbol(l, c) \notin {"+", "blank", "|", "END", "ERR"}
    BY DEF Contacts
  <1>5. through = [wired |-> TRUE,
                   on |-> {v \in (IF Flow[c][l].wired THEN Flow[c][l].on ELSE SUBSET Operands) :
                             (Operand(l, c) \in v) # (c > 0 /\ Symbol(l, c - 1) = "!")}]
    BY <1>3, <1>4 DEF Through
  <1>6. Flow[c + 1][l] = through
    BY <1>2, FlowState
  <1> HIDE DEF next, len, through
  <1> DEFINE S == {n \in 0 .. next - c - 1 : Flow[c + 1 + n][l] = through}
  <1>7. 0 \in S
    <2>1. 0 \in 0 .. next - c - 1 /\ c + 1 + 0 = c + 1
      BY <1>1
    <2> QED
      BY <1>6, <2>1
  <1>8. ASSUME NEW n \in 1 .. next - c - 1, n - 1 \in S PROVE n \in S
    <2>1. c + n \in c + 1 .. next - 1 /\ c + n \in 0 .. len - 1 /\ n \in 0 .. next - c - 1
      BY <1>1
    <2>2. c + 1 + (n - 1) = c + n /\ (c + n) + 1 = c + 1 + n
      BY <1>1
    <2>3. Flow[(c + n) + 1][l] = Flow[c + n][l]
      BY <1>1, <2>1, FlowPasses DEF len
    <2>4. Flow[c + n][l] = through
      BY <1>8, <2>2
    <2> QED
      BY <2>1, <2>2, <2>3, <2>4
  <1>9. Flow[next][l] = through
    <2> HIDE DEF S
    <2>1. next - c - 1 \in Nat /\ next - c - 1 \in 0 .. next - c - 1 /\ c + 1 + (next - c - 1) = next
      BY <1>1
    <2>2. next - c - 1 \in S
      BY <1>7, <1>8, <2>1, Induction
    <2> QED
      BY <2>1, <2>2 DEF S
  <1> QED
    BY <1>5, <1>9 DEF next

-----------------------------------------------------------------------------
(* The parse of a ladder that is well drawn.                               *)

\* The tree of a state that reaches a column.
Shown(p) == IF p.wired THEN Expression(p.on, TRUE) ELSE Null

\* Line l is to be read on at column c, with what reaches c for its tree s, and
\* neither its coil nor its end has been passed.
Arriving(l, c, s) ==
    /\ c <= Len(buf[l]) /\ Symbol(l, c) \in Alphabet
    /\ s = Shown(Flow[c][l])
    /\ \A d \in Cells(l, Coils \cup {"END"}) : c <= d

\* Line l has been read to its end; its coil has what it was drawn for.
Arrived(l, c, s) ==
    /\ HasCoil(l) => s = Meant(l)
    /\ \A d \in Cells(l, Vertical) : d < c

Places(columns, status, trees) ==
    \A l \in Line : IF status[l] = "unresolved" THEN Arriving(l, columns[l], trees[l])
                                                ELSE Arrived(l, columns[l], trees[l])

\* Lines have passed their nodes column by column.
Front(columns, status) ==
    \A l, k \in Line : \A d \in Cells(l, {"+"}) :
        d < columns[l] /\ status[k] = "unresolved" => d < columns[k]

\* Of all lines only n may have been left behind a negation.
Negates(l, c) == c > 0 /\ Symbol(l, c - 1) = "!"
Negating(columns, status, n) ==
    \A l \in Line : status[l] = "unresolved" => (Negates(l, columns[l]) <=> l = n)

\* The lines before n that are to be read on are at a node.
AtNodes(columns, status, n) ==
    \A l \in Line : l < n /\ status[l] = "unresolved" => Symbol(l, columns[l]) = "+"

\* n is the topmost of the lines with the first node.
FirstNode(columns, status, n) ==
    /\ n \in Line /\ status[n] = "unresolved"
    /\ \A k \in Line : status[k] = "unresolved" =>
          columns[n] < columns[k] \/ (columns[n] = columns[k] /\ n <= k)

DrawnParse ==
    /\ cursor \in [Line -> Nat] /\ lstatus \in [Line -> {"unresolved", "resolved"}]
    /\ DOMAIN stmt = Line
    /\ step \in {"horizontal", "find", "vertical", "generate", "done"}
    /\ line \in Line /\ nMode \in BOOLEAN
    /\ step \in {"horizontal", "find"} => node \in Line
    /\ Places(cursor, lstatus, stmt)
    /\ Front(cursor, lstatus)
    /\ Negating(cursor, lstatus, IF step = "horizontal" /\ nMode THEN line ELSE -1)
    /\ AtNodes(cursor, lstatus, IF step = "horizontal" THEN line ELSE Length)
    /\ step = "vertical" => FirstNode(cursor, lstatus, node)
    /\ step \in {"generate", "done"} => \A l \in Line : lstatus[l] = "resolved"

DrawnInv ==
    /\ buf \in [Line -> Seq(Cell)]
    /\ WellDrawn => DrawnParse

LEMMA SamePlaces ==
    ASSUME buf \in [Line -> Seq(Cell)], buf' = buf
    PROVE  /\ \A columns, status, trees :
                 Places(columns, status, trees)' <=> Places(columns, status, trees)
           /\ \A columns, status : Front(columns, status)' <=> Front(columns, status)
           /\ \A columns, status, n :
                 /\ Negating(columns, status, n)' <=> Negating(columns, status, n)
                 /\ AtNodes(columns, status, n)' <=> AtNodes(columns, status, n)
  <1>1. /\ \A l, c : Symbol(l, c)' = Symbol(l, c)
        /\ \A l, S : Cells(l, S)' = Cells(l, S)
    BY SameSymbols, SameOperands
  <1>2. \A l, c, s : Arriving(l, c, s)' <=> Arriving(l, c, s)
    BY <1>1, SameFlow DEF Arriving
  <1>3. \A l, c, s : Arrived(l, c, s)' <=> Arrived(l, c, s)
    BY <1>1, SameDrawing DEF Arrived
  <1>4. \A columns, status, trees : Places(columns, status, trees)' <=> Places(columns, status, trees)
    BY <1>2, <1>3 DEF Places
  <1>5. \A columns, status : Front(columns, status)' <=> Front(columns, status)
    BY <1>1 DEF Front
  <1>6. \A columns, status, n :
            /\ Negating(columns, status, n)' <=> Negating(columns, status, n)
            /\ AtNodes(columns, status, n)' <=> AtNodes(columns, status, n)
    BY <1>1 DEF Negating, AtNodes, Negates
  <1> QED
    BY <1>4, <1>5, <1>6

LEMMA InitDrawn == Init => DrawnInv
  <1> SUFFICES ASSUME Init PROVE DrawnInv
    OBVIOUS
  <1>1. buf \in [Line -> Seq(Cell)]
    BY TextsRead
  <1>2. /\ cursor = [l \in Line |-> 0] /\ lstatus = [l \in Line |-> "unresolved"]
        /\ stmt = [l \in Line |-> Null]
        /\ step = "horizontal" /\ line = 0 /\ nMode = FALSE /\ node = 0
    BY DEF Init, Constructed
  <1>3. Length \in Nat \ {0} /\ Line \subseteq Nat /\ 0 \in Line /\ \A l \in Line : Len(buf[l]) \in Nat
    BY <1>1, Numbering
  <1>4. ASSUME WellDrawn, NEW l \in Line PROVE Arriving(l, 0, Null)
    <2>1. 0 \in 0 .. Len(buf[l]) /\ 0 <= Len(buf[l])
      BY <1>3
    <2>2. Symbol(l, 0) \in Alphabet
      BY <1>1, <1>4, <2>1, Spelled DEF WellDrawn
    <2>3. Null = Shown(Flow[0][l])
      <3>1. Flow[0][l] = Unwired
        BY <1>1, <2>1, FlowState
      <3>2. ~Unwired.wired
        BY DEF Unwired
      <3> QED
        BY <3>1, <3>2 DEF Shown
    <2>4. \A d \in Cells(l, Coils \cup {"END"}) : 0 <= d
      BY <1>3 DEF Cells
    <2> QED
      BY <2>1, <2>2, <2>3, <2>4 DEF Arriving
  <1>5. ASSUME WellDrawn PROVE DrawnParse
    <2>1. Places(cursor, lstatus, stmt)
      BY <1>2, <1>4, <1>5 DEF Places
    <2>2. Front(cursor, lstatus)
      BY <1>2, <1>3 DEF Front, Cells
    <2>3. Negating(cursor, lstatus, -1)
      BY <1>2, <1>3 DEF Negating, Negates
    <2>4. AtNodes(cursor, lstatus, 0)
      BY <1>3 DEF AtNodes
    <2> QED
      BY <1>2, <1>3, <2>1, <2>2, <2>3, <2>4 DEF DrawnParse
  <1> QED
    BY <1>1, <1>5 DEF DrawnInv

\* parse_ld_line goes on to column c of its line, with the tree s.
GoesOn(c, s) ==
    /\ cursor' = [cursor EXCEPT ![line] = c]
    /\ DOMAIN stmt' = Line /\ stmt'[line] = s /\ \A k \in Line : k # line => stmt'[k] = stmt[k]
    /\ UNCHANGED <<buf, lstatus, step, line, node>>

LEMMA ReadOn ==
    ASSUME DrawnInv, WellDrawn, Reading(line), NEW c \in Nat, NEW s, GoesOn(c, s),
           nMode' \in BOOLEAN,
           cursor[line] < c, Arriving(line, c, s),
           \A d \in cursor[line] .. c - 1 : Symbol(line, d) # "+",
           Negates(line, c) <=> nMode'
    PROVE  DrawnParse'
  <1>0. /\ buf \in [Line -> Seq(Cell)] /\ DrawnParse
        /\ step = "horizontal" /\ line \in Line /\ lstatus[line] = "unresolved"
        /\ Line \subseteq Nat /\ Length \in Nat
    BY Numbering DEF DrawnInv, DrawnParse, Reading
  <1>1. /\ cursor' \in [Line -> Nat] /\ lstatus' = lstatus /\ DOMAIN stmt' = Line
        /\ step' = step /\ line' = line /\ node' = node /\ buf' = buf
        /\ cursor'[line] = c /\ stmt'[line] = s
        /\ \A k \in Line : k # line => cursor'[k] = cursor[k] /\ stmt'[k] = stmt[k]
    BY <1>0 DEF GoesOn, DrawnParse
  <1>2. cursor \in [Line -> Nat]
    BY <1>0 DEF DrawnParse
  <1>3. Places(cursor', lstatus', stmt')
    BY <1>0, <1>1 DEF DrawnParse, Places
  <1>4. Front(cursor', lstatus')
    <2> SUFFICES ASSUME NEW l \in Line, NEW k \in Line, NEW d \in Cells(l, {"+"}),
                        d < cursor'[l], lstatus[k] = "unresolved"
                 PROVE  d < cursor'[k]
      BY <1>1 DEF Front
    <2>1. d \in Nat /\ Symbol(l, d) = "+"
      BY <1>0, Numbering DEF Cells
    <2>2. d < cursor[l]
      BY <1>0, <1>1, <1>2, <2>1
    <2>3. d < cursor[k]
      BY <1>0, <2>2 DEF DrawnParse, Front
    <2>4. cursor[k] \in Nat /\ cursor'[k] \in Nat /\ cursor[k] <= cursor'[k]
      <3>1. CASE k = line
        BY <1>0, <1>1, <1>2, <3>1
      <3>2. CASE k # line
        BY <1>1, <1>2, <3>2
      <3> QED
        BY <3>1, <3>2
    <2> QED
      BY <2>1, <2>3, <2>4
  <1>5. Negating(cursor', lstatus', IF step' = "horizontal" /\ nMode' THEN line' ELSE -1)
    <2>1. \A l \in Line : l # line /\ lstatus[l] = "unresolved" => ~Negates(l, cursor[l])
      <3>1. Negating(cursor, lstatus, IF nMode THEN line ELSE -1)
        BY <1>0 DEF DrawnParse
      <3>2. \A l \in Line : l # -1
        BY <1>0
      <3> QED
        BY <3>1, <3>2 DEF Negating
    <2>2. \A l \in Line : l # -1
      BY <1>0
    <2> QED
      BY <1>0, <1>1, <2>1, <2>2 DEF Negating
  <1>6. AtNodes(cursor', lstatus', line')
    <2>1. AtNodes(cursor, lstatus, line)
      BY <1>0 DEF DrawnParse
    <2>2. \A l \in Line : l < line => l # line
      BY <1>0
    <2> QED
      BY <1>1, <2>1, <2>2 DEF AtNodes
  <1>7. /\ Places(cursor, lstatus, stmt)' /\ Front(cursor, lstatus)'
        /\ Negating(cursor, lstatus, IF step = "horizontal" /\ nMode THEN line ELSE -1)'
        /\ AtNodes(cursor, lstatus, line)'
    BY <1>0, <1>1, <1>3, <1>4, <1>5, <1>6, SamePlaces
  <1> QED
    BY <1>0, <1>1, <1>7 DEF DrawnParse

\* parse_ld_line ends at column c of its line, with the tree s.
Ends(c, s) ==
    /\ cursor' = [cursor EXCEPT ![line] = c]
    /\ DOMAIN stmt' = Line /\ stmt'[line] = s /\ \A k \in Line : k # line => stmt'[k] = stmt[k]
    /\ lstatus' = [lstatus EXCEPT ![line] = "resolved"]
    /\ UNCHANGED <<buf, step, line, nMode, node>>

LEMMA ReadOut ==
    ASSUME DrawnInv, WellDrawn, Reading(line), NEW c \in Nat, NEW s, Ends(c, s),
           cursor[line] <= c, Arrived(line, c, s),
           \A d \in cursor[line] .. c - 1 : Symbol(line, d) # "+"
    PROVE  DrawnParse'
  <1>0. /\ buf \in [Line -> Seq(Cell)] /\ DrawnParse
        /\ step = "horizontal" /\ line \in Line /\ lstatus[line] = "unresolved"
        /\ Line \subseteq Nat /\ Length \in Nat
    BY Numbering DEF DrawnInv, DrawnParse, Reading
  <1>1. /\ cursor' \in [Line -> Nat] /\ lstatus' \in [Line -> {"unresolved", "resolved"}]
        /\ DOMAIN stmt' = Line
        /\ step' = step /\ line' = line /\ node' = node /\ buf' = buf /\ nMode' = nMode
        /\ cursor'[line] = c /\ stmt'[line] = s /\ lstatus'[line] = "resolved"
        /\ \A k \in Line : k # line =>
              cursor'[k] = cursor[k] /\ stmt'[k] = stmt[k] /\ lstatus'[k] = lstatus[k]
    BY <1>0 DEF Ends, DrawnParse
  <1>2. cursor \in [Line -> Nat] /\ nMode \in BOOLEAN
    BY <1>0 DEF DrawnParse
  <1>3. Places(cursor', lstatus', stmt')
    BY <1>0, <1>1 DEF DrawnParse, Places
  <1>4. Front(cursor', lstatus')
    <2> SUFFICES ASSUME NEW l \in Line, NEW k \in Line, NEW d \in Cells(l, {"+"}),
                        d < cursor'[l], lstatus'[k] = "unresolved"
                 PROVE  d < cursor'[k]
      BY DEF Front
    <2>1. d \in Nat /\ Symbol(l, d) = "+"
      BY <1>0, Numbering DEF Cells
    <2>2. d < cursor[l]
      BY <1>0, <1>1, <1>2, <2>1
    <2>3. k # line /\ lstatus[k] = "unresolved" /\ cursor'[k] = cursor[k]
      BY <1>1
    <2> QED
      BY <1>0, <2>2, <2>3 DEF DrawnParse, Front
  <1>5. Negating(cursor', lstatus', IF nMode' THEN line' ELSE -1)
    <2>1. Negating(cursor, lstatus, IF nMode THEN line ELSE -1)
      BY <1>0 DEF DrawnParse
    <2> QED
      BY <1>1, <2>1 DEF Negating
  <1>6. AtNodes(cursor', lstatus', line')
    <2>1. AtNodes(cursor, lstatus, line)
      BY <1>0 DEF DrawnParse
    <2>2. \A l \in Line : l < line => l # line
      BY <1>0
    <2> QED
      BY <1>1, <2>1, <2>2 DEF AtNodes
  <1>7. /\ Places(cursor, lstatus, stmt)' /\ Front(cursor, lstatus)'
        /\ Negating(cursor, lstatus, IF step = "horizontal" /\ nMode THEN line ELSE -1)'
        /\ AtNodes(cursor, lstatus, line)'
    BY <1>0, <1>1, <1>3, <1>4, <1>5, <1>6, SamePlaces
  <1> QED
    BY <1>0, <1>1, <1>2, <1>7 DEF DrawnParse

\* The line that is being read.
LEMMA ReadHere ==
    ASSUME DrawnInv, WellDrawn, NEW l \in Line, Reading(l)
    PROVE  /\ buf \in [Line -> Seq(Cell)] /\ DrawnParse /\ Known
           /\ l = line /\ step = "horizontal" /\ DOMAIN stmt = Line
           /\ cursor \in [Line -> Nat] /\ cursor[l] \in 0 .. Len(buf[l]) /\ Len(buf[l]) \in Nat
           /\ Here(l) = Symbol(l, cursor[l]) /\ Here(l) \in Alphabet
           /\ stmt[l] = Shown(Flow[cursor[l]][l])
           /\ \A d \in Cells(l, Coils \cup {"END"}) : cursor[l] <= d
           /\ nMode \in BOOLEAN /\ (nMode <=> Negates(l, cursor[l]))
           /\ nMode => Here(l) \in Contacts
  <1>1. /\ buf \in [Line -> Seq(Cell)] /\ DrawnParse /\ Known
        /\ l = line /\ step = "horizontal" /\ lstatus[l] = "unresolved"
    BY DEF DrawnInv, WellDrawn, Reading
  <1>2. DOMAIN stmt = Line /\ cursor \in [Line -> Nat] /\ cursor[l] \in Nat /\ nMode \in BOOLEAN
    BY <1>1 DEF DrawnParse
  <1>3. Arriving(l, cursor[l], stmt[l])
    BY <1>1 DEF DrawnParse, Places
  <1>4. cursor[l] \in 0 .. Len(buf[l]) /\ Len(buf[l]) \in Nat
    BY <1>1, <1>2, <1>3, Numbering DEF Arriving
  <1>5. nMode <=> Negates(l, cursor[l])
    <2>1. Negating(cursor, lstatus, IF nMode THEN l ELSE -1)
      BY <1>1 DEF DrawnParse
    <2>2. l # -1
      BY <1>1, Numbering
    <2>3. Negates(l, cursor[l]) <=> l = (IF nMode THEN l ELSE -1)
      BY <1>1, <2>1 DEF Negating
    <2> QED
      BY <1>2, <2>2, <2>3
  <1>6. nMode => Symbol(l, cursor[l]) \in Contacts
    <2> SUFFICES ASSUME nMode PROVE Symbol(l, cursor[l]) \in Contacts
      OBVIOUS
    <2>1. cursor[l] > 0 /\ Symbol(l, cursor[l] - 1) = "!"
      BY <1>5 DEF Negates
    <2>2. cursor[l] - 1 \in 0 .. Len(buf[l]) /\ (cursor[l] - 1) + 1 = cursor[l]
      BY <1>4, <2>1
    <2> QED
      BY <1>1, <2>1, <2>2, Spelled
  <1> QED
    BY <1>1, <1>2, <1>3, <1>4, <1>5, <1>6 DEF Here, Arriving

\* What is passed over has no coil and is not the end.
LEMMA StillBefore ==
    ASSUME DrawnInv, WellDrawn, NEW l \in Line, Reading(l), NEW c \in Nat,
           \A d \in cursor[l] .. c - 1 : Symbol(l, d) \notin Coils \cup {"END"}
    PROVE  \A d \in Cells(l, Coils \cup {"END"}) : c <= d
  <1> TAKE d \in Cells(l, Coils \cup {"END"})
  <1>1. d \in Nat /\ Symbol(l, d) \in Coils \cup {"END"} /\ cursor[l] <= d /\ cursor[l] \in Nat
    BY ReadHere DEF Cells
  <1> QED
    BY <1>1

LEMMA WireDrawn ==
    ASSUME DrawnInv, WellDrawn, NEW l \in Line, Wire(l)
    PROVE  DrawnParse'
  <1> DEFINE c == cursor[l]
  <1>0. Reading(l)
    BY DEF Wire
  <1>1. /\ buf \in [Line -> Seq(Cell)] /\ l = line /\ DOMAIN stmt = Line
        /\ c \in 0 .. Len(buf[l]) /\ Len(buf[l]) \in Nat
        /\ Here(l) = Symbol(l, c) /\ stmt[l] = Shown(Flow[c][l])
        /\ nMode \in BOOLEAN /\ (nMode => Here(l) \in Contacts)
    BY <1>0, ReadHere
  <1>2. Symbol(l, c) \in {"-", "!"} /\ ~nMode
    BY <1>1 DEF Wire, Contacts
  <1>3. c + 1 <= Len(buf[l]) /\ Symbol(l, c + 1) \in Alphabet
    BY <1>1, <1>2, SymbolPassed
  <1>4. Flow[c + 1][l] = Flow[c][l]
    BY <1>1, <1>2, <1>3, FlowPasses
  <1>5. c + 1 \in Nat /\ c < c + 1 /\ c + 1 > 0 /\ (c + 1) - 1 = c
    <2>1. c \in Nat
      BY <1>0, ReadHere
    <2> QED
      BY <2>1
  <1>6. \A d \in c .. (c + 1) - 1 : d = c
    BY <1>1
  <1>7. \A d \in Cells(l, Coils \cup {"END"}) : c + 1 <= d
    BY <1>0, <1>2, <1>5, <1>6, StillBefore DEF Coils
  <1>8. Arriving(line, c + 1, stmt[l])
    BY <1>1, <1>3, <1>4, <1>7 DEF Arriving
  <1>9. nMode' <=> Negates(line, c + 1)
    BY <1>1, <1>2, <1>5 DEF Wire, Negates
  <1>10. GoesOn(c + 1, stmt[l]) /\ nMode' \in BOOLEAN
    BY <1>1 DEF Wire, GoesOn
  <1>11. \A d \in cursor[line] .. (c + 1) - 1 : Symbol(line, d) # "+"
    BY <1>1, <1>2, <1>6
  <1> QED
    BY <1>0, <1>1, <1>5, <1>8, <1>9, <1>10, <1>11, ReadOn

LEMMA GapDrawn ==
    ASSUME DrawnInv, WellDrawn, NEW l \in Line, Gap(l)
    PROVE  DrawnParse'
  <1> DEFINE c == cursor[l]
  <1>0. Reading(l)
    BY DEF Gap
  <1>1. /\ buf \in [Line -> Seq(Cell)] /\ l = line /\ DOMAIN stmt = Line
        /\ c \in 0 .. Len(buf[l]) /\ Len(buf[l]) \in Nat
        /\ Here(l) = Symbol(l, c)
        /\ nMode \in BOOLEAN /\ (nMode => Here(l) \in Contacts)
    BY <1>0, ReadHere
  <1>2. Symbol(l, c) \in {"blank", "|"} /\ ~nMode
    BY <1>1 DEF Gap, Contacts
  <1>3. c + 1 <= Len(buf[l]) /\ Symbol(l, c + 1) \in Alphabet
    BY <1>1, <1>2, SymbolPassed
  <1>4. Null = Shown(Flow[c + 1][l])
    <2>1. Flow[c + 1][l] = Unwired
      BY <1>1, <1>2, <1>3, FlowStops
    <2>2. ~Unwired.wired
      BY DEF Unwired
    <2> QED
      BY <2>1, <2>2 DEF Shown
  <1>5. c + 1 \in Nat /\ c < c + 1 /\ c + 1 > 0 /\ (c + 1) - 1 = c
    BY <1>1
  <1>6. \A d \in c .. (c + 1) - 1 : d = c
    BY <1>1
  <1>7. \A d \in Cells(l, Coils \cup {"END"}) : c + 1 <= d
    BY <1>0, <1>2, <1>5, <1>6, StillBefore DEF Coils
  <1>8. Arriving(line, c + 1, Null)
    BY <1>1, <1>3, <1>4, <1>7 DEF Arriving
  <1>9. nMode' <=> Negates(line, c + 1)
    BY <1>1, <1>2, <1>5 DEF Gap, Negates
  <1>10. GoesOn(c + 1, Null) /\ nMode' \in BOOLEAN
    BY <1>1 DEF Gap, GoesOn
  <1>11. \A d \in cursor[line] .. (c + 1) - 1 : Symbol(line, d) # "+"
    BY <1>1, <1>2, <1>6
  <1> QED
    BY <1>0, <1>1, <1>5, <1>8, <1>9, <1>10, <1>11, ReadOn

LEMMA ShownIsNotFreed == \A p : Shown(p) # Freed /\ (p.wired <=> Shown(p) # Null)
  <1> TAKE p
  <1>1. Null.tag = "NULL" /\ Freed.tag = "FREED" /\ Expression(p.on, TRUE).tag = "EXPRESSION"
    BY DEF Null, Freed, Expression
  <1> QED
    BY <1>1 DEF Shown

LEMMA ContactDrawn ==
    ASSUME DrawnInv, WellDrawn, NEW l \in Line, Contact(l)
    PROVE  DrawnParse'
  <1> DEFINE c == cursor[l]
             next == After(l, c)
             p == Flow[c][l]
             x == Operand(l, c)
             on == {v \in (IF p.wired THEN p.on ELSE SUBSET Operands) : (x \in v) # nMode}
             s == Expression(on, TRUE)
  <1>0. Reading(l)
    BY DEF Contact
  <1>1. /\ buf \in [Line -> Seq(Cell)] /\ l = line /\ DOMAIN stmt = Line
        /\ c \in 0 .. Len(buf[l]) /\ c \in Nat
        /\ Here(l) = Symbol(l, c) /\ stmt[l] = Shown(p) /\ Symbol(l, c) \in Contacts
        /\ nMode \in BOOLEAN /\ (nMode <=> Negates(l, c))
    BY <1>0, ReadHere DEF Contact
  <1>2. /\ next \in Nat /\ c + 5 <= next /\ next <= Len(buf[l])
        /\ \A d \in c + 1 .. next - 1 : Symbol(l, d) \in {"9", "/", "-"}
        /\ Symbol(l, next) \in Alphabet
    BY <1>1, ContactPassed
  <1>3. Flow[next][l] = [wired |-> TRUE, on |-> on]
    <2>1. Flow[next][l] =
              [wired |-> TRUE,
               on |-> {v \in (IF p.wired THEN p.on ELSE SUBSET Operands) :
                         (x \in v) # (c > 0 /\ Symbol(l, c - 1) = "!")}]
      BY <1>1, FlowContact
    <2>2. nMode = (c > 0 /\ Symbol(l, c - 1) = "!")
      BY <1>1 DEF Negates
    <2> QED
      BY <2>1, <2>2
  <1>4. s = Shown(Flow[next][l])
    BY <1>3 DEF Shown
  <1> HIDE DEF next
  <1>5. c + 1 \in Nat /\ c < next /\ next > 0 /\ next - 1 \in c + 1 .. next - 1
    BY <1>1, <1>2
  <1>6. \A d \in c .. next - 1 : d = c \/ d \in c + 1 .. next - 1
    BY <1>1, <1>2
  <1>7. \A d \in c .. next - 1 : Symbol(l, d) \notin Coils \cup {"END", "+"}
    BY <1>1, <1>2, <1>6 DEF Coils, Contacts
  <1>8. \A d \in Cells(l, Coils \cup {"END"}) : next <= d
    BY <1>0, <1>2, <1>7, StillBefore
  <1>9. Arriving(line, next, s)
    BY <1>1, <1>2, <1>4, <1>8 DEF Arriving
  <1>10. ~nMode' /\ nMode' \in BOOLEAN /\ ~Negates(line, next)
    BY <1>1, <1>2, <1>5 DEF Contact, Negates
  <1>11. stmt'[l] = s
    <2> DEFINE before == IF stmt[l] = Null THEN SUBSET Operands ELSE stmt[l].on
               sound == stmt[l] = Null \/ stmt[l].sound
    <2>1. stmt[l] # Freed /\ (p.wired <=> stmt[l] # Null)
      BY <1>1, ShownIsNotFreed
    <2>2. before = IF p.wired THEN p.on ELSE SUBSET Operands
      BY <1>1, <2>1 DEF Shown, Expression
    <2>3. sound = TRUE
      BY <1>1, <2>1 DEF Shown, Expression
    <2>4. stmt'[l] = Expression({v \in before : (x \in v) # nMode}, sound)
      BY <1>1, <2>1 DEF Contact
    <2> HIDE DEF before, sound
    <2> QED
      BY <2>2, <2>3, <2>4
  <1>12. DOMAIN stmt' = Line /\ \A k \in Line : k # line => stmt'[k] = stmt[k]
    BY <1>1 DEF Contact
  <1>13. cursor' = [cursor EXCEPT ![line] = next]
    BY <1>1 DEF Contact, After, next
  <1> HIDE DEF s
  <1>14. GoesOn(next, s)
    BY <1>1, <1>11, <1>12, <1>13 DEF Contact, GoesOn
  <1>15. \A d \in cursor[line] .. next - 1 : Symbol(line, d) # "+"
    BY <1>1, <1>7
  <1> QED
    BY <1>0, <1>1, <1>2, <1>5, <1>9, <1>10, <1>14, <1>15, ReadOn

LEMMA EndDrawn ==
    ASSUME DrawnInv, WellDrawn, NEW l \in Line, EndOfLine(l)
    PROVE  DrawnParse'
  <1> DEFINE c == cursor[l]
  <1>0. Reading(l)
    BY DEF EndOfLine
  <1>1. /\ buf \in [Line -> Seq(Cell)] /\ l = line /\ DOMAIN stmt = Line
        /\ cursor \in [Line -> Nat] /\ c \in 0 .. Len(buf[l]) /\ Len(buf[l]) \in Nat
        /\ Symbol(l, c) = "END"
        /\ \A d \in Cells(l, Coils \cup {"END"}) : c <= d
    BY <1>0, ReadHere DEF EndOfLine
  <1>2. \A d \in Cells(l, Vertical \cup Coils) : d < c
    <2> TAKE d \in Cells(l, Vertical \cup Coils)
    <2>1. d \in 0 .. Len(buf[l]) - 1 /\ Symbol(l, d) # "END"
      BY DEF Cells, Vertical, Coils
    <2>2. CASE c = Len(buf[l])
      BY <1>1, <2>1, <2>2
    <2>3. CASE c # Len(buf[l])
      <3>1. c \in Cells(l, Coils \cup {"END"})
        BY <1>1, <2>3 DEF Cells
      <3>2. d <= c
        BY <3>1 DEF WellDrawn, NothingAfterCoils
      <3> QED
        BY <1>1, <2>1, <3>2
    <2> QED
      BY <2>2, <2>3
  <1>3. ~HasCoil(l)
    <2> SUFFICES ASSUME NEW d \in CoilColumns(l) PROVE FALSE
      BY DEF HasCoil
    <2>1. d \in Cells(l, Vertical \cup Coils) /\ d \in Cells(l, Coils \cup {"END"}) /\ d \in Nat
      BY <1>1 DEF CoilColumns, Cells
    <2>2. d < c /\ c <= d
      BY <1>1, <1>2, <2>1
    <2> QED
      BY <1>1, <2>1, <2>2
  <1>4. Arrived(line, c, Null)
    <2>1. Cells(l, Vertical) \subseteq Cells(l, Vertical \cup Coils)
      BY DEF Cells
    <2> QED
      BY <1>1, <1>2, <1>3, <2>1 DEF Arrived
  <1>5. cursor' = [cursor EXCEPT ![line] = c]
    BY <1>1 DEF EndOfLine
  <1>6. Ends(c, Null)
    BY <1>1, <1>5 DEF EndOfLine, Ends
  <1>7. c \in Nat /\ c <= c /\ \A d \in c .. c - 1 : Symbol(l, d) # "+"
    <2>1. c \in Nat
      BY <1>1
    <2> QED
      BY <2>1
  <1> QED
    BY <1>0, <1>1, <1>4, <1>6, <1>7, ReadOut

LEMMA CoilDrawn ==
    ASSUME DrawnInv, WellDrawn, NEW l \in Line, Coil(l)
    PROVE  DrawnParse'
  <1> DEFINE c == cursor[l]
             s == Assignment(Here(l), Operand(l, c + 1), stmt[l])
  <1>0. Reading(l)
    BY DEF Coil
  <1>1. /\ buf \in [Line -> Seq(Cell)] /\ l = line /\ DOMAIN stmt = Line
        /\ cursor \in [Line -> Nat] /\ c \in 0 .. Len(buf[l]) /\ Len(buf[l]) \in Nat
        /\ Here(l) = Symbol(l, c) /\ Symbol(l, c) \in Coils /\ Symbol(l, c + 1) = "Q"
        /\ stmt[l] = Shown(Flow[c][l])
        /\ \A d \in Cells(l, Coils \cup {"END"}) : c <= d
    BY <1>0, ReadHere DEF Coil
  <1>2. c \in Nat /\ c + 1 \in Nat /\ c \in 0 .. Len(buf[l]) - 1 /\ c + 1 \in 0 .. Len(buf[l]) - 1
    <2>1. c \in Nat /\ c + 1 \in Nat
      BY <1>1
    <2>2. Symbol(l, c) \notin {"END", "ERR"} /\ Symbol(l, c + 1) \notin {"END", "ERR"}
      BY <1>1 DEF Coils
    <2> QED
      BY <1>1, <2>1, <2>2, SymbolsRead
  <1>3. \A d \in Cells(l, Vertical \cup Coils) : d <= c /\ d \in Nat
    <2>1. c \in Cells(l, Coils \cup {"END"})
      BY <1>1, <1>2 DEF Cells
    <2> QED
      BY <1>1, <2>1 DEF WellDrawn, NothingAfterCoils, Cells
  <1>4. \A d \in Cells(l, Vertical) : d < c + 2
    <2>1. Cells(l, Vertical) \subseteq Cells(l, Vertical \cup Coils)
      BY DEF Cells
    <2>2. \A d \in Nat : d <= c => d < c + 2
      BY <1>2
    <2> QED
      BY <1>3, <2>1, <2>2
  <1>5. CoilColumns(l) = {c}
    <2>1. c \in CoilColumns(l)
      BY <1>1, <1>2 DEF CoilColumns
    <2>2. ASSUME NEW d \in CoilColumns(l) PROVE d = c
      <3>1. d \in Cells(l, Vertical \cup Coils) /\ d \in Cells(l, Coils \cup {"END"})
        BY DEF CoilColumns, Cells
      <3>2. d \in Nat /\ d <= c /\ c <= d
        BY <1>1, <1>3, <3>1
      <3> QED
        BY <1>2, <3>2
    <2> QED
      BY <2>1, <2>2
  <1>6. CoilColumn(l) = c
    BY <1>5 DEF CoilColumn
  <1>7. Operand(l, c + 1) = Written(l, c + 1)
    <2>1. c + 1 \in Cells(l, Contacts \cup {"Q"})
      BY <1>1, <1>2 DEF Cells
    <2> QED
      BY <2>1 DEF WellDrawn, OwnBits
  <1>8. s = Meant(l)
    BY <1>1, <1>6, <1>7 DEF Meant, Shown
  <1>9. Arrived(line, c + 2, s)
    BY <1>1, <1>4, <1>8 DEF Arrived
  <1>10. stmt[l] # Freed
    BY <1>1, ShownIsNotFreed
  <1>11. stmt'[l] = s /\ DOMAIN stmt' = Line /\ \A k \in Line : k # line => stmt'[k] = stmt[k]
    BY <1>1, <1>10 DEF Coil
  <1>12. cursor' = [cursor EXCEPT ![line] = c + 2]
    BY <1>1 DEF Coil
  <1> HIDE DEF s
  <1>13. Ends(c + 2, s)
    BY <1>1, <1>11, <1>12 DEF Coil, Ends
  <1>14. c + 2 \in Nat /\ c <= c + 2 /\ \A d \in c .. (c + 2) - 1 : d = c \/ d = c + 1
    BY <1>2
  <1>15. \A d \in c .. (c + 2) - 1 : Symbol(l, d) # "+"
    BY <1>1, <1>14 DEF Coils
  <1> QED
    BY <1>0, <1>1, <1>9, <1>13, <1>14, <1>15, ReadOut

\* The numbers of a well drawn ladder are those of operands.
LEMMA NumbersAccepted ==
    ASSUME buf \in [Line -> Seq(Cell)], WellDrawn, NEW l \in Line,
           NEW c \in Cells(l, Contacts \cup {"Q"})
    PROVE  ~BadIndex(l, c)
  <1>1. buf[l][c + 1].byte \in 0 .. 254
    BY DEF WellDrawn, NumbersExist
  <1>2. Byte(l, c) # 255
    <2> DEFINE b == buf[l][c + 1].byte
    <2>1. Byte(l, c) = b % 256 /\ b \in 0 .. 254
      BY <1>1 DEF Byte
    <2> HIDE DEF b
    <2>2. b % 256 = b
      BY <2>1
    <2> QED
      BY <2>1, <2>2
  <1>3. ASSUME Slashes(l, c) # {} PROVE BitAfter(l, c) \in 0 .. 7
    <2>1. c \in Nat /\ Len(buf[l]) \in Nat
      BY Numbering DEF Cells
    <2>2. Slashes(l, c) \subseteq Nat /\ Slashes(l, c) \subseteq Cells(l, {"/"})
      BY <2>1 DEF Slashes, Cells
    <2>3. PICK d \in Slashes(l, c) : \A n \in Slashes(l, c) : d <= n
      BY <1>3, <2>2, LeastNatural
    <2> DEFINE next == CHOOSE d_1 \in Slashes(l, c) : \A n \in Slashes(l, c) : d_1 <= n
    <2>4. next \in Slashes(l, c)
      BY <2>3
    <2>5. BitAfter(l, c) = buf[l][next + 1].bit
      BY <1>3 DEF BitAfter
    <2> HIDE DEF next
    <2> QED
      BY <2>2, <2>4, <2>5 DEF WellDrawn, NumbersExist
  <1> QED
    BY <1>2, <1>3 DEF BadIndex

LEMMA NoBadArguments ==
    ASSUME DrawnInv, WellDrawn, NEW l \in Line, BadContact(l) \/ BadCoil(l)
    PROVE  FALSE
  <1>0. Reading(l)
    BY DEF BadContact, BadCoil
  <1>1. /\ buf \in [Line -> Seq(Cell)] /\ cursor[l] \in 0 .. Len(buf[l]) /\ Len(buf[l]) \in Nat
        /\ Here(l) = Symbol(l, cursor[l])
    BY <1>0, ReadHere
  <1>2. CASE BadContact(l)
    <2>1. Symbol(l, cursor[l]) \in Contacts /\ BadIndex(l, cursor[l])
      BY <1>1, <1>2 DEF BadContact
    <2>2. Symbol(l, cursor[l]) \notin {"END", "ERR"}
      BY <2>1 DEF Contacts
    <2>3. cursor[l] \in Cells(l, Contacts \cup {"Q"})
      BY <1>1, <2>1, <2>2, SymbolsRead DEF Cells
    <2> QED
      BY <1>1, <2>1, <2>3, NumbersAccepted
  <1>3. CASE BadCoil(l)
    <2>1. Symbol(l, cursor[l] + 1) = "Q" /\ BadIndex(l, cursor[l] + 1)
      BY <1>3 DEF BadCoil
    <2>2. cursor[l] + 1 \in Nat /\ Symbol(l, cursor[l] + 1) \notin {"END", "ERR"}
      BY <1>1, <2>1
    <2>3. cursor[l] + 1 \in 0 .. Len(buf[l]) - 1
      BY <1>1, <2>2, SymbolsRead
    <2>4. cursor[l] + 1 \in Cells(l, Contacts \cup {"Q"})
      BY <2>1, <2>3 DEF Cells
    <2> QED
      BY <1>1, <2>1, <2>4, NumbersAccepted
  <1> QED
    BY <1>2, <1>3

LEMMA NoBadSymbol ==
    ASSUME DrawnInv, WellDrawn, NEW l \in Line, BadSymbol(l)
    PROVE  FALSE
  <1>0. Reading(l)
    BY DEF BadSymbol
  <1>1. /\ buf \in [Line -> Seq(Cell)] /\ Known /\ cursor[l] \in 0 .. Len(buf[l])
        /\ Here(l) = Symbol(l, cursor[l]) /\ Here(l) \in Alphabet
    BY <1>0, ReadHere
  <1>2. Here(l) \in Coils => Symbol(l, cursor[l] + 1) = "Q"
    BY <1>1, Spelled
  <1> QED
    BY <1>1, <1>2 DEF BadSymbol, Valid, Alphabet

LEMMA LineDoneDrawn ==
    ASSUME DrawnInv, WellDrawn, LineDone
    PROVE  DrawnParse'
  <1>0. /\ buf \in [Line -> Seq(Cell)] /\ DrawnParse /\ buf' = buf
        /\ step = "horizontal" /\ line \in Line /\ Line \subseteq Nat /\ Length \in Nat \ {0}
        /\ cursor \in [Line -> Nat]
        /\ \A l \in Nat : l < Length <=> l \in Line
    BY Numbering DEF DrawnInv, DrawnParse, LineDone
  <1>1. cursor' = cursor /\ lstatus' = lstatus /\ stmt' = stmt /\ node' = node /\ nMode' = FALSE
    BY DEF LineDone, lines
  <1>2. lstatus[line] = "unresolved" => Symbol(line, cursor[line]) = "+"
    BY DEF LineDone, Here
  <1>3. Negating(cursor, lstatus, -1)
    <2> SUFFICES ASSUME NEW l \in Line, lstatus[l] = "unresolved", Negates(l, cursor[l])
                 PROVE  FALSE
      <3>1. \A l \in Line : l # -1
        BY <1>0
      <3> QED
        BY <3>1 DEF Negating
    <2>1. Negating(cursor, lstatus, IF nMode THEN line ELSE -1)
      BY <1>0 DEF DrawnParse
    <2>2. l = line
      <3>1. l # -1
        BY <1>0
      <3> QED
        BY <2>1, <3>1 DEF Negating
    <2>3. Reading(l)
      BY <1>0, <2>2 DEF Reading
    <2>4. nMode /\ Here(l) = "+"
      BY <1>2, <2>2, <2>3, ReadHere DEF Here
    <2> QED
      BY <2>3, <2>4, ReadHere DEF Contacts
  <1>4. Places(cursor, lstatus, stmt) /\ Front(cursor, lstatus) /\ AtNodes(cursor, lstatus, line)
    BY <1>0 DEF DrawnParse
  <1>5. AtNodes(cursor, lstatus, line + 1)
    <2>1. \A l \in Line : l < line + 1 => l < line \/ l = line
      BY <1>0
    <2> QED
      BY <1>2, <1>4, <2>1 DEF AtNodes
  <1>6. CASE line + 1 < Length
    <2>1. line' = line + 1 /\ step' = "horizontal" /\ line + 1 \in Line
      BY <1>0, <1>6 DEF LineDone
    <2>2. /\ Places(cursor, lstatus, stmt)' /\ Front(cursor, lstatus)'
          /\ Negating(cursor, lstatus, -1)' /\ AtNodes(cursor, lstatus, line)'
      BY <1>0, <1>1, <1>3, <1>4, <1>5, <2>1, SamePlaces
    <2> QED
      BY <1>0, <1>1, <2>1, <2>2 DEF DrawnParse
  <1>7. CASE ~(line + 1 < Length)
    <2>1. line' = line /\ step' = "find" /\ line + 1 = Length
      BY <1>0, <1>7 DEF LineDone
    <2>2. /\ Places(cursor, lstatus, stmt)' /\ Front(cursor, lstatus)'
          /\ Negating(cursor, lstatus, -1)' /\ AtNodes(cursor, lstatus, Length)'
      BY <1>0, <1>1, <1>3, <1>4, <1>5, <2>1, SamePlaces
    <2> QED
      BY <1>0, <1>1, <2>1, <2>2 DEF DrawnParse
  <1> QED
    BY <1>6, <1>7

\* Lines whose parse goes on with other steps than those of horizontal_parse.
LEMMA Resting ==
    ASSUME DrawnInv, WellDrawn, step # "horizontal"
    PROVE  /\ buf \in [Line -> Seq(Cell)] /\ DrawnParse /\ Known
           /\ Line \subseteq Nat /\ Length \in Nat \ {0} /\ 0 \in Line
           /\ cursor \in [Line -> Nat] /\ lstatus \in [Line -> {"unresolved", "resolved"}]
           /\ DOMAIN stmt = Line /\ line \in Line /\ nMode \in BOOLEAN
           /\ Places(cursor, lstatus, stmt) /\ Front(cursor, lstatus)
           /\ Negating(cursor, lstatus, -1) /\ AtNodes(cursor, lstatus, Length)
           /\ \A l \in Line : lstatus[l] = "unresolved" =>
                 Symbol(l, cursor[l]) = "+" /\ cursor[l] \in 0 .. Len(buf[l]) - 1
  <1>1. /\ buf \in [Line -> Seq(Cell)] /\ DrawnParse /\ Known
        /\ Line \subseteq Nat /\ Length \in Nat \ {0} /\ 0 \in Line
        /\ \A l \in Line : l < Length
    BY Numbering DEF DrawnInv, WellDrawn
  <1>2. /\ cursor \in [Line -> Nat] /\ lstatus \in [Line -> {"unresolved", "resolved"}]
        /\ DOMAIN stmt = Line /\ line \in Line /\ nMode \in BOOLEAN
        /\ Places(cursor, lstatus, stmt) /\ Front(cursor, lstatus)
        /\ Negating(cursor, lstatus, -1) /\ AtNodes(cursor, lstatus, Length)
    BY <1>1 DEF DrawnParse
  <1>3. ASSUME NEW l \in Line, lstatus[l] = "unresolved"
        PROVE  Symbol(l, cursor[l]) = "+" /\ cursor[l] \in 0 .. Len(buf[l]) - 1
    <2>1. Symbol(l, cursor[l]) = "+"
      BY <1>1, <1>2, <1>3 DEF AtNodes
    <2>2. cursor[l] \in Nat
      BY <1>2
    <2> QED
      BY <1>1, <2>1, <2>2, SymbolsRead
  <1> QED
    BY <1>1, <1>2, <1>3

\* minmin finds one.
LEMMA FirstFound ==
    ASSUME cursor \in [Line -> Nat], NEW S \in SUBSET Line, S # {}
    PROVE  \E l \in S : \A k \in S : cursor[l] < cursor[k] \/ (cursor[l] = cursor[k] /\ l <= k)
  <1>0. Line \subseteq Nat
    BY LengthAssumption DEF Line
  <1> DEFINE columns == {cursor[l] : l \in S}
  <1>1. columns \in SUBSET Nat /\ columns # {}
    OBVIOUS
  <1> HIDE DEF columns
  <1>2. PICK c \in columns : \A d \in columns : c <= d
    BY <1>1, LeastNatural
  <1> DEFINE first == {l \in S : cursor[l] = c}
  <1>3. first \in SUBSET Nat /\ first # {}
    BY <1>0 DEF columns
  <1> HIDE DEF first
  <1>4. PICK l \in first : \A k \in first : l <= k
    BY <1>3, LeastNatural
  <1>5. l \in S /\ cursor[l] = c
    BY DEF first
  <1>6. ASSUME NEW k \in S PROVE cursor[l] < cursor[k] \/ (cursor[l] = cursor[k] /\ l <= k)
    <2>1. cursor[l] <= cursor[k] /\ cursor[l] \in Nat /\ cursor[k] \in Nat
      BY <1>2, <1>5 DEF columns
    <2>2. cursor[k] = c => l <= k
      BY <1>4 DEF first
    <2> QED
      BY <1>5, <2>1, <2>2
  <1> QED
    BY <1>5, <1>6

LEMMA FindDrawn ==
    ASSUME DrawnInv, WellDrawn, FindNextNode
    PROVE  DrawnParse'
  <1>0. step = "find" /\ buf' = buf /\ line' = line /\ nMode' = nMode
        /\ cursor' = cursor /\ lstatus' = lstatus /\ stmt' = stmt
        /\ step' \in {"vertical", "generate"}
    BY DEF FindNextNode, lines
  <1>1. /\ buf \in [Line -> Seq(Cell)] /\ DrawnParse
        /\ Line \subseteq Nat /\ Length \in Nat \ {0}
        /\ cursor \in [Line -> Nat] /\ lstatus \in [Line -> {"unresolved", "resolved"}]
        /\ DOMAIN stmt = Line /\ line \in Line /\ nMode \in BOOLEAN
        /\ Places(cursor, lstatus, stmt) /\ Front(cursor, lstatus)
        /\ Negating(cursor, lstatus, -1) /\ AtNodes(cursor, lstatus, Length)
        /\ \A l \in Line : lstatus[l] = "unresolved" =>
              Symbol(l, cursor[l]) = "+" /\ cursor[l] \in 0 .. Len(buf[l]) - 1
    BY <1>0, Resting
  <1>2. /\ Places(cursor, lstatus, stmt)' /\ Front(cursor, lstatus)'
        /\ Negating(cursor, lstatus, -1)' /\ AtNodes(cursor, lstatus, Length)'
    BY <1>0, <1>1, SamePlaces
  <1>3. Waiting = {l \in Line : lstatus[l] = "unresolved"}
    <2>0. node \in Line
      BY <1>0, <1>1 DEF DrawnParse
    <2>1. node \in Nat /\ node <= Length - 1
      <3>1. \A l \in Line : l < Length
        BY <1>1, Numbering
      <3>2. node < Length /\ node \in Nat
        BY <1>1, <2>0, <3>1
      <3> QED
        BY <1>1, <3>2
    <2>2. ASSUME NEW l \in Line, lstatus[l] = "unresolved" PROVE cursor[l] >= node
      <3>1. cursor[l] \in Cells(l, {"+"})
        BY <1>1, <2>2 DEF Cells
      <3>2. cursor[l] >= Length - 1 /\ cursor[l] \in Nat
        BY <1>1, <3>1 DEF WellDrawn, NodesToTheRight
      <3> QED
        BY <1>1, <2>1, <3>2
    <2> QED
      BY <2>2 DEF Waiting
  <1>4. CASE Waiting = {}
    <2>1. step' = "generate"
      BY <1>4 DEF FindNextNode
    <2>2. \A l \in Line : lstatus[l] = "resolved"
      BY <1>1, <1>3, <1>4
    <2> QED
      BY <1>0, <1>1, <1>2, <2>1, <2>2 DEF DrawnParse
  <1>5. CASE Waiting # {}
    <2>1. step' = "vertical"
          /\ node' = CHOOSE l \in Waiting : \A k \in Waiting :
                         cursor[l] < cursor[k] \/ (cursor[l] = cursor[k] /\ l <= k)
      BY <1>5 DEF FindNextNode
    <2>2. Waiting \in SUBSET Line
      BY <1>3
    <2>3. \E l \in Waiting : \A k \in Waiting :
              cursor[l] < cursor[k] \/ (cursor[l] = cursor[k] /\ l <= k)
      BY <1>1, <1>5, <2>2, FirstFound
    <2>4. node' \in Waiting /\ \A k \in Waiting :
              cursor[node'] < cursor[k] \/ (cursor[node'] = cursor[k] /\ node' <= k)
      BY <2>1, <2>3
    <2>5. FirstNode(cursor', lstatus', node')
      BY <1>0, <1>3, <2>4 DEF FirstNode
    <2> QED
      BY <1>0, <1>1, <1>2, <2>1, <2>5 DEF DrawnParse
  <1> QED
    BY <1>4, <1>5

\* The column of the first node, and the lines that meet in it.
LEMMA AtColumn ==
    ASSUME DrawnInv, WellDrawn, step = "vertical", NEW c, c = cursor[node]
    PROVE  /\ c \in Nat /\ node \in Line
           /\ \A l \in Line : lstatus[l] = "unresolved" => c <= cursor[l]
           /\ \A l \in Line : Symbol(l, c) = "+" =>
                 lstatus[l] = "unresolved" /\ cursor[l] = c /\ node <= l
           /\ \A l \in Line : Crossed(l, c) <=> node <= l /\ Symbol(l, c) \in Vertical
  <1>1. /\ buf \in [Line -> Seq(Cell)] /\ Line \subseteq Nat
        /\ cursor \in [Line -> Nat] /\ lstatus \in [Line -> {"unresolved", "resolved"}]
        /\ Places(cursor, lstatus, stmt) /\ Front(cursor, lstatus)
        /\ FirstNode(cursor, lstatus, node)
    BY Resting DEF DrawnParse
  <1>2. node \in Line /\ lstatus[node] = "unresolved" /\ c \in Nat
    BY <1>1 DEF FirstNode
  <1>3. ASSUME NEW l \in Line, lstatus[l] = "unresolved"
        PROVE  c <= cursor[l] /\ (cursor[l] = c => node <= l)
    <2>1. cursor[l] \in Nat
      BY <1>1
    <2>2. cursor[node] < cursor[l] \/ (cursor[node] = cursor[l] /\ node <= l)
      BY <1>1, <1>3 DEF FirstNode
    <2> QED
      BY <1>2, <2>1, <2>2
  <1>4. ASSUME NEW l \in Line, Symbol(l, c) \in Vertical PROVE c <= cursor[l]
    <2>1. c \in Cells(l, Vertical)
      <3>1. Symbol(l, c) \notin {"END", "ERR"}
        BY <1>4 DEF Vertical
      <3> QED
        BY <1>1, <1>2, <1>4, <3>1, SymbolsRead DEF Cells
    <2>2. cursor[l] \in Nat
      BY <1>1
    <2>3. lstatus[l] # "unresolved" => c < cursor[l]
      BY <1>1, <2>1 DEF Places, Arrived
    <2> QED
      BY <1>2, <1>3, <2>2, <2>3
  <1>5. ASSUME NEW l \in Line, Symbol(l, c) = "+"
        PROVE  lstatus[l] = "unresolved" /\ cursor[l] = c /\ node <= l
    <2>1. c \in Cells(l, {"+"}) /\ c \in Cells(l, Vertical)
      BY <1>1, <1>2, <1>5, SymbolsRead DEF Cells, Vertical
    <2>2. cursor[l] \in Nat
      BY <1>1
    <2>3. ~(c < cursor[l])
      <3> SUFFICES ASSUME c < cursor[l] PROVE FALSE
        OBVIOUS
      <3>1. c < cursor[node]
        BY <1>1, <1>2, <2>1 DEF Front
      <3> QED
        BY <1>2, <3>1
    <2>4. lstatus[l] = "unresolved"
      BY <1>1, <2>1, <2>3 DEF Places, Arrived
    <2>5. cursor[l] = c
      BY <1>2, <1>3, <2>2, <2>3, <2>4
    <2> QED
      BY <1>3, <2>4, <2>5
  <1>6. \A l \in Line : Crossed(l, c) <=> node <= l /\ Symbol(l, c) \in Vertical
    <2> TAKE l \in Line
    <2>1. l \in Nat /\ node \in Nat /\ cursor[l] \in Nat
      BY <1>1, <1>2
    <2> QED
      BY <1>2, <1>4, <2>1 DEF Crossed
  <1> QED
    BY <1>2, <1>3, <1>5, <1>6

\* The lines that are joined are those that the drawing connects.
LEMMA BranchesDrawn ==
    ASSUME DrawnInv, WellDrawn, step = "vertical", NEW c, c = cursor[node],
           NEW l \in Line, Symbol(l, c) = "+"
    PROVE  /\ Branches(l, c) = {k \in Connected(l, c) : Symbol(k, c) = "+" /\ Flow[c][k].wired}
           /\ \A k \in Branches(l, c) :
                 k \in Line /\ Flow[c][k].wired /\ stmt[k] = Shown(Flow[c][k])
  <1>1. /\ buf \in [Line -> Seq(Cell)] /\ Line \subseteq Nat /\ Length \in Nat
        /\ Places(cursor, lstatus, stmt)
        /\ \A k \in Nat : k < Length <=> k \in Line
    BY Resting, Numbering
  <1>2. /\ c \in Nat /\ node \in Line
        /\ \A k \in Line : Symbol(k, c) = "+" =>
              lstatus[k] = "unresolved" /\ cursor[k] = c /\ node <= k
        /\ \A k \in Line : Crossed(k, c) <=> node <= k /\ Symbol(k, c) \in Vertical
    BY AtColumn
  <1>3. \A k \in Line : Symbol(k, c) = "+" =>
            /\ node <= k /\ Crossed(k, c)
            /\ stmt[k] = Shown(Flow[c][k]) /\ (stmt[k] # Null <=> Flow[c][k].wired)
    BY <1>1, <1>2, ShownIsNotFreed DEF Places, Arriving, Vertical
  <1>4. node <= l /\ l \in Nat /\ node \in Nat
    BY <1>1, <1>2, <1>3
  <1>5. ASSUME NEW k \in Line, Symbol(k, c) = "+"
        PROVE  k \in Joint(l, c) <=> k \in Connected(l, c)
    <2>0. k \in Nat /\ node <= k /\ k \in node .. Length - 1
      BY <1>1, <1>3, <1>4, <1>5
    <2>1. \A j \in (k + 1 .. l) \cup (l + 1 .. k) :
             j \in Line /\ node <= j /\ j \in (k .. l) \cup (l .. k)
      <3> TAKE j \in (k + 1 .. l) \cup (l + 1 .. k)
      <3>1. j \in Nat /\ node <= j /\ (j <= l \/ j <= k)
        BY <1>4, <2>0
      <3>2. l < Length /\ k < Length
        BY <1>1, <1>4, <2>0
      <3>3. j < Length
        BY <1>1, <1>4, <2>0, <3>1, <3>2
      <3>4. j \in (k .. l) \cup (l .. k)
        BY <1>4, <2>0
      <3> QED
        BY <1>1, <3>1, <3>3, <3>4
    <2>2. \A j \in (k .. l) \cup (l .. k) :
             j = k \/ j = l \/ j \in (k + 1 .. l) \cup (l + 1 .. k)
      BY <1>4, <2>0
    <2>3. Symbol(k, c) \in Vertical /\ Symbol(l, c) \in Vertical
      BY <1>5 DEF Vertical
    <2>4. (\A j \in (k + 1 .. l) \cup (l + 1 .. k) : Crossed(j, c))
          <=> \A j \in (k .. l) \cup (l .. k) : Symbol(j, c) \in Vertical
      BY <1>2, <2>1, <2>2, <2>3
    <2> QED
      BY <2>0, <2>4 DEF Joint, Connected
  <1>6. Joint(l, c) \subseteq Line /\ Connected(l, c) \subseteq Line
    <2>1. \A k \in node .. Length - 1 : k \in Line
      BY <1>1, <1>4
    <2> QED
      BY <2>1 DEF Joint, Connected
  <1>7. Branches(l, c) = {k \in Connected(l, c) : Symbol(k, c) = "+" /\ Flow[c][k].wired}
    <2>1. \A k \in Line :
              k \in Branches(l, c) <=> k \in Connected(l, c) /\ Symbol(k, c) = "+" /\ Flow[c][k].wired
      BY <1>3, <1>5 DEF Branches
    <2>2. Branches(l, c) \subseteq Line
      BY <1>6 DEF Branches
    <2> QED
      BY <1>6, <2>1, <2>2
  <1> QED
    BY <1>3, <1>6, <1>7

\* vertical_parse makes of them what the drawing lets pass.
LEMMA JoinDrawn ==
    ASSUME DrawnInv, WellDrawn, step = "vertical", NEW c, c = cursor[node],
           NEW l \in Line, Symbol(l, c) = "+"
    PROVE  Joined(Branches(l, c)) = Shown(Flow[c + 1][l])
  <1> DEFINE branches == Branches(l, c)
  <1>1. /\ branches = {k \in Connected(l, c) : Symbol(k, c) = "+" /\ Flow[c][k].wired}
        /\ \A k \in branches : k \in Line /\ Flow[c][k].wired /\ stmt[k] = Shown(Flow[c][k])
    BY BranchesDrawn
  <1>2. buf \in [Line -> Seq(Cell)] /\ c \in Nat
    BY Resting, AtColumn
  <1>3. c \in 0 .. Len(buf[l]) /\ c < Len(buf[l])
    BY <1>2, SymbolsRead, Numbering
  <1>4. Flow[c + 1][l] = Through(l, c, Flow[c])
    BY <1>2, <1>3, FlowState
  <1>5. Through(l, c, Flow[c]) =
           LET b == {k \in Connected(l, c) : Symbol(k, c) = "+" /\ Flow[c][k].wired}
           IN [wired |-> b # {}, on |-> UNION {Flow[c][k].on : k \in b}]
    BY DEF Through, Contacts
  <1>6. Flow[c + 1][l] = [wired |-> branches # {}, on |-> UNION {Flow[c][k].on : k \in branches}]
    BY <1>1, <1>4, <1>5
  <1>7. \A k \in branches : stmt[k] = Expression(Flow[c][k].on, TRUE)
    BY <1>1 DEF Shown
  <1> HIDE DEF branches
  <1>8. \A k \in branches :
            /\ stmt[k] # Freed /\ stmt[k].tag = "EXPRESSION"
            /\ stmt[k].sound = TRUE /\ stmt[k].on = Flow[c][k].on
    <2>1. \A on : /\ Expression(on, TRUE).tag = "EXPRESSION"
                  /\ Expression(on, TRUE).on = on
      BY DEF Expression
    <2>2. \A on : Expression(on, TRUE).sound = TRUE
      BY DEF Expression
    <2>3. Freed.tag = "FREED"
      BY DEF Freed
    <2> QED
      BY <1>7, <2>1, <2>2, <2>3
  <1>9. CASE branches = {}
    <2>1. ~Flow[c + 1][l].wired
      <3> DEFINE on == UNION {Flow[c][k].on : k \in branches}
      <3> HIDE DEF on
      <3>1. Flow[c + 1][l] = [wired |-> FALSE, on |-> on]
        BY <1>6, <1>9 DEF on
      <3> QED
        BY <3>1
    <2> QED
      BY <1>9, <2>1 DEF Joined, Shown, branches
  <1>10. CASE branches # {}
    <2> DEFINE on == UNION {Flow[c][k].on : k \in branches}
    <2>1. Flow[c + 1][l].wired /\ Flow[c + 1][l].on = on
      <3>1. Flow[c + 1][l] = [wired |-> TRUE, on |-> on]
        BY <1>6, <1>10
      <3> HIDE DEF on
      <3> QED
        BY <3>1
    <2>2. {k \in branches : stmt[k].tag = "EXPRESSION"} = branches
      BY <1>8
    <2>3. {stmt[k].on : k \in branches} = {Flow[c][k].on : k \in branches}
      BY <1>8
    <2>4. (branches = branches /\ \A k \in branches : stmt[k].sound) = TRUE
      BY <1>8
    <2>5. Joined(branches) = Expression(UNION {stmt[k].on : k \in branches},
                                        branches = branches /\ \A k \in branches : stmt[k].sound)
      BY <1>8, <1>10, <2>2 DEF Joined
    <2>6. Joined(branches) = Expression(on, TRUE)
      BY <2>3, <2>4, <2>5
    <2> HIDE DEF on
    <2> QED
      BY <2>1, <2>6 DEF Shown, branches
  <1> QED
    BY <1>9, <1>10

\* Lines at the node go past it, and of the others none that is to be read on.
LEMMA NodesPassed ==
    ASSUME DrawnInv, WellDrawn, step = "vertical", NEW c, c = cursor[node]
    PROVE  /\ Advanced(c) \in [Line -> Nat]
           /\ \A l \in Line : cursor[l] <= Advanced(c)[l]
           /\ \A l \in Line : Symbol(l, c) = "+" =>
                 lstatus[l] = "unresolved" /\ cursor[l] = c /\ Advanced(c)[l] = c + 1
           /\ \A l \in Line : lstatus[l] = "unresolved" /\ Symbol(l, c) # "+" =>
                 c < cursor[l] /\ Advanced(c)[l] = cursor[l]
  <1>1. /\ buf \in [Line -> Seq(Cell)] /\ Line \subseteq Nat /\ cursor \in [Line -> Nat]
        /\ \A l \in Line : lstatus[l] = "unresolved" =>
              Symbol(l, cursor[l]) = "+" /\ cursor[l] \in 0 .. Len(buf[l]) - 1
    BY Resting
  <1>2. /\ c \in Nat /\ node \in Line
        /\ \A l \in Line : lstatus[l] = "unresolved" => c <= cursor[l]
        /\ \A l \in Line : Symbol(l, c) = "+" =>
              lstatus[l] = "unresolved" /\ cursor[l] = c /\ node <= l
        /\ \A l \in Line : Crossed(l, c) <=> node <= l /\ Symbol(l, c) \in Vertical
    BY AtColumn
  <1>3. ASSUME NEW l \in Line
        PROVE  /\ Advanced(c)[l] = IF Crossed(l, c) THEN cursor[l] + 1 ELSE cursor[l]
               /\ cursor[l] \in Nat /\ Advanced(c)[l] \in Nat /\ cursor[l] <= Advanced(c)[l]
    <2>1. Advanced(c)[l] = IF Crossed(l, c) THEN cursor[l] + 1 ELSE cursor[l]
      BY DEF Advanced
    <2>2. cursor[l] \in Nat
      BY <1>1
    <2> QED
      BY <2>1, <2>2
  <1>4. Advanced(c) \in [Line -> Nat]
    <2>1. Advanced(c) = [l \in Line |-> Advanced(c)[l]]
      BY DEF Advanced
    <2> QED
      BY <1>3, <2>1
  <1>5. ASSUME NEW l \in Line, Symbol(l, c) = "+"
        PROVE  lstatus[l] = "unresolved" /\ cursor[l] = c /\ Advanced(c)[l] = c + 1
    BY <1>2, <1>3, <1>5 DEF Vertical
  <1>6. ASSUME NEW l \in Line, lstatus[l] = "unresolved", Symbol(l, c) # "+"
        PROVE  c < cursor[l] /\ Advanced(c)[l] = cursor[l]
    <2>1. cursor[l] # c
      BY <1>1, <1>6
    <2>2. c < cursor[l]
      BY <1>2, <1>3, <1>6, <2>1
    <2>3. ~Crossed(l, c)
      <3> SUFFICES ASSUME Symbol(l, c) = "|" PROVE FALSE
        BY <1>2, <1>6 DEF Vertical
      <3>1. c \in Cells(l, {"|"})
        BY <1>1, <1>2, SymbolsRead DEF Cells
      <3>2. cursor[l] \in Cells(l, {"+"})
        BY <1>1, <1>6 DEF Cells
      <3>3. cursor[l] < c
        BY <3>1, <3>2 DEF WellDrawn, NothingAfterCrossing
      <3> QED
        BY <1>2, <1>3, <2>2, <3>3
    <2> QED
      BY <1>3, <2>2, <2>3
  <1> QED
    BY <1>3, <1>4, <1>5, <1>6

LEMMA PastNode ==
    ASSUME DrawnInv, WellDrawn, step = "vertical", NEW c, c = cursor[node],
           NEW l \in Line, Symbol(l, c) = "+"
    PROVE  Arriving(l, c + 1, Joined(Branches(l, c)))
  <1>1. /\ buf \in [Line -> Seq(Cell)] /\ Places(cursor, lstatus, stmt)
        /\ cursor \in [Line -> Nat]
    BY Resting
  <1>2. lstatus[l] = "unresolved" /\ cursor[l] = c /\ c \in Nat
    BY NodesPassed, AtColumn
  <1>3. Arriving(l, c, stmt[l])
    BY <1>1, <1>2 DEF Places
  <1>4. c \in 0 .. Len(buf[l])
    BY <1>1, <1>2, <1>3, Numbering DEF Arriving
  <1>5. c + 1 <= Len(buf[l]) /\ Symbol(l, c + 1) \in Alphabet
    BY <1>1, <1>4, SymbolPassed
  <1>6. ASSUME NEW d \in Cells(l, Coils \cup {"END"}) PROVE c + 1 <= d
    <2>1. d \in Nat /\ Symbol(l, d) # "+"
      BY <1>1, Numbering DEF Cells, Coils
    <2>2. c <= d
      BY <1>3 DEF Arriving
    <2>3. d # c
      BY <2>1
    <2> QED
      BY <1>2, <2>1, <2>2, <2>3
  <1>7. Joined(Branches(l, c)) = Shown(Flow[c + 1][l])
    BY JoinDrawn
  <1> QED
    BY <1>5, <1>6, <1>7 DEF Arriving

LEMMA VerticalDrawn ==
    ASSUME DrawnInv, WellDrawn, VerticalParse
    PROVE  DrawnParse'
  <1> DEFINE c == cursor[node]
  <1>0. /\ step = "vertical" /\ buf' = buf /\ lstatus' = lstatus /\ node' = node
        /\ step' = "horizontal" /\ line' = 0 /\ nMode' = FALSE
        /\ cursor' = Advanced(c)
        /\ stmt' = [l \in Line |-> IF l >= node /\ Symbol(l, c) = "+"
                                   THEN Joined(Branches(l, c)) ELSE stmt[l]]
    BY DEF VerticalParse
  <1> HIDE DEF c
  <1>1. /\ buf \in [Line -> Seq(Cell)] /\ Line \subseteq Nat /\ 0 \in Line
        /\ cursor \in [Line -> Nat] /\ lstatus \in [Line -> {"unresolved", "resolved"}]
        /\ Places(cursor, lstatus, stmt) /\ Front(cursor, lstatus)
        /\ Negating(cursor, lstatus, -1)
    BY <1>0, Resting
  <1>2. /\ c \in Nat /\ node \in Line
        /\ \A l \in Line : Symbol(l, c) = "+" => node <= l
    BY <1>0, AtColumn DEF c
  <1>3. /\ cursor' \in [Line -> Nat]
        /\ \A l \in Line : cursor[l] <= cursor'[l]
        /\ \A l \in Line : Symbol(l, c) = "+" =>
              lstatus[l] = "unresolved" /\ cursor[l] = c /\ cursor'[l] = c + 1
        /\ \A l \in Line : lstatus[l] = "unresolved" /\ Symbol(l, c) # "+" =>
              c < cursor[l] /\ cursor'[l] = cursor[l]
    BY <1>0, NodesPassed DEF c
  <1>4. /\ DOMAIN stmt' = Line
        /\ \A l \in Line : Symbol(l, c) = "+" => stmt'[l] = Joined(Branches(l, c))
        /\ \A l \in Line : Symbol(l, c) # "+" => stmt'[l] = stmt[l]
    <2>1. \A l \in Line : l >= node /\ Symbol(l, c) = "+" <=> Symbol(l, c) = "+"
      <3>1. \A l \in Line : l \in Nat /\ node \in Nat
        BY <1>1, <1>2
      <3> QED
        BY <1>2, <3>1
    <2> QED
      BY <1>0, <2>1
  <1>5. Places(cursor', lstatus', stmt')
    <2> SUFFICES ASSUME NEW l \in Line
                 PROVE  IF lstatus[l] = "unresolved" THEN Arriving(l, cursor'[l], stmt'[l])
                                                     ELSE Arrived(l, cursor'[l], stmt'[l])
      BY <1>0 DEF Places
    <2>1. ASSUME Symbol(l, c) = "+" PROVE Arriving(l, cursor'[l], stmt'[l])
      <3>1. Arriving(l, c + 1, Joined(Branches(l, c)))
        BY <1>0, <2>1, PastNode DEF c
      <3> QED
        BY <1>3, <1>4, <2>1, <3>1
    <2>2. ASSUME Symbol(l, c) # "+", lstatus[l] = "unresolved"
          PROVE  Arriving(l, cursor'[l], stmt'[l])
      BY <1>1, <1>3, <1>4, <2>2 DEF Places
    <2>3. ASSUME Symbol(l, c) # "+", lstatus[l] # "unresolved"
          PROVE  Arrived(l, cursor'[l], stmt'[l])
      <3>1. Arrived(l, cursor[l], stmt[l])
        BY <1>1, <2>3 DEF Places
      <3>2. cursor[l] <= cursor'[l] /\ cursor[l] \in Nat /\ cursor'[l] \in Nat
        BY <1>1, <1>3
      <3>3. ASSUME NEW d \in Cells(l, Vertical) PROVE d < cursor'[l]
        <4>1. d \in Nat /\ d < cursor[l]
          BY <1>1, <3>1, Numbering DEF Arrived, Cells
        <4> QED
          BY <3>2, <4>1
      <3> QED
        BY <1>4, <2>3, <3>1, <3>3 DEF Arrived
    <2> QED
      BY <1>3, <2>1, <2>2, <2>3
  <1>6. Front(cursor', lstatus')
    <2> SUFFICES ASSUME NEW l \in Line, NEW k \in Line, NEW d \in Cells(l, {"+"}),
                        d < cursor'[l], lstatus[k] = "unresolved"
                 PROVE  d < cursor'[k]
      BY <1>0 DEF Front
    <2>1. d \in Nat /\ d \in Cells(l, Vertical) /\ Symbol(l, d) = "+"
      BY <1>1, Numbering DEF Cells, Vertical
    <2>2. /\ cursor[k] \in Nat /\ cursor'[k] \in Nat /\ cursor[k] <= cursor'[k]
          /\ cursor[l] \in Nat /\ cursor'[l] \in Nat
      BY <1>1, <1>3
    <2>3. CASE d < cursor[l]
      <3>1. d < cursor[k]
        BY <1>1, <2>3 DEF Front
      <3> QED
        BY <2>1, <2>2, <3>1
    <2>4. CASE ~(d < cursor[l])
      <3>1. lstatus[l] = "unresolved"
        BY <1>1, <2>1, <2>4 DEF Places, Arrived
      <3>2. Symbol(l, c) = "+"
        BY <1>3, <2>4, <3>1
      <3>3. d = c
        BY <1>2, <1>3, <2>1, <2>2, <2>4, <3>2
      <3>4. c < cursor'[k]
        <4>1. CASE Symbol(k, c) = "+"
          BY <1>2, <1>3, <4>1
        <4>2. CASE Symbol(k, c) # "+"
          BY <1>3, <4>2
        <4> QED
          BY <4>1, <4>2
      <3> QED
        BY <3>3, <3>4
    <2> QED
      BY <2>3, <2>4
  <1>7. Negating(cursor', lstatus', -1)
    <2>0. \A l \in Line : l # -1
      BY <1>1
    <2> SUFFICES ASSUME NEW l \in Line, lstatus[l] = "unresolved"
                 PROVE  ~Negates(l, cursor'[l])
      BY <1>0, <2>0 DEF Negating
    <2>1. CASE Symbol(l, c) = "+"
      <3>1. cursor'[l] - 1 = c
        BY <1>2, <1>3, <2>1
      <3> QED
        BY <2>1, <3>1 DEF Negates
    <2>2. CASE Symbol(l, c) # "+"
      BY <1>1, <1>3, <2>0, <2>2 DEF Negating
    <2> QED
      BY <2>1, <2>2
  <1>8. AtNodes(cursor', lstatus', 0)
    <2>1. \A l \in Line : ~(l < 0)
      BY <1>1
    <2> QED
      BY <2>1 DEF AtNodes
  <1>9. /\ Places(cursor, lstatus, stmt)' /\ Front(cursor, lstatus)'
        /\ Negating(cursor, lstatus, -1)' /\ AtNodes(cursor, lstatus, 0)'
    BY <1>0, <1>1, <1>5, <1>6, <1>7, <1>8, SamePlaces
  <1> QED
    BY <1>0, <1>1, <1>2, <1>3, <1>4, <1>9 DEF DrawnParse

LEMMA GenerateDrawn ==
    ASSUME DrawnInv, WellDrawn, NEW result, GenerateCode(result)
    PROVE  DrawnParse'
  <1>0. /\ step = "generate" /\ step' = "done" /\ buf' = buf
        /\ cursor' = cursor /\ lstatus' = lstatus /\ stmt' = stmt
        /\ line' = line /\ nMode' = nMode
    BY DEF GenerateCode, lines
  <1>1. /\ buf \in [Line -> Seq(Cell)] /\ DrawnParse
        /\ cursor \in [Line -> Nat] /\ lstatus \in [Line -> {"unresolved", "resolved"}]
        /\ DOMAIN stmt = Line /\ line \in Line /\ nMode \in BOOLEAN
        /\ Places(cursor, lstatus, stmt) /\ Front(cursor, lstatus)
        /\ Negating(cursor, lstatus, -1) /\ AtNodes(cursor, lstatus, Length)
    BY <1>0, Resting
  <1>2. /\ Places(cursor, lstatus, stmt)' /\ Front(cursor, lstatus)'
        /\ Negating(cursor, lstatus, -1)' /\ AtNodes(cursor, lstatus, Length)'
    BY <1>0, <1>1, SamePlaces
  <1>3. \A l \in Line : lstatus[l] = "resolved"
    BY <1>0, <1>1 DEF DrawnParse
  <1> QED
    BY <1>0, <1>1, <1>2, <1>3 DEF DrawnParse

LEMMA LadderKept ==
    ASSUME DrawnInv, UNCHANGED ladder
    PROVE  DrawnInv'
  <1>0. /\ buf' = buf /\ cursor' = cursor /\ lstatus' = lstatus /\ stmt' = stmt
        /\ step' = step /\ line' = line /\ nMode' = nMode /\ node' = node
    BY DEF ladder, lines
  <1>1. buf \in [Line -> Seq(Cell)]
    BY DEF DrawnInv
  <1>2. WellDrawn' <=> WellDrawn
    BY <1>0, <1>1, SameDrawing
  <1>3. ASSUME WellDrawn PROVE DrawnParse'
    <2>1. DrawnParse
      BY <1>3 DEF DrawnInv
    <2>2. /\ Places(cursor, lstatus, stmt)' <=> Places(cursor, lstatus, stmt)
          /\ Front(cursor, lstatus)' <=> Front(cursor, lstatus)
          /\ \A n : /\ Negating(cursor, lstatus, n)' <=> Negating(cursor, lstatus, n)
                    /\ AtNodes(cursor, lstatus, n)' <=> AtNodes(cursor, lstatus, n)
      BY <1>0, <1>1, SamePlaces
    <2>3. FirstNode(cursor, lstatus, node)' <=> FirstNode(cursor, lstatus, node)
      BY <1>0 DEF FirstNode
    <2> QED
      BY <1>0, <2>1, <2>2, <2>3 DEF DrawnParse
  <1> QED
    BY <1>0, <1>1, <1>2, <1>3 DEF DrawnInv

LEMMA DrawnStep == DrawnInv /\ [Next]_vars => DrawnInv'
  <1> SUFFICES ASSUME DrawnInv, [Next]_vars PROVE DrawnInv'
    OBVIOUS
  <1>1. ASSUME NextLD PROVE DrawnInv'
    <2>1. buf \in [Line -> Seq(Cell)] /\ buf' = buf
      BY <1>1 DEF DrawnInv, NextLD, ReadLine, Wire, Gap, EndOfLine, Contact, Coil, BadSymbol,
                  BadContact, BadCoil, Fails, LineDone, FindNextNode, VerticalParse, GenerateCode
    <2>2. WellDrawn' <=> WellDrawn
      BY <2>1, SameDrawing
    <2>3. ASSUME WellDrawn PROVE DrawnParse'
      <3>1. ASSUME NEW l \in Line, ReadLine(l) PROVE DrawnParse'
        <4>1. CASE Wire(l)
          BY <2>3, <4>1, WireDrawn
        <4>2. CASE Gap(l)
          BY <2>3, <4>2, GapDrawn
        <4>3. CASE EndOfLine(l)
          BY <2>3, <4>3, EndDrawn
        <4>4. CASE Contact(l)
          BY <2>3, <4>4, ContactDrawn
        <4>5. CASE Coil(l)
          BY <2>3, <4>5, CoilDrawn
        <4>6. CASE BadSymbol(l)
          BY <2>3, <4>6, NoBadSymbol
        <4>7. CASE BadContact(l) \/ BadCoil(l)
          BY <2>3, <4>7, NoBadArguments
        <4> QED
          BY <3>1, <4>1, <4>2, <4>3, <4>4, <4>5, <4>6, <4>7 DEF ReadLine
      <3>2. CASE LineDone
        BY <2>3, <3>2, LineDoneDrawn
      <3>3. CASE FindNextNode
        BY <2>3, <3>3, FindDrawn
      <3>4. CASE VerticalParse
        BY <2>3, <3>4, VerticalDrawn
      <3>5. ASSUME NEW result, GenerateCode(result) PROVE DrawnParse'
        BY <2>3, <3>5, GenerateDrawn
      <3> QED
        BY <1>1, <3>1, <3>2, <3>3, <3>4, <3>5 DEF NextLD
    <2> QED
      BY <2>1, <2>2, <2>3 DEF DrawnInv
  <1>2. ASSUME UNCHANGED ladder PROVE DrawnInv'
    BY <1>2, LadderKept
  <1>3. CASE UNCHANGED vars
    BY <1>2, <1>3 DEF vars, ladder
  <1> QED
    BY <1>1, <1>2, <1>3 DEF Next, Reject, ParseLD, ParseIL

\* Each coil of a ladder that is well drawn gets the contacts that lead to it,
\* however many lines there are, however they are drawn, and whatever nodes and
\* crossing lines connect them (parse_ld_line, find_next_node, vertical_parse).
THEOREM LoaderCoils == Spec => []CoilsAsDrawn
  <1>1. Init => DrawnInv
    BY InitDrawn
  <1>2. DrawnInv /\ [Next]_vars => DrawnInv'
    BY DrawnStep
  <1>3. DrawnInv => CoilsAsDrawn
    <2> SUFFICES ASSUME DrawnInv, step = "done", WellDrawn, NEW l \in Line, HasCoil(l)
                 PROVE  stmt[l] = Meant(l)
      BY DEF CoilsAsDrawn, AsDrawn
    <2>1. DrawnParse
      BY DEF DrawnInv
    <2>2. lstatus[l] = "resolved" /\ Places(cursor, lstatus, stmt)
      BY <2>1 DEF DrawnParse
    <2>3. Arrived(l, cursor[l], stmt[l])
      BY <2>2 DEF Places
    <2> QED
      BY <2>3 DEF Arrived
  <1> QED
    BY <1>1, <1>2, <1>3, PTL DEF Spec
=============================================================================
