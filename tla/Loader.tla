------------------------------- MODULE Loader -------------------------------
(***************************************************************************)
(* plc_load_program_file (src/src/vm/plclib.c): by the ending of its name  *)
(* a file is given to the parser of instruction lists or to that of        *)
(* ladders, and what the parser leaves in p->status is the result.  Both   *)
(* parsers see the same PLC; a load runs one of them to its end.           *)
(***************************************************************************)
EXTENDS Drawing

CONSTANTS ILLines, MAXBUF, MAXSTACK

ASSUME LimitsAssumption == MAXBUF \in Nat \ {0} /\ MAXSTACK \in Nat \ {0}

\* A jump that is written without a modifier character has its label read from
\* a pointer that is not there.
ASSUME LinesAssumption ==
    \A listed \in ILLines :
        /\ listed \in Seq([mark : STRING] \cup [mark : STRING, name : STRING]
              \cup [mark : STRING, op : STRING, mods : Seq(STRING),
                    arg : [kind : STRING]
                          \cup [kind : STRING, name : Seq([mark : STRING, name : STRING])]
                          \cup [kind : STRING, letter : STRING, type : STRING, byte : Int, bit : Int]])
        /\ \A n \in DOMAIN listed :
              listed[n].mark = "statement" /\ listed[n].op = "JMP" => listed[n].mods # <<>>

VARIABLES
    lang,                          \* of the file: "il", "ld", or "none"
    text, rung, ilStep, faults     \* module ParserIL

IL == INSTANCE Listing

list == <<text, rung, ilStep, faults>>
ladder == <<buf, lines, step, line, nMode, node>>
vars == <<lang, list, ladder, outcome>>

\* A file that cannot be read has no language either.
Init ==
    /\ Constructed /\ IL!InitIL
    /\ \/ lang = "ld" /\ buf \in [Line -> Texts]
       \/ lang \in {"il", "none"} /\ buf = [l \in Line |-> <<>>]

\* PLC_ERR_BADFILE
Reject ==
    /\ lang = "none" /\ outcome = "none"
    /\ outcome' = "ERROR"
    /\ UNCHANGED <<lang, list, ladder>>

ParseLD == lang = "ld" /\ NextLD /\ UNCHANGED <<lang, list>>

ParseIL == lang = "il" /\ IL!NextIL /\ UNCHANGED <<lang, ladder>>

Next == Reject \/ ParseLD \/ ParseIL

\* A call runs on until it returns.
Spec == Init /\ [][Next]_vars /\ WF_vars(Next)

-----------------------------------------------------------------------------
\* Every load comes to an end with a status, whatever the file says: neither
\* parser goes round in circles, however lines are drawn, crossed, cut off or
\* in error (parse_ld_program, parse_il_program).
LoadEnds == <>(outcome # "none")

\* As ProgramAsWritten and JumpsLand of module Listing.
ListAsWritten == IL!ProgramAsWritten
JumpsLand == IL!JumpsLand

\* parser-il.c:85 "execute command if no errors": a program is accepted only
\* if none of its lines was in error (the results of parse_il_line and of
\* horizontal_parse are overwritten by those of intern and vertical_parse).
AcceptedWithoutErrors ==
    outcome = "STOPPED" => faults = 0 /\ \A l \in Line : lstatus[l] # "error"
=============================================================================
