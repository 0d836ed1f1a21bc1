\* Ladders of three lines, lists of up to four lines in a rung of three.
CONSTANTS
    Length = 3
    Texts <- MCTexts
    Operands <- MCOperands
    BYTESIZE = 8
    ILLines <- MCLines
    MAXBUF = 4
    MAXSTACK = 3
SPECIFICATION Spec
INVARIANTS CoilsAsDrawn ListAsWritten JumpsLand
PROPERTY LoadEnds
CHECK_DEADLOCK FALSE
