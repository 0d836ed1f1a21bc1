------------------------------ MODULE Machine ------------------------------
(***************************************************************************)
(* The machine that executes rungs, on bits or on words.  A rung is either *)
(* a ladder or another program on bits, with scans that fail or are cut    *)
(* (module Ladder), or a list of instructions on words and real numbers in *)
(* one scan (module Words).                                                *)
(***************************************************************************)
EXTENDS Ladder

CONSTANTS BYTESIZE, Sizes, NI, Plant, Reals, Lists, WORDSTACK

VARIABLES
    use,
    list, inputs, outputs, qbit, mem, mr, wacc, wstack, made, last     \* module Words

W == INSTANCE Words WITH MAXSTACK <- WORDSTACK, coil <- qbit, m <- mem, acc <- wacc,
                        stack <- wstack

ASSUME WordsAssumption ==
    /\ BYTESIZE \in Nat \ {0} /\ Sizes \subseteq {1, 2, 4, 8} /\ NI \in Nat
    /\ Plant \subseteq [0 .. NI - 1 -> 0 .. W!Width(1) - 1]
    /\ Reals \subseteq Int
    /\ \A l \in Lists : l.operations \subseteq W!Operations

wordvars == <<list, inputs, outputs, qbit, mem, mr, wacc, wstack, made, last>>

InitMachine ==
    /\ InitLadder /\ W!Init
    /\ use \in {"bits", "words"}
    /\ use = "bits" => list = CHOOSE l \in Lists : TRUE

NextMachine ==
    /\ \/ use = "bits" /\ NextLadder /\ UNCHANGED wordvars
       \/ use = "words" /\ W!Next /\ UNCHANGED allvars
    /\ UNCHANGED use

SpecMachine == InitMachine /\ [][NextMachine]_<<use, allvars, wordvars>>

-----------------------------------------------------------------------------
\* What a list stores is what it loads from the same operand (StoredIsLoaded of
\* module Words).
StoredIsLoaded == W!StoredIsLoaded

\* No operation gives a value wider than its operand (ValueFits of module Words).
ValueFits == W!ValueFits
=============================================================================
