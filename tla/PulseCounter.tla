---------------------------- MODULE PulseCounter ----------------------------
(***************************************************************************)
(* What a memory register promises when a ladder drives it as a counter:   *)
(* once per scan the program's coil puts a level on its pulse input, and   *)
(* the register counts one step, up or down, exactly when that level has   *)
(* risen since the previous scan.  A read only register never counts.      *)
(* Instructions and the host may also store a value into it at any time.   *)
(***************************************************************************)
EXTENDS Integers

CONSTANTS Counter,   \* the registers
          VMod       \* values wrap at VMod (2^64 for the uint64_t of the code)

VARIABLES count,     \* [Counter -> 0 .. VMod-1]
          level,     \* [Counter -> BOOLEAN], pulse level at the last scan
          readOnly,  \* [Counter -> BOOLEAN], fixed configuration
          down       \* [Counter -> BOOLEAN], fixed configuration

vars == <<count, level, readOnly, down>>

Init == /\ count = [c \in Counter |-> 0]
        /\ level = [c \in Counter |-> FALSE]
        /\ readOnly \in [Counter -> BOOLEAN]
        /\ down \in [Counter -> BOOLEAN]

OneStep(c) == (count[c] + (IF down[c] THEN -1 ELSE 1)) % VMod

\* A scan samples a new level for every register.
Sample(new) ==
    /\ level' = new
    /\ count' = [c \in Counter |->
                    IF new[c] /\ ~level[c] /\ ~readOnly[c] THEN OneStep(c)
                                                           ELSE count[c]]
    /\ UNCHANGED <<readOnly, down>>

Store(c, v) == /\ count' = [count EXCEPT ![c] = v]
               /\ UNCHANGED <<level, readOnly, down>>

Next == \/ \E new \in [Counter -> BOOLEAN] : Sample(new)
        \/ \E c \in Counter, v \in 0 .. VMod - 1 : Store(c, v)

Spec == Init /\ [][Next]_vars
=============================================================================
