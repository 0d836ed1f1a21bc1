------------------------------- MODULE Binary -------------------------------
(***************************************************************************)
(* Binary numbers.                                                         *)
(***************************************************************************)
EXTENDS Integers

\* The powers of 2.
Power[n \in Nat] == IF n = 0 THEN 1 ELSE 2 * Power[n - 1]

\* Bit k of a number.
BitIn(v, k) == (v \div Power[k]) % 2
=============================================================================
