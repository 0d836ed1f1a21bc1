------------------------------- MODULE MCPlc -------------------------------
(***************************************************************************)
(* The PLC and its host on a small instance.  Memory registers have words  *)
(* of one value only, so that how they count tells nothing apart: they are *)
(* set up in one way.                                                      *)
(***************************************************************************)
EXTENDS PlcObserved

InitPlc == InitObserved /\ \A c \in Counter : ~m[c].RO /\ ~m[c].DOWN

SpecPlc == InitPlc /\ [][NextObserved]_allvars
=============================================================================
