--------------------------- MODULE InputsObserved ---------------------------
(***************************************************************************)
(* The digital inputs with what an observer remembers of them: what the    *)
(* host saw when it last read the registers, and the values it has forced  *)
(* each contact to since it last lifted the forcing of that contact.       *)
(***************************************************************************)
EXTENDS Inputs

VARIABLES
    shown,     \* the buffer, as the host last saw it
    forced     \* [Contact -> SUBSET BOOLEAN], values forced since the last lift

observed == <<shown, forced>>
allvars == <<vars, observed>>

InitObserved ==
    /\ Init
    /\ shown = inputs
    /\ forced = [n \in Contact |-> {}]

\* The host reads the registers and resets the mask.
HostLooks ==
    /\ ResetUpdate
    /\ shown' = inputs
    /\ UNCHANGED forced

HostForces ==
    \E n \in Contact :
       /\ \/ Unforce(n) /\ forced' = [forced EXCEPT ![n] = {}]
          \/ \E val \in BOOLEAN :
                ForceTo(n, val) /\ forced' = [forced EXCEPT ![n] = @ \cup {val}]
       /\ UNCHANGED shown

NextObserved ==
    \/ HostLooks
    \/ HostForces
    \/ (BeginScan \/ EndScan) /\ UNCHANGED observed

SpecObserved == InitObserved /\ [][NextObserved]_allvars

-----------------------------------------------------------------------------
(* Properties.                                                             *)

\* While the mask is silent the buffer is as the host saw it: a change is not
\* lost when the next one comes before the host has looked.
InputsAnnounced == phase = "host" => changedI \/ shown = inputs

\* A scan shows the program a contact under the values it was forced to.
ForcedRule ==
    BeginScan => \A n \in Contact : Reached(n) =>
       di'[n].I = IF forced[n] = {}
                  THEN (n % BYTESIZE) \in inputs'[n \div BYTESIZE]
                  ELSE FALSE \notin forced[n]

\* Since the last lift, a contact once forced to 0 is 0 to the program (forcing
\* it to 1 on top changes nothing), one forced to 1 only is 1, and one that is
\* not forced shows the buffer, also after a sequence of forces was lifted.
ForcedContacts == [][ForcedRule]_allvars
=============================================================================
