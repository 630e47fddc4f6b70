--------------------------- MODULE MCAvailability ---------------------------
(* Availability for TLC: the schedules and updates that are asked for.     *)
EXTENDS Availability

CONSTANTS t1, t2, m1

MCCharge == [m \in {m1} |-> {t1}]

MCWindows == {v \in Window : v.start < v.end}

(* Updates of one field, and moves of both ends. *)
MCPatches ==
  {[f \in {"day"} |-> d] : d \in Days}
    \cup {[f \in {"active"} |-> b] : b \in BOOLEAN}
    \cup {[f \in {"duration"} |-> n] : n \in 1..MaxMinute}
    \cup {[f \in {"start"} |-> n] : n \in 0..MaxMinute}
    \cup {[f \in {"end"} |-> n] : n \in 0..MaxMinute}
    \cup {[f \in {"start", "end"} |-> IF f = "start" THEN n ELSE m] :
            n, m \in 0..MaxMinute}
MCFewPatches ==
  {[f \in {"active"} |-> b] : b \in BOOLEAN}
    \cup {[f \in {"start"} |-> n] : n \in 0..MaxMinute}
    \cup {[f \in {"end"} |-> n] : n \in 0..MaxMinute}

Symmetry == Permutations(Workers) \cup Permutations(Ids)
=============================================================================
