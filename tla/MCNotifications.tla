-------------------------- MODULE MCNotifications ---------------------------
(* Notifications for TLC: events and their recipients.                     *)
EXTENDS Notifications, TLC

CONSTANTS e1, e2, u1, u2, u3

(* A transfer reaches the student u1 and the handlers, an approval only u1. *)
MCTypes == [e \in Events |-> IF e = e1 THEN "CONCERN_TRANSFERRED" ELSE "APPOINTMENT_APPROVED"]
MCOwner == [e \in Events |-> u1]
MCInCharge == [e \in Events |-> IF e = e1 THEN {u2} ELSE {}]

Symmetry == Permutations(Workers)
=============================================================================
