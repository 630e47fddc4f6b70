--------------------------- MODULE MCAppointments ---------------------------
(* Appointments for TLC: small calendars and who acts for whom.            *)
EXTENDS Appointments, TLC

CONSTANTS t1, t2, h1, h2

(* A long interval and the two halves of it. *)
MCSlots == {[start |-> 1, end |-> 2], [start |-> 2, end |-> 3], [start |-> 1, end |-> 3]}
MCHalves == {[start |-> 1, end |-> 2], [start |-> 2, end |-> 3]}
MCOneSlot == {[start |-> 1, end |-> 2]}

MCNoCharge == [h \in {} |-> {t1}]
MCOneCharge == [h \in {h1} |-> {t1}]

(* A professor, and the dean of the department, who acts for both.         *)
MCDeanCharge == [h \in {h1, h2} |-> IF h = h1 THEN {t1} ELSE {t1, t2}]

Symmetry == Permutations(Workers)
SymmetryAll == Permutations(Workers) \cup Permutations(Appointments)
                 \cup Permutations(Students) \cup Permutations(Targets)
(* What the calendar and the guards of the service depend on. Marks, the   *)
(* contents of the history and what a request saw influence neither;       *)
(* PENDING and RESCHEDULED allow the same, as do the three final statuses, *)
(* which rejection, cancellation and completion lead to unconditionally.   *)
Class(s) == CASE s \in Approvable -> "open"
              [] s \in Statuses \ ActiveStatuses -> "closed"
              [] OTHER -> s
Asked(r) == [f \in DOMAIN r \ {"seen", "active", "old"} |->
               IF f = "op" /\ r.op \in {"reject", "cancel", "complete"} THEN "close" ELSE r[f]]
CalendarView ==
  <<[a \in Appointments |-> Class(status[a])], slot, student, target,
    [a \in Appointments |-> Len(history[a])], [w \in Workers |-> Asked(req[w])]>>
=============================================================================
