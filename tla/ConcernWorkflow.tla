-------------------------- MODULE ConcernWorkflow --------------------------
(***************************************************************************)
(* What the concern service promises of one concern's life cycle, with     *)
(* every operation atomic: the abstract specification that Concerns        *)
(* implements while its requests do not overlap.                           *)
(***************************************************************************)
CONSTANTS Concerns,   \* concern ids
          Targets     \* offices and departments a concern can be addressed to

VARIABLES status,     \* ConcernStatus, "NONE" before the row exists
          target,     \* the office or department in charge
          resolvedAt  \* whether the concern carries a resolution time

vars == <<status, target, resolvedAt>>

(* ConcernStatus in schema.prisma. *)
Statuses == {"SUBMITTED", "UNDER_REVIEW", "IN_PROGRESS", "TRANSFERRED",
             "AWAITING_CONFIRMATION", "REOPENED", "RESOLVED", "CLOSED"}

(* Where a concern may go from each status, over all the operations. *)
Successors ==
  [SUBMITTED             |-> {"UNDER_REVIEW", "TRANSFERRED", "CLOSED"},
   UNDER_REVIEW          |-> {"IN_PROGRESS", "TRANSFERRED", "AWAITING_CONFIRMATION", "CLOSED"},
   IN_PROGRESS           |-> {"TRANSFERRED", "AWAITING_CONFIRMATION", "CLOSED"},
   TRANSFERRED           |-> {"UNDER_REVIEW", "TRANSFERRED", "CLOSED"},
   AWAITING_CONFIRMATION |-> {"RESOLVED", "REOPENED", "CLOSED"},
   REOPENED              |-> {"UNDER_REVIEW", "IN_PROGRESS", "TRANSFERRED",
                              "AWAITING_CONFIRMATION", "CLOSED"},
   RESOLVED              |-> {"CLOSED"},
   CLOSED                |-> {}]

Init ==
  /\ status = [c \in Concerns |-> "NONE"]
  /\ target \in [Concerns -> Targets]
  /\ resolvedAt = [c \in Concerns |-> FALSE]

(* A student submits a concern to a target of their choice. *)
Submit(c, t) ==
  /\ status[c] = "NONE"
  /\ status' = [status EXCEPT ![c] = "SUBMITTED"]
  /\ target' = [target EXCEPT ![c] = t]
  /\ UNCHANGED resolvedAt

(* The concern is handed to another target and starts over there. *)
Transfer(c, t) ==
  /\ status[c] \in Statuses
  /\ "TRANSFERRED" \in Successors[status[c]]
  /\ t # target[c]
  /\ status' = [status EXCEPT ![c] = "TRANSFERRED"]
  /\ target' = [target EXCEPT ![c] = t]
  /\ resolvedAt' = [resolvedAt EXCEPT ![c] = FALSE]

(* Any other operation: one edge of the graph. Only a confirmation gives   *)
(* the concern a resolution time, and only closing keeps it.               *)
Advance(c, next) ==
  /\ status[c] \in Statuses
  /\ next \in Successors[status[c]] \ {"TRANSFERRED"}
  /\ status' = [status EXCEPT ![c] = next]
  /\ resolvedAt' = [resolvedAt EXCEPT ![c] =
                      next = "RESOLVED" \/ (next = "CLOSED" /\ resolvedAt[c])]
  /\ UNCHANGED target

Next ==
  \E c \in Concerns :
    \/ \E t \in Targets : Submit(c, t) \/ Transfer(c, t)
    \/ \E next \in Statuses : Advance(c, next)

Spec == Init /\ [][Next]_vars
=============================================================================
