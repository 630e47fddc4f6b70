---------------------------- MODULE ActionPages ----------------------------
(***************************************************************************)
(* The pages on which people act on concerns and appointments: the staff's *)
(* (StaffConcerns, StaffAppointments) and the student's (StudentConcerns,  *)
(* StudentAppointments). Each shows a list, offers for the selected entry  *)
(* what its status allows, as far as the page knows, and makes one call at *)
(* a time. The staff's pages put the answer into the list; the student's   *)
(* read the list again.                                                    *)
(*                                                                         *)
(* The pages and the server have tables of their own of what each status   *)
(* allows. Modules Concerns and Appointments say what others may do to an  *)
(* entry meanwhile; here they give it any status and take it from or give  *)
(* it to the person's charge. Any listed entry can be selected.            *)
(*                                                                         *)
(* A definition stands before the one it varies as an error of the code    *)
(* would; the property below notices it.                                   *)
(***************************************************************************)
EXTENDS Naturals

CONSTANT Entries  \* concerns or appointments of one page

VARIABLES
  desk,      \* the page
  standing,  \* the status of each entry on the server
  inCharge,  \* entries the person may act on
  desked,    \* the status each entry is listed with, or "UNLISTED"
  deskRead,  \* the fetch of the list under way
  action     \* the call under way

deskVars == <<desk, standing, inCharge, desked, deskRead, action>>

-----------------------------------------------------------------------------
Desks == {"staffConcerns", "staffAppointments", "studentConcerns", "studentAppointments"}

ConcernStatuses == {"SUBMITTED", "UNDER_REVIEW", "IN_PROGRESS", "TRANSFERRED",
                    "AWAITING_CONFIRMATION", "REOPENED", "RESOLVED", "CLOSED"}
AppointmentStatuses == {"PENDING", "APPROVED", "REJECTED", "RESCHEDULED", "COMPLETED", "CANCELLED"}

DeskStatuses == IF desk \in {"staffConcerns", "studentConcerns"}
                THEN ConcernStatuses ELSE AppointmentStatuses

(* What a call does: the operation, and the status it leads to. *)
Op(name, to) == [name |-> name, to |-> to]
Ops(name, tos) == {Op(name, to) : to \in tos}

NoAction == [phase |-> "none"]
NotRead == [asked |-> FALSE, served |-> FALSE]

ActionTypeOK ==
  /\ desk \in Desks
  /\ standing \in [Entries -> DeskStatuses]
  /\ inCharge \subseteq Entries
  /\ desked \in [Entries -> DeskStatuses \cup {"UNLISTED"}]
  /\ deskRead = NotRead \/ deskRead.asked
  /\ action = NoAction \/ (action.entry \in Entries /\ action.phase \in {"sent", "done"})

(* The page with its list, as the server has it. *)
ActionInit ==
  /\ desk \in Desks
  /\ standing \in [Entries -> DeskStatuses]
  /\ inCharge = Entries
  /\ desked = standing
  /\ deskRead = NotRead
  /\ action = NoAction

-----------------------------------------------------------------------------
(* The pages' tables. *)

NextConcernStatuses(s) ==
  CASE s \in {"SUBMITTED", "TRANSFERRED"} -> {"UNDER_REVIEW"}
    [] s = "UNDER_REVIEW" -> {"IN_PROGRESS"}
    [] s = "REOPENED" -> {"UNDER_REVIEW", "IN_PROGRESS"}
    [] OTHER -> {}

OfferedByLabel(s) ==
  IF desk = "studentConcerns" /\ s \in {"IN_PROGRESS", "AWAITING_CONFIRMATION"}
  THEN Ops("confirm", {"RESOLVED"}) \cup Ops("rejectResolution", {"REOPENED"}) ELSE {}

Offered(s) ==
  CASE desk = "staffConcerns" ->
         Ops("status", NextConcernStatuses(s))
           \cup (IF s \in {"UNDER_REVIEW", "IN_PROGRESS", "REOPENED"}
                 THEN Ops("resolve", {"AWAITING_CONFIRMATION"}) ELSE {})
           \cup (IF s \in {"SUBMITTED", "UNDER_REVIEW", "IN_PROGRESS", "TRANSFERRED", "REOPENED"}
                 THEN Ops("transfer", {"TRANSFERRED"}) ELSE {})
    [] desk = "staffAppointments" ->
         CASE s = "PENDING" -> Ops("approve", {"APPROVED"}) \cup Ops("reject", {"REJECTED"})
           [] s = "APPROVED" -> Ops("complete", {"COMPLETED"})
           [] OTHER -> {}
    [] desk = "studentConcerns" ->
         IF s = "AWAITING_CONFIRMATION"
         THEN Ops("confirm", {"RESOLVED"}) \cup Ops("rejectResolution", {"REOPENED"}) ELSE {}
    [] desk = "studentAppointments" ->
         IF s \in {"PENDING", "APPROVED", "RESCHEDULED"}
         THEN Ops("cancel", {"CANCELLED"}) \cup Ops("reschedule", {"RESCHEDULED"}) ELSE {}

(* The server's tables. *)
Admitted(s) ==
  CASE desk \in {"staffConcerns", "studentConcerns"} ->
         Ops("status", CASE s \in {"SUBMITTED", "TRANSFERRED"} -> {"UNDER_REVIEW"}
                         [] s = "UNDER_REVIEW" -> {"IN_PROGRESS"}
                         [] s = "REOPENED" -> {"UNDER_REVIEW", "IN_PROGRESS"}
                         [] OTHER -> {})
           \cup (IF s \in {"SUBMITTED", "UNDER_REVIEW", "IN_PROGRESS", "TRANSFERRED", "REOPENED"}
                 THEN Ops("transfer", {"TRANSFERRED"}) ELSE {})
           \cup (IF s \in {"UNDER_REVIEW", "IN_PROGRESS", "REOPENED"}
                 THEN Ops("resolve", {"AWAITING_CONFIRMATION"}) ELSE {})
           \cup (IF s = "AWAITING_CONFIRMATION"
                 THEN Ops("confirm", {"RESOLVED"}) \cup Ops("rejectResolution", {"REOPENED"}) ELSE {})
    [] OTHER ->
         (IF s \in {"PENDING", "RESCHEDULED"}
          THEN Ops("approve", {"APPROVED"}) \cup Ops("reject", {"REJECTED"}) ELSE {})
           \cup (IF s \in {"PENDING", "APPROVED", "RESCHEDULED"}
                 THEN Ops("cancel", {"CANCELLED"}) \cup Ops("reschedule", {"RESCHEDULED"}) ELSE {})
           \cup (IF s = "APPROVED" THEN Ops("complete", {"COMPLETED"}) ELSE {})

Admits(e, op) == e \in inCharge /\ op \in Admitted(standing[e])

-----------------------------------------------------------------------------
(* Calls. *)

Current(e) == e \in inCharge /\ desked[e] = standing[e]

PressAction(e) ==
  /\ action = NoAction /\ desked[e] # "UNLISTED"
  /\ \E op \in Offered(desked[e]) :
       action' = [phase |-> "sent", entry |-> e, op |-> op, current |-> Current(e)]
  /\ UNCHANGED <<desk, standing, inCharge, desked, deskRead>>

(* A transfer may also lead where the concern is, which changes nothing. *)
Perform ==
  LET e == action.entry IN
  /\ action.phase = "sent" /\ Admits(e, action.op)
  /\ \/ /\ standing' = [standing EXCEPT ![e] = action.op.to]
        /\ inCharge' = IF action.op.name = "transfer" THEN inCharge \ {e} ELSE inCharge
     \/ action.op.name = "transfer" /\ UNCHANGED <<standing, inCharge>>
  /\ action' = [phase |-> "done", entry |-> e, status |-> standing'[e]]
  /\ UNCHANGED <<desk, desked, deskRead>>

(* An answer with the entry is put into the list; after a student's call   *)
(* the list is read again, from the start.                                 *)
PutAnswer ==
  /\ action.phase = "done" /\ action' = NoAction
  /\ IF desk \in {"staffConcerns", "staffAppointments"}
     THEN /\ desked' = [desked EXCEPT ![action.entry] = IF @ = "UNLISTED" THEN @ ELSE action.status]
          /\ UNCHANGED deskRead
     ELSE /\ deskRead' = [NotRead EXCEPT !.asked = TRUE]
          /\ UNCHANGED desked
  /\ UNCHANGED <<desk, standing, inCharge>>

(* A refusal, or 15 s without an answer, shows an error. A call that is    *)
(* still on its way is as good as another person's.                        *)
ActionFails ==
  /\ action # NoAction /\ action' = NoAction
  /\ UNCHANGED <<desk, standing, inCharge, desked, deskRead>>

-----------------------------------------------------------------------------
(* The list, and others. *)

ReadDesk ==
  /\ ~deskRead.asked
  /\ deskRead' = [NotRead EXCEPT !.asked = TRUE]
  /\ UNCHANGED <<desk, standing, inCharge, desked, action>>

ServeDesk ==
  /\ deskRead.asked /\ ~deskRead.served
  /\ deskRead' = [asked |-> TRUE, served |-> TRUE,
                  data |-> [e \in Entries |-> IF e \in inCharge THEN standing[e] ELSE "UNLISTED"]]
  /\ UNCHANGED <<desk, standing, inCharge, desked, action>>

DeskArrives ==
  /\ deskRead.served
  /\ desked' = deskRead.data /\ deskRead' = NotRead
  /\ UNCHANGED <<desk, standing, inCharge, action>>

DeskFails ==
  /\ deskRead.asked /\ deskRead' = NotRead
  /\ UNCHANGED <<desk, standing, inCharge, desked, action>>

OthersAct(e) ==
  /\ \E s \in DeskStatuses : standing' = [standing EXCEPT ![e] = s]
  /\ inCharge' \in {inCharge \cup {e}, inCharge \ {e}}
  /\ action' = IF action # NoAction /\ action.phase = "sent" /\ action.entry = e
               THEN [action EXCEPT !.current = FALSE] ELSE action
  /\ UNCHANGED <<desk, desked, deskRead>>

ActionNext ==
  \/ \E e \in Entries : PressAction(e) \/ OthersAct(e)
  \/ Perform \/ PutAnswer \/ ActionFails
  \/ ReadDesk \/ ServeDesk \/ DeskArrives \/ DeskFails

-----------------------------------------------------------------------------
(* Properties. *)

(* What a page offers is admitted by the server, for its status, if the    *)
(* list was right about the entry when the button was pressed and nobody   *)
(* else has acted on it since. The two tables are written independently,   *)
(* and neither is tested against the other.                                *)
PressesAreAdmitted ==
  action # NoAction /\ action.phase = "sent" /\ action.current => Admits(action.entry, action.op)
=============================================================================
