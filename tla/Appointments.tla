---------------------------- MODULE Appointments ----------------------------
(***************************************************************************)
(* The appointment service (modules/appointments): students book intervals *)
(* with offices, departments and professors; handlers approve, reject and  *)
(* complete them; both sides reschedule.                                   *)
(*                                                                         *)
(* A request checks the actor and the status on an access record it has    *)
(* read (Accept...), and writes later, by id, whatever the row has become. *)
(* Bookings look for conflicts inside their transaction, but at READ       *)
(* COMMITTED another booking may commit between that query and the write:  *)
(* the exclusion constraints of the database have the last word.           *)
(*                                                                         *)
(* Slots are the intervals that validateFutureTimeRange and                *)
(* checkAvailability let through. Requests that the first checks refuse    *)
(* leave no trace and are not actions, and the notification every commit   *)
(* hands over is not part of this module's state.                          *)
(***************************************************************************)
EXTENDS Naturals, Sequences

CONSTANTS Appointments, \* ids of appointment rows
          Students, Targets, Admins, Handlers,
          Charge,       \* Charge[h]: the targets that handler h acts for
          Slots,        \* intervals that can be asked for
          Workers,      \* requests the server runs at a time
          MaxHistory,   \* bound: reschedules of one appointment
          None          \* SQL NULL

ASSUME PeopleAssumption ==
  /\ Charge \in [Handlers -> SUBSET Targets]
  /\ Students # {} /\ Targets # {} /\ Slots # {}
ASSUME TimesAssumption ==
  /\ Slots \subseteq {s \in [start : Nat, end : Nat] : s.start < s.end}
  /\ MaxHistory \in Nat
  /\ None \notin Slots \cup [student : Students, target : Targets, slot : Slots]

VARIABLES
  status, slot, marks,  \* the mutable columns; marks: which of rejectionReason,
                        \* cancelledAt and completedAt are set
  student, target,      \* the columns fixed when it is created
  history,              \* AppointmentReschedule rows in commit order
  req                   \* what each worker is doing

row == <<status, slot, marks, student, target, history>>
vars == <<row, req>>

-----------------------------------------------------------------------------
ActiveStatuses == {"PENDING", "APPROVED", "RESCHEDULED"}
Statuses == ActiveStatuses \cup {"REJECTED", "CANCELLED", "COMPLETED"}
Approvable == {"PENDING", "RESCHEDULED"}
Cancellable == ActiveStatuses
Reschedulable == ActiveStatuses
Marks == {"rejectionReason", "cancelledAt", "completedAt"}

Actors == Students \cup Admins \cup Handlers
Reschedule == [old : Slots, new : Slots]

Idle == [op |-> "idle"]
CreateRequest == [op : {"create"}, phase : {"find", "write"},
                  student : Students, target : Targets, slot : Slots]
RescheduleRequest ==
  [op : {"reschedule"}, phase : {"read"}, appointment : Appointments, slot : Slots,
   active : BOOLEAN]
    \cup [op : {"reschedule"}, phase : {"find", "write"}, appointment : Appointments,
          slot : Slots, active : BOOLEAN, old : Slots]
StatusRequest == [op : {"approve", "reject", "cancel", "complete"},
                  appointment : Appointments, seen : Statuses]
Request == {Idle} \cup CreateRequest \cup RescheduleRequest \cup StatusRequest

Exists(a) == status[a] # "NONE"
Active(a) == status[a] \in ActiveStatuses

Diary == INSTANCE Calendar WITH
  booked <- [a \in Appointments |->
               IF Active(a)
                 THEN [student |-> student[a], target |-> target[a], slot |-> slot[a]]
                 ELSE None]

(* Types of every variable. *)
TypeOK ==
  /\ status \in [Appointments -> Statuses \cup {"NONE"}]
  /\ slot \in [Appointments -> Slots]
  /\ marks \in [Appointments -> SUBSET Marks]
  /\ student \in [Appointments -> Students]
  /\ target \in [Appointments -> Targets]
  /\ history \in [Appointments -> Seq(Reschedule)]
  /\ req \in [Workers -> Request]

Init ==
  /\ status = [a \in Appointments |-> "NONE"]
  /\ slot = [a \in Appointments |-> CHOOSE s \in Slots : TRUE]
  /\ marks = [a \in Appointments |-> {}]
  /\ student = [a \in Appointments |-> CHOOSE s \in Students : TRUE]
  /\ target = [a \in Appointments |-> CHOOSE t \in Targets : TRUE]
  /\ history = [a \in Appointments |-> << >>]
  /\ req = [w \in Workers |-> Idle]

-----------------------------------------------------------------------------
(* Steps shared by the operations. *)

CanHandle(p, a) == p \in Admins \/ (p \in Handlers /\ target[a] \in Charge[p])
CanCancel(p, a) == p \in Admins \/ p = student[a]
CanReschedule(p, a) == p = student[a] \/ CanHandle(p, a)

Accept(w, r) ==
  /\ req[w] = Idle
  /\ req' = [req EXCEPT ![w] = r]
  /\ UNCHANGED row
Respond(w) == req' = [req EXCEPT ![w] = Idle]

(* The active appointments of the student or the target at that time: what *)
(* findConflict looks for, and what the exclusion constraints refuse.      *)
Clashing(s, t, i, except) ==
  {o \in Appointments \ except :
     /\ Active(o)
     /\ Diary!Clash([student |-> s, target |-> t, slot |-> i],
                    [student |-> student[o], target |-> target[o], slot |-> slot[o]])}
Conflict(s, t, i, except) == Clashing(s, t, i, except) # {}
(* Mistaken variants stand before the definitions they vary, as in the     *)
(* other modules: here, one of the exclusion constraints is missing.       *)
ExcludedForStudent(a, s, t, i) == \E o \in Clashing(s, t, i, {a}) : student[o] = s
ExcludedForTarget(a, s, t, i) == \E o \in Clashing(s, t, i, {a}) : target[o] = t

Excluded(a, s, t, i) == Clashing(s, t, i, {a}) # {}

-----------------------------------------------------------------------------
(* createAppointment. *)
AcceptCreate(w, s, t, i) ==
  Accept(w, [op |-> "create", phase |-> "find", student |-> s, target |-> t, slot |-> i])

(* The conflict query of create; a conflict is answered with 409. *)
FindForCreate(w) ==
  LET r == req[w] IN
  /\ r.op = "create" /\ r.phase = "find"
  /\ req' = [req EXCEPT ![w] = IF Conflict(r.student, r.target, r.slot, {})
                                 THEN Idle ELSE [r EXCEPT !.phase = "write"]]
  /\ UNCHANGED row

CommitCreate(w, a) ==
  LET r == req[w] IN
  /\ r.op = "create" /\ r.phase = "write" /\ ~Exists(a)
  /\ ~Excluded(a, r.student, r.target, r.slot)
  /\ status' = [status EXCEPT ![a] = "PENDING"]
  /\ student' = [student EXCEPT ![a] = r.student]
  /\ target' = [target EXCEPT ![a] = r.target]
  /\ slot' = [slot EXCEPT ![a] = r.slot]
  /\ Respond(w)
  /\ UNCHANGED <<marks, history>>

-----------------------------------------------------------------------------
AcceptStatusUnapproved(w, p, a, op) ==
  /\ Exists(a)
  /\ \/ op \in {"approve", "reject"} /\ CanHandle(p, a) /\ status[a] \in Approvable
     \/ op = "cancel" /\ CanCancel(p, a) /\ status[a] \in Cancellable
     \/ op = "complete" /\ CanHandle(p, a) /\ Active(a)
  /\ Accept(w, [op |-> op, appointment |-> a, seen |-> status[a]])

(* approve, reject, cancel and complete: one UPDATE by id each. *)
AcceptStatus(w, p, a, op) ==
  /\ Exists(a)
  /\ \/ op \in {"approve", "reject"} /\ CanHandle(p, a) /\ status[a] \in Approvable
     \/ op = "cancel" /\ CanCancel(p, a) /\ status[a] \in Cancellable
     \/ op = "complete" /\ CanHandle(p, a) /\ status[a] = "APPROVED"
  /\ Accept(w, [op |-> op, appointment |-> a, seen |-> status[a]])

Update(a, s, m) ==
  /\ status' = [status EXCEPT ![a] = s]
  /\ marks' = [marks EXCEPT ![a] = m]
  /\ UNCHANGED <<slot, student, target, history>>

CommitStatus(w) ==
  LET r == req[w]
      a == r.appointment IN
  /\ \/ r.op = "approve" /\ ~Excluded(a, student[a], target[a], slot[a])
                         /\ Update(a, "APPROVED", marks[a] \ {"rejectionReason"})
     \/ r.op = "reject" /\ Update(a, "REJECTED", marks[a] \cup {"rejectionReason"})
     \/ r.op = "cancel" /\ Update(a, "CANCELLED", marks[a] \cup {"cancelledAt"})
     \/ r.op = "complete" /\ Update(a, "COMPLETED", marks[a] \cup {"completedAt"})
  /\ Respond(w)

-----------------------------------------------------------------------------
(* rescheduleAppointment: the transaction reads the current times, looks   *)
(* for conflicts, and writes the history row with the new times.           *)
AcceptReschedule(w, p, a, i) ==
  /\ Exists(a) /\ CanReschedule(p, a) /\ status[a] \in Reschedulable
  /\ Accept(w, [op |-> "reschedule", phase |-> "read", appointment |-> a, slot |-> i,
                active |-> Active(a)])

ReadForReschedule(w) ==
  LET r == req[w] IN
  /\ r.op = "reschedule" /\ r.phase = "read"
  /\ req' = [req EXCEPT ![w] = [op |-> "reschedule", phase |-> "find",
                                appointment |-> r.appointment, slot |-> r.slot,
                                active |-> r.active, old |-> slot[r.appointment]]]
  /\ UNCHANGED row

FindForReschedule(w) ==
  LET r == req[w]
      a == r.appointment IN
  /\ r.op = "reschedule" /\ r.phase = "find"
  /\ req' = [req EXCEPT ![w] = IF Conflict(student[a], target[a], r.slot, {a})
                                 THEN Idle ELSE [r EXCEPT !.phase = "write"]]
  /\ UNCHANGED row

RescheduleWith(w, entry, time, m) ==
  LET r == req[w]
      a == r.appointment IN
  /\ r.op = "reschedule" /\ r.phase = "write" /\ Len(history[a]) < MaxHistory
  /\ ~Excluded(a, student[a], target[a], r.slot)
  /\ history' = [history EXCEPT ![a] = Append(@, entry)]
  /\ slot' = [slot EXCEPT ![a] = time]
  /\ status' = [status EXCEPT ![a] = "RESCHEDULED"]
  /\ marks' = [marks EXCEPT ![a] = m]
  /\ Respond(w)
  /\ UNCHANGED <<student, target>>
RescheduleLogsNewOnly(w) == RescheduleWith(w, req[w].slot, req[w].slot, {})
RescheduleKeepsSlot(w) ==
  RescheduleWith(w, [old |-> req[w].old, new |-> req[w].slot], slot[req[w].appointment], {})

CommitReschedule(w) ==
  LET r == req[w]
      a == r.appointment IN
  /\ r.op = "reschedule" /\ r.phase = "write" /\ Len(history[a]) < MaxHistory
  /\ ~Excluded(a, student[a], target[a], r.slot)
  /\ history' = [history EXCEPT ![a] = Append(@, [old |-> r.old, new |-> r.slot])]
  /\ slot' = [slot EXCEPT ![a] = r.slot]
  /\ status' = [status EXCEPT ![a] = "RESCHEDULED"]
  /\ marks' = [marks EXCEPT ![a] = {}]
  /\ Respond(w)
  /\ UNCHANGED <<student, target>>

-----------------------------------------------------------------------------
(* A transaction is rolled back and the worker is free again: the          *)
(* exclusion constraint refused it (create and reschedule answer 409,      *)
(* approve an internal error), or the process was stopped.                 *)
Abandon(w) ==
  /\ req[w] # Idle
  /\ Respond(w)
  /\ UNCHANGED row

Next ==
  \E w \in Workers :
    \/ \E s \in Students, t \in Targets, i \in Slots : AcceptCreate(w, s, t, i)
    \/ \E p \in Actors, a \in Appointments :
         \/ \E op \in {"approve", "reject", "cancel", "complete"} : AcceptStatus(w, p, a, op)
         \/ \E i \in Slots : AcceptReschedule(w, p, a, i)
    \/ FindForCreate(w)
    \/ \E a \in Appointments : CommitCreate(w, a)
    \/ CommitStatus(w)
    \/ ReadForReschedule(w)
    \/ FindForReschedule(w)
    \/ CommitReschedule(w)
    \/ Abandon(w)

Spec == Init /\ [][Next]_vars

-----------------------------------------------------------------------------
(* Properties that hold however requests overlap.                          *)

(* The service implements the calendar: whatever races between the query   *)
(* for conflicts and the write, claims are as good as indivisible.         *)
ImplementsCalendar == Diary!Spec

(* No student and no target has two overlapping active appointments        *)
(* (appointments-api.md, Conflict Rules; migration 20260624155000).        *)
NoDoubleBooking == Diary!NoDoubleBooking

(* The reschedule history ends at the appointment's times and never names  *)
(* times as old that the appointment never had, even when reschedules race *)
(* (reschedule in the repository reads the old times without a lock).      *)
HistoryLeadsToSlot ==
  \A a \in Appointments : LET log == history[a] IN
    Len(log) > 0 =>
      /\ log[Len(log)].new = slot[a]
      /\ \A i \in DOMAIN log :
           log[i].old = log[1].old \/ \E j \in 1..(i - 1) : log[j].new = log[i].old

(* The lifecycle of the API document. *)
Lifecycle == [s \in Statuses |->
                CASE s \in {"PENDING", "RESCHEDULED"} -> {"APPROVED", "REJECTED", "CANCELLED", "RESCHEDULED"}
                  [] s = "APPROVED"   -> {"RESCHEDULED", "CANCELLED", "COMPLETED"}
                  [] OTHER            -> {}]
Overtaken(w, a) ==
  LET r == req[w] IN
  /\ r.op \in {"approve", "reject", "cancel", "complete", "reschedule"}
  /\ r.appointment = a
  /\ IF r.op = "reschedule" THEN r.active # Active(a) \/ (r.phase = "write" /\ r.old # slot[a])
                            ELSE r.seen # status[a]
  /\ req'[w] # r

(* The reschedule history is a chain, every row's old times being those    *)
(* the previous row moved the appointment to, and the marks (why it was    *)
(* rejected, when it was cancelled or completed) are those of the status.  *)
HistoryIsChain(a) ==
  \A i \in 2..Len(history[a]) : history[a][i].old = history[a][i - 1].new
MarksAreExact(a) ==
  marks[a] = CASE status[a] = "REJECTED"  -> {"rejectionReason"}
               [] status[a] = "CANCELLED" -> {"cancelledAt"}
               [] status[a] = "COMPLETED" -> {"completedAt"}
               [] OTHER                   -> {}
RecordIsExact(a) == HistoryIsChain(a) /\ MarksAreExact(a)

(* An appointment leaves its lifecycle, or its history and marks stop      *)
(* being exact, only through a request that was overtaken since it read    *)
(* the row: approval, rejection, cancellation, completion and rescheduling *)
(* check a status, and copy times, that may have changed when they write.  *)
Missteps(a) ==
  \/ Exists(a) /\ status'[a] # status[a] /\ status'[a] \notin Lifecycle[status[a]]
  \/ RecordIsExact(a) /\ ~RecordIsExact(a)'
OnlyOvertakenMisstep ==
  [][\A a \in Appointments : Missteps(a) => \E w \in Workers : Overtaken(w, a)]_vars

-----------------------------------------------------------------------------
(* What the documents promise, and overtaken requests break.               *)

(* appointments-api.md: approval is "allowed from PENDING or RESCHEDULED". *)
ApprovedFromAllowed ==
  [][\A a \in Appointments :
       status[a] # "APPROVED" /\ status'[a] = "APPROVED" =>
         status[a] \in {"PENDING", "RESCHEDULED"}]_vars
=============================================================================
