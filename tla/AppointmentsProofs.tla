------------------------- MODULE AppointmentsProofs -------------------------
(***************************************************************************)
(* Theorems about Appointments, for any number of appointments, people,    *)
(* intervals and overlapping requests.                                     *)
(***************************************************************************)
EXTENDS Appointments, TLAPS

USE PeopleAssumption, TimesAssumption

(***************************************************************************)
(* What a step can do, with the worker and its request named.              *)
(***************************************************************************)

(* The operation of a request tells which kind of request it is. *)
LEMMA RequestKinds ==
  ASSUME NEW r \in Request
  PROVE  /\ r.op = "create" => r \in CreateRequest
         /\ r.op = "reschedule" => r \in RescheduleRequest
         /\ r.op \in {"approve", "reject", "cancel", "complete"} => r \in StatusRequest
BY DEF Request, Idle, CreateRequest, RescheduleRequest, StatusRequest

(* What a reschedule keeps of the appointment is typed in every phase. *)
LEMMA ReschedulePhases ==
  ASSUME NEW r \in RescheduleRequest
  PROVE  /\ r.appointment \in Appointments /\ r.slot \in Slots
         /\ r.op = "reschedule" /\ r.active \in BOOLEAN
         /\ r.phase # "read" => r.old \in Slots
         /\ r.phase = "read" =>
              r \in [op : {"reschedule"}, phase : {"read"}, appointment : Appointments,
                     slot : Slots, active : BOOLEAN]
         /\ r.phase # "read" =>
              r \in [op : {"reschedule"}, phase : {"find", "write"},
                     appointment : Appointments, slot : Slots, active : BOOLEAN, old : Slots]
BY DEF RescheduleRequest

(* The checks of a request write nothing but the worker's request. *)
AcceptSome(w) ==
  \/ \E s \in Students, t \in Targets, i \in Slots : AcceptCreate(w, s, t, i)
  \/ \E p \in Actors, a \in Appointments :
       \/ \E op \in {"approve", "reject", "cancel", "complete"} : AcceptStatus(w, p, a, op)
       \/ \E i \in Slots : AcceptReschedule(w, p, a, i)

LEMMA AcceptStep ==
  ASSUME NEW w \in Workers, TypeOK, AcceptSome(w)
  PROVE  \E r \in Request : Accept(w, r)
<1>1. ASSUME NEW s \in Students, NEW t \in Targets, NEW i \in Slots, AcceptCreate(w, s, t, i)
      PROVE  \E r \in Request : Accept(w, r)
  BY <1>1 DEF AcceptCreate, Request, CreateRequest
<1>2. ASSUME NEW p \in Actors, NEW a \in Appointments,
             NEW op \in {"approve", "reject", "cancel", "complete"}, AcceptStatus(w, p, a, op)
      PROVE  \E r \in Request : Accept(w, r)
  <2>1. status[a] \in Statuses
    BY <1>2 DEF AcceptStatus, Exists, TypeOK
  <2>. QED
    BY <1>2, <2>1 DEF AcceptStatus, Request, StatusRequest
<1>3. ASSUME NEW p \in Actors, NEW a \in Appointments, NEW i \in Slots,
             AcceptReschedule(w, p, a, i)
      PROVE  \E r \in Request : Accept(w, r)
  <2>1. [op |-> "reschedule", phase |-> "read", appointment |-> a, slot |-> i,
         active |-> Active(a)] \in Request
    BY DEF Request, RescheduleRequest, Active
  <2>. QED
    BY <1>3, <2>1 DEF AcceptReschedule
<1>. QED
  BY <1>1, <1>2, <1>3 DEF AcceptSome

(* A step is one operation of one worker, or changes nothing. *)
LEMMA StepCases ==
  ASSUME [Next]_vars
  PROVE  \/ UNCHANGED vars
         \/ \E w \in Workers :
              \/ AcceptSome(w) \/ Abandon(w)
              \/ FindForCreate(w) \/ ReadForReschedule(w) \/ FindForReschedule(w)
              \/ \E a \in Appointments : CommitCreate(w, a)
              \/ CommitStatus(w) \/ CommitReschedule(w)
BY DEF Next, AcceptSome

(* Checks, reads, conflict queries and failures leave the rows alone. *)
LEMMA QuietSteps ==
  ASSUME TypeOK, NEW w \in Workers,
         AcceptSome(w) \/ Abandon(w) \/ FindForCreate(w) \/ ReadForReschedule(w)
           \/ FindForReschedule(w)
  PROVE  UNCHANGED row
<1>1. CASE AcceptSome(w)
  BY <1>1, AcceptStep DEF Accept
<1>. QED
  BY <1>1 DEF Abandon, FindForCreate, ReadForReschedule, FindForReschedule

-----------------------------------------------------------------------------
(* Every variable keeps its type: rows, histories and requests. *)
THEOREM TypeCorrect == Spec => []TypeOK
<1>1. Init => TypeOK
  BY DEF Init, TypeOK, Request
<1>2. TypeOK /\ [Next]_vars => TypeOK'
  <2>. SUFFICES ASSUME TypeOK, [Next]_vars PROVE TypeOK'
    OBVIOUS
  <2>0. /\ req \in [Workers -> Request] /\ Idle \in Request
        /\ slot \in [Appointments -> Slots]
        /\ status \in [Appointments -> Statuses \cup {"NONE"}]
        /\ marks \in [Appointments -> SUBSET Marks]
    BY DEF TypeOK, Request
  <2>1. CASE UNCHANGED vars
    BY <2>1 DEF TypeOK, vars, row
  <2>2. ASSUME NEW w \in Workers, NEW r \in Request, req' = [req EXCEPT ![w] = r],
               UNCHANGED row
        PROVE  TypeOK'
    BY <2>0, <2>2 DEF TypeOK, row
  <2>3. ASSUME NEW w \in Workers, Respond(w) PROVE req' \in [Workers -> Request]
    BY <2>0, <2>3 DEF Respond
  <2>4. ASSUME NEW w \in Workers, AcceptSome(w) PROVE TypeOK'
    <3>1. PICK r \in Request : Accept(w, r)
      BY <2>4, AcceptStep
    <3>. QED
      BY <2>2, <3>1 DEF Accept
  <2>5. ASSUME NEW w \in Workers, Abandon(w) PROVE TypeOK'
    BY <2>0, <2>2, <2>5 DEF Abandon, Respond
  <2>6. ASSUME NEW w \in Workers, FindForCreate(w) PROVE TypeOK'
    <3>1. req[w] \in CreateRequest
      BY <2>0, <2>6, RequestKinds DEF FindForCreate
    <3>2. [req[w] EXCEPT !.phase = "write"] \in Request
      BY <3>1 DEF CreateRequest, Request
    <3>. QED
      BY <2>0, <2>2, <2>6, <3>2 DEF FindForCreate
  <2>7. ASSUME NEW w \in Workers, ReadForReschedule(w) PROVE TypeOK'
    <3>. DEFINE r == req[w]
                next == [op |-> "reschedule", phase |-> "find", appointment |-> r.appointment,
                         slot |-> r.slot, active |-> r.active, old |-> slot[r.appointment]]
    <3>1. /\ r \in RescheduleRequest /\ r.phase = "read"
          /\ r.appointment \in Appointments
      BY <2>0, <2>7, RequestKinds, ReschedulePhases DEF ReadForReschedule
    <3>2. next \in Request
      BY <2>0, <3>1, ReschedulePhases DEF Request, RescheduleRequest
    <3>. QED
      BY <2>2, <2>7, <3>2 DEF ReadForReschedule
  <2>8. ASSUME NEW w \in Workers, FindForReschedule(w) PROVE TypeOK'
    <3>1. req[w] \in RescheduleRequest /\ req[w].phase = "find"
      BY <2>0, <2>8, RequestKinds DEF FindForReschedule
    <3>2. [req[w] EXCEPT !.phase = "write"] \in Request
      BY <3>1, ReschedulePhases DEF RescheduleRequest, Request
    <3>. QED
      BY <2>0, <2>2, <2>8, <3>2 DEF FindForReschedule
  <2>9. ASSUME NEW w \in Workers, NEW a \in Appointments, CommitCreate(w, a) PROVE TypeOK'
    <3>1. req[w] \in CreateRequest
      BY <2>0, <2>9, RequestKinds DEF CommitCreate
    <3>. QED
      BY <2>3, <2>9, <3>1 DEF CommitCreate, CreateRequest, TypeOK, Statuses, ActiveStatuses
  <2>10. ASSUME NEW w \in Workers, CommitStatus(w) PROVE TypeOK'
    <3>. DEFINE a == req[w].appointment
    <3>1. a \in Appointments
      BY <2>0, <2>10, RequestKinds DEF CommitStatus, StatusRequest
    <3>2. ASSUME NEW s \in Statuses, NEW m \in SUBSET Marks, Update(a, s, m), Respond(w)
          PROVE  TypeOK'
      BY <2>0, <2>3, <3>1, <3>2 DEF Update, TypeOK
    <3>3. /\ marks[a] \ {"rejectionReason"} \in SUBSET Marks
          /\ marks[a] \cup {"rejectionReason"} \in SUBSET Marks
          /\ marks[a] \cup {"cancelledAt"} \in SUBSET Marks
          /\ marks[a] \cup {"completedAt"} \in SUBSET Marks
      BY <2>0, <3>1 DEF Marks
    <3>. QED
      BY <2>10, <3>2, <3>3 DEF CommitStatus, Statuses, ActiveStatuses
  <2>11. ASSUME NEW w \in Workers, CommitReschedule(w) PROVE TypeOK'
    <3>. DEFINE r == req[w]  a == r.appointment
    <3>1. a \in Appointments /\ r.slot \in Slots /\ r.old \in Slots
      BY <2>0, <2>11, RequestKinds, ReschedulePhases DEF CommitReschedule
    <3>2. history' \in [Appointments -> Seq(Reschedule)]
      <4>1. [old |-> r.old, new |-> r.slot] \in Reschedule
        BY <3>1 DEF Reschedule
      <4>2. history \in [Appointments -> Seq(Reschedule)]
        BY DEF TypeOK
      <4>. QED
        BY <2>11, <3>1, <4>1, <4>2 DEF CommitReschedule
    <3>. QED
      BY <2>3, <2>11, <3>1, <3>2 DEF CommitReschedule, TypeOK, Statuses, ActiveStatuses
  <2>. QED
    BY <2>1, <2>4, <2>5, <2>6, <2>7, <2>8, <2>9, <2>10, <2>11, StepCases
<1>. QED
  BY <1>1, <1>2, PTL DEF Spec

-----------------------------------------------------------------------------
(***************************************************************************)
(* The calendar: a write that leaves an appointment active passed the      *)
(* exclusion constraints, and is a claim of Calendar; any other write      *)
(* releases the appointment's time.                                        *)
(***************************************************************************)

(* What an appointment holds, as Calendar sees it. *)
Held(a) == [student |-> student[a], target |-> target[a], slot |-> slot[a]]
Booked == [a \in Appointments |-> IF Active(a) THEN Held(a) ELSE None]

(* A write leaves the other appointments alone. *)
KeepsOthers(a) ==
  \A o \in Appointments \ {a} : status'[o] = status[o] /\ Held(o)' = Held(o)

(* A row that is left active, and passed the constraints, is a claim. *)
LEMMA WriteClaims ==
  ASSUME TypeOK, NEW a \in Appointments, NEW s \in Students, NEW t \in Targets, NEW i \in Slots,
         ~Excluded(a, s, t, i),
         status'[a] \in ActiveStatuses, student'[a] = s, target'[a] = t, slot'[a] = i,
         KeepsOthers(a)
  PROVE  [Diary!Next]_Booked
<1>. DEFINE b == [student |-> s, target |-> t, slot |-> i]
<1>1. b \in Diary!Booking
  BY DEF Diary!Booking
<1>2. ASSUME NEW o \in Appointments \ {a}, Booked[o] # None
      PROVE  ~Diary!Clash(b, Booked[o])
  <2>1. Active(o) /\ Booked[o] = Held(o)
    BY <1>2 DEF Booked
  <2>. QED
    BY <1>2, <2>1 DEF Excluded, Clashing, Held
<1>3. Booked' = [Booked EXCEPT ![a] = b]
  <2>1. Held(a)' = b
    BY DEF Held
  <2>. QED
    BY <2>1 DEF Booked, KeepsOthers, Active
<1>4. Diary!Claim(a, b)
  BY <1>2, <1>3 DEF Diary!Claim, Booked, Held
<1>. QED
  BY <1>1, <1>4 DEF Diary!Next

(* A row that is left inactive is a release, or was inactive before. *)
LEMMA WriteReleases ==
  ASSUME TypeOK, NEW a \in Appointments, status'[a] \notin ActiveStatuses,
         KeepsOthers(a)
  PROVE  [Diary!Next]_Booked
<1>1. Booked' = [Booked EXCEPT ![a] = None]
  BY DEF Booked, KeepsOthers, Active
<1>2. Diary!Release(a)
  BY <1>1 DEF Diary!Release, Booked, Held
<1>. QED
  BY <1>2 DEF Diary!Next

(* Every step of the service is a step of the calendar, or leaves it. *)
LEMMA StepImplementsCalendar ==
  ASSUME TypeOK, [Next]_vars
  PROVE  [Diary!Next]_Booked
<1>0. /\ status \in [Appointments -> Statuses \cup {"NONE"}]
      /\ slot \in [Appointments -> Slots]
      /\ student \in [Appointments -> Students]
      /\ target \in [Appointments -> Targets]
      /\ req \in [Workers -> Request]
  BY DEF TypeOK
<1>1. ASSUME UNCHANGED row PROVE [Diary!Next]_Booked
  BY <1>1 DEF row, Booked, Held, Active
<1>2. ASSUME NEW w \in Workers, NEW a \in Appointments, CommitCreate(w, a)
      PROVE  [Diary!Next]_Booked
  <2>. DEFINE r == req[w]
  <2>1. r.student \in Students /\ r.target \in Targets /\ r.slot \in Slots
    BY <1>0, <1>2, RequestKinds DEF CommitCreate, CreateRequest
  <2>2. /\ ~Excluded(a, r.student, r.target, r.slot)
        /\ status'[a] \in ActiveStatuses /\ student'[a] = r.student /\ target'[a] = r.target /\ slot'[a] = r.slot
    BY <1>0, <1>2 DEF CommitCreate, Active, ActiveStatuses
  <2>3. KeepsOthers(a)
    BY <1>0, <1>2 DEF CommitCreate, KeepsOthers, Held
  <2>. QED
    BY <2>1, <2>2, <2>3, WriteClaims
<1>3. ASSUME NEW w \in Workers, CommitStatus(w) PROVE [Diary!Next]_Booked
  <2>. DEFINE a == req[w].appointment
  <2>1. a \in Appointments
    BY <1>0, <1>3, RequestKinds DEF CommitStatus, StatusRequest
  <2>2. ASSUME NEW s \in Statuses, NEW m, Update(a, s, m)
        PROVE  status'[a] = s /\ UNCHANGED <<student, target, slot>> /\ KeepsOthers(a)
    BY <1>0, <2>1, <2>2 DEF Update, KeepsOthers, Held
  <2>3. CASE /\ ~Excluded(a, student[a], target[a], slot[a])
             /\ Update(a, "APPROVED", marks[a] \ {"rejectionReason"})
    <3>1. /\ status'[a] = "APPROVED" /\ UNCHANGED <<student, target, slot>>
          /\ KeepsOthers(a)
      BY <2>2, <2>3 DEF Statuses, ActiveStatuses
    <3>2. status'[a] \in ActiveStatuses
      BY <3>1 DEF Active, ActiveStatuses
    <3>. QED
      BY <1>0, <2>1, <2>3, <3>1, <3>2, WriteClaims
  <2>4. ASSUME NEW s \in {"REJECTED", "CANCELLED", "COMPLETED"}, NEW m, Update(a, s, m)
        PROVE  [Diary!Next]_Booked
    <3>1. s \in Statuses \ ActiveStatuses
      BY DEF Statuses, ActiveStatuses
    <3>2. status'[a] \notin ActiveStatuses /\ KeepsOthers(a)
      BY <2>2, <2>4, <3>1 DEF Active
    <3>. QED
      BY <2>1, <3>2, WriteReleases
  <2>. QED
    BY <1>3, <2>3, <2>4 DEF CommitStatus
<1>4. ASSUME NEW w \in Workers, CommitReschedule(w) PROVE [Diary!Next]_Booked
  <2>. DEFINE r == req[w]  a == r.appointment
  <2>1. a \in Appointments /\ r.slot \in Slots
    BY <1>0, <1>4, RequestKinds, ReschedulePhases DEF CommitReschedule
  <2>2. /\ ~Excluded(a, student[a], target[a], r.slot)
        /\ status' = [status EXCEPT ![a] = "RESCHEDULED"]
        /\ slot' = [slot EXCEPT ![a] = r.slot]
        /\ student' = student /\ target' = target
    BY <1>4 DEF CommitReschedule
  <2>3. /\ status'[a] \in ActiveStatuses /\ student'[a] = student[a] /\ target'[a] = target[a]
        /\ slot'[a] = r.slot
    BY <1>0, <2>1, <2>2 DEF Active, ActiveStatuses
  <2>4. KeepsOthers(a)
    BY <1>0, <2>1, <2>2 DEF KeepsOthers, Held
  <2>5. student[a] \in Students /\ target[a] \in Targets
    BY <1>0, <2>1
  <2>. HIDE DEF a, r
  <2>. QED
    BY <2>1, <2>2, <2>3, <2>4, <2>5, WriteClaims
<1>. QED
  BY <1>1, <1>2, <1>3, <1>4, StepCases, QuietSteps DEF vars

(* The service implements the calendar, whatever bookings, approvals and   *)
(* reschedules race between the conflict query and the write.              *)
THEOREM CalendarImplemented == Spec => ImplementsCalendar
<1>1. Init => Diary!Init
  BY DEF Init, Diary!Init, Active, ActiveStatuses
<1>2. TypeOK /\ [Next]_vars => [Diary!Next]_Booked
  BY StepImplementsCalendar
<1>. QED
  BY <1>1, <1>2, TypeCorrect, PTL DEF Spec, ImplementsCalendar, Diary!Spec, Booked, Held

(* Claims keep the calendar free of clashes. *)
LEMMA CalendarKeeps ==
  ASSUME NoDoubleBooking, [Diary!Next]_Booked
  PROVE  NoDoubleBooking'
<1>1. \A a, o \in Appointments :
        a # o /\ Booked[a] # None /\ Booked[o] # None => ~Diary!Clash(Booked[a], Booked[o])
  BY DEF NoDoubleBooking, Diary!NoDoubleBooking, Booked, Held
<1>2. SUFFICES \A a, o \in Appointments :
                 a # o /\ Booked'[a] # None /\ Booked'[o] # None
                   => ~Diary!Clash(Booked'[a], Booked'[o])
  BY DEF NoDoubleBooking, Diary!NoDoubleBooking, Booked, Held
<1>3. CASE UNCHANGED Booked
  BY <1>1, <1>3
<1>4. CASE Diary!Next
  <2>1. PICK a \in Appointments :
          \/ Booked' = [Booked EXCEPT ![a] = None]
          \/ \E b \in Diary!Booking :
               /\ \A o \in Appointments \ {a} : Booked[o] # None => ~Diary!Clash(b, Booked[o])
               /\ Booked' = [Booked EXCEPT ![a] = b]
    BY <1>4 DEF Diary!Next, Diary!Claim, Diary!Release, Booked, Held
  <2>2. \A b, c : Diary!Clash(b, c) => Diary!Clash(c, b)
    BY DEF Diary!Clash, Diary!Overlap
  <2>3. Booked = [o \in Appointments |-> Booked[o]]
    BY DEF Booked
  <2>. QED
    BY <1>1, <2>1, <2>2, <2>3
<1>. QED
  BY <1>3, <1>4

(* Nobody is booked twice at the same time, whatever requests race         *)
(* (appointments-api.md, Conflict Rules).                                  *)
THEOREM NobodyBookedTwice == Spec => []NoDoubleBooking
<1>1. Init => NoDoubleBooking
  BY DEF Init, NoDoubleBooking, Diary!NoDoubleBooking, Active, ActiveStatuses
<1>2. TypeOK /\ NoDoubleBooking /\ [Next]_vars => NoDoubleBooking'
  BY StepImplementsCalendar, CalendarKeeps
<1>. QED
  BY <1>1, <1>2, TypeCorrect, PTL DEF Spec

-----------------------------------------------------------------------------
(***************************************************************************)
(* HistoryLeadsToSlot. Times that a reschedule read may be old when it     *)
(* writes, but the appointment had them: they are those it was booked for, *)
(* or a row of its history moved it there.                                 *)
(***************************************************************************)
HadIn(log, now, i) ==
  IF log = << >> THEN i = now
  ELSE i = log[1].old \/ \E j \in DOMAIN log : log[j].new = i
Had(a, i) == HadIn(history[a], slot[a], i)

LeadsToSlot(a) ==
  LET log == history[a] IN
    Len(log) > 0 =>
      /\ log[Len(log)].new = slot[a]
      /\ \A i \in DOMAIN log :
           log[i].old = log[1].old \/ \E j \in 1..(i - 1) : log[j].new = log[i].old

HistoryInv ==
  /\ \A a \in Appointments : LeadsToSlot(a)
  /\ \A a \in Appointments : ~Exists(a) => history[a] = << >>
  /\ \A w \in Workers :
       req[w].op = "reschedule" =>
         /\ Exists(req[w].appointment)
         /\ req[w].phase # "read" => Had(req[w].appointment, req[w].old)

(* An appointment has had the times it has. *)
LEMMA HadCurrent ==
  ASSUME TypeOK, NEW a \in Appointments, LeadsToSlot(a)
  PROVE  Had(a, slot[a])
<1>1. history[a] \in Seq(Reschedule)
  BY DEF TypeOK
<1>2. CASE history[a] = << >>
  BY <1>2 DEF Had, HadIn
<1>3. CASE history[a] # << >>
  <2>1. Len(history[a]) > 0 /\ Len(history[a]) \in DOMAIN history[a]
    BY <1>1, <1>3
  <2>. QED
    BY <1>3, <2>1 DEF Had, HadIn, LeadsToSlot
<1>. QED
  BY <1>2, <1>3

(* A further row, from times the appointment had, leads to its new times;  *)
(* and what it had, it has had.                                            *)
LEMMA AppendLeads ==
  ASSUME TypeOK, NEW a \in Appointments, NEW old \in Slots, NEW new \in Slots,
         LeadsToSlot(a), Had(a, old), slot'[a] = new,
         history'[a] = Append(history[a], [old |-> old, new |-> new])
  PROVE  /\ LeadsToSlot(a)'
         /\ \A i \in Slots : Had(a, i) => Had(a, i)'
<1>. DEFINE log == history[a]  n == Len(log)  entry == [old |-> old, new |-> new]
            log2 == Append(log, entry)
<1>1. log \in Seq(Reschedule) /\ entry \in Reschedule
  BY DEF TypeOK, Reschedule
<1>2. /\ n \in Nat /\ Len(log2) = n + 1
      /\ DOMAIN log = 1..n /\ DOMAIN log2 = 1..(n + 1)
      /\ log2[n + 1] = entry /\ \A i \in 1..n : log2[i] = log[i]
  BY <1>1
<1>3. entry.old = old /\ entry.new = new
  OBVIOUS
<1>4. n > 0 => \A i \in 1..n : log[i].old = log[1].old \/ \E j \in 1..(i - 1) : log[j].new = log[i].old
  BY <1>2 DEF LeadsToSlot
<1>5. log = << >> <=> n = 0
  BY <1>1
<1>6. ASSUME NEW i, Had(a, i)
      PROVE  IF n = 0 THEN i = slot[a] ELSE i = log[1].old \/ \E j \in 1..n : log[j].new = i
  BY <1>2, <1>5, <1>6 DEF Had, HadIn
<1>7. history'[a] = log2
  OBVIOUS
<1>. HIDE DEF log, log2, n, entry
<1>8. \A i \in 1..n : log2[i] = log[i] /\ (n > 0 => log2[1] = log[1])
  <2>1. n > 0 => 1 \in 1..n
    BY <1>2
  <2>. QED
    BY <1>2, <2>1
<1>9. ASSUME NEW i \in 1..(n + 1)
      PROVE  log2[i].old = log2[1].old \/ \E j \in 1..(i - 1) : log2[j].new = log2[i].old
  <2>1. CASE i = n + 1
    <3>1. CASE n = 0
      BY <2>1, <3>1
    <3>2. CASE n > 0
      <4>1. old = log[1].old \/ \E j \in 1..n : log[j].new = old
        BY <1>6, <3>2
      <4>2. log2[i].old = old /\ i - 1 = n /\ 1 \in 1..n
        BY <1>2, <1>3, <2>1, <3>2
      <4>. QED
        BY <1>8, <3>2, <4>1, <4>2
    <3>. QED
      BY <1>2, <3>1, <3>2
  <2>2. CASE i \in 1..n
    <3>1. log[i].old = log[1].old \/ \E j \in 1..(i - 1) : log[j].new = log[i].old
      BY <1>2, <1>4, <2>2
    <3>2. log2[i] = log[i] /\ log2[1] = log[1] /\ \A j \in 1..(i - 1) : log2[j] = log[j]
      <4>1. \A j \in 1..(i - 1) : j \in 1..n
        BY <1>2, <2>2
      <4>. QED
        BY <1>2, <1>8, <2>2, <4>1
    <3>. QED
      BY <3>1, <3>2
  <2>. QED
    BY <1>2, <2>1, <2>2
<1>10. LeadsToSlot(a)'
  <2>1. log2[Len(log2)].new = slot'[a]
    BY <1>2, <1>3
  <2>. QED
    BY <1>2, <1>7, <1>9, <2>1 DEF LeadsToSlot
<1>11. ASSUME NEW i \in Slots, Had(a, i) PROVE Had(a, i)'
  <2>1. log2 # << >>
    BY <1>2
  <2>2. i = log2[1].old \/ \E j \in 1..(n + 1) : log2[j].new = i
    <3>1. CASE n = 0
      <4>1. i = old
        BY <1>6, <1>11, <3>1
      <4>. QED
        BY <1>2, <1>3, <3>1, <4>1
    <3>2. CASE n > 0
      <4>1. i = log[1].old \/ \E j \in 1..n : log[j].new = i
        BY <1>6, <1>11, <3>2
      <4>2. 1 \in 1..n /\ \A j \in 1..n : j \in 1..(n + 1)
        BY <1>2, <3>2
      <4>. QED
        BY <1>8, <3>2, <4>1, <4>2
    <3>. QED
      BY <1>2, <3>1, <3>2
  <2>. QED
    BY <1>2, <1>7, <2>1, <2>2 DEF Had, HadIn
<1>. QED
  BY <1>10, <1>11

(* Histories, and the times that reschedules in progress have read, stay   *)
(* consistent.                                                             *)
LEMMA HistoryInvariant == Spec => []HistoryInv
<1>1. Init => HistoryInv
  BY DEF Init, HistoryInv, LeadsToSlot, Idle
<1>2. TypeOK /\ HistoryInv /\ [Next]_vars => HistoryInv'
  <2>. SUFFICES ASSUME TypeOK, HistoryInv, [Next]_vars PROVE HistoryInv'
    OBVIOUS
  <2>0. /\ status \in [Appointments -> Statuses \cup {"NONE"}]
        /\ slot \in [Appointments -> Slots]
        /\ history \in [Appointments -> Seq(Reschedule)]
        /\ req \in [Workers -> Request]
    BY DEF TypeOK
  <2>. DEFINE Fine(r) == r.op = "reschedule" =>
                           /\ Exists(r.appointment)
                           /\ r.phase # "read" => Had(r.appointment, r.old)
  <2>1. CASE UNCHANGED vars
    BY <2>1 DEF HistoryInv, LeadsToSlot, Had, Exists, vars, row
  <2>2. ASSUME NEW w \in Workers, NEW r, req' = [req EXCEPT ![w] = r], UNCHANGED row, Fine(r)
        PROVE  HistoryInv'
    <3>1. \A v \in Workers : Fine(req'[v])
      BY <2>0, <2>2 DEF HistoryInv
    <3>2. UNCHANGED <<status, slot, history>>
      BY <2>2 DEF row
    <3>3. \A a \in Appointments :
            LeadsToSlot(a)' /\ (~Exists(a)' => history'[a] = << >>)
      BY <3>2 DEF HistoryInv, LeadsToSlot, Exists
    <3>4. \A v \in Workers :
            (req[v].op = "reschedule" =>
               /\ Exists(req[v].appointment)
               /\ req[v].phase # "read" => Had(req[v].appointment, req[v].old))'
      BY <3>1, <3>2 DEF Exists, Had
    <3>. QED
      BY <3>3, <3>4 DEF HistoryInv
  <2>3. ASSUME NEW w \in Workers, AcceptSome(w) PROVE HistoryInv'
    <3>1. \A r : Accept(w, r) /\ Fine(r) => HistoryInv'
      BY <2>2 DEF Accept
    <3>2. ASSUME NEW p \in Actors, NEW a \in Appointments, NEW i \in Slots,
                 AcceptReschedule(w, p, a, i)
          PROVE  HistoryInv'
      <4>1. Fine([op |-> "reschedule", phase |-> "read", appointment |-> a, slot |-> i,
                  active |-> Active(a)])
        BY <3>2 DEF AcceptReschedule
      <4>. QED
        BY <3>1, <3>2, <4>1 DEF AcceptReschedule
    <3>3. ASSUME NEW p \in Actors, NEW a \in Appointments,
                 NEW op \in {"approve", "reject", "cancel", "complete"},
                 AcceptStatus(w, p, a, op)
          PROVE  HistoryInv'
      BY <3>1, <3>3 DEF AcceptStatus
    <3>4. ASSUME NEW s \in Students, NEW t \in Targets, NEW i \in Slots,
                 AcceptCreate(w, s, t, i)
          PROVE  HistoryInv'
      BY <3>1, <3>4 DEF AcceptCreate
    <3>. QED
      BY <2>3, <3>2, <3>3, <3>4 DEF AcceptSome
  <2>4. Fine(Idle)
    BY DEF Idle
  <2>5. ASSUME NEW w \in Workers, Abandon(w) PROVE HistoryInv'
    BY <2>2, <2>4, <2>5 DEF Abandon, Respond
  <2>6. ASSUME NEW w \in Workers, FindForCreate(w) PROVE HistoryInv'
    <3>1. req[w] \in CreateRequest
      BY <2>0, <2>6, RequestKinds DEF FindForCreate
    <3>2. Fine([req[w] EXCEPT !.phase = "write"])
      BY <3>1 DEF CreateRequest
    <3>. QED
      BY <2>2, <2>4, <2>6, <3>2 DEF FindForCreate
  <2>7. ASSUME NEW w \in Workers, ReadForReschedule(w) PROVE HistoryInv'
    <3>. DEFINE r == req[w]  a == r.appointment
                next == [op |-> "reschedule", phase |-> "find", appointment |-> a,
                         slot |-> r.slot, active |-> r.active, old |-> slot[a]]
    <3>1. a \in Appointments /\ Exists(a)
      BY <2>0, <2>7, RequestKinds, ReschedulePhases DEF ReadForReschedule, HistoryInv
    <3>2. Had(a, slot[a])
      BY <3>1, HadCurrent DEF HistoryInv
    <3>3. Fine(next)
      BY <3>1, <3>2
    <3>. QED
      BY <2>2, <2>7, <3>3 DEF ReadForReschedule
  <2>8. ASSUME NEW w \in Workers, FindForReschedule(w) PROVE HistoryInv'
    <3>1. req[w] \in RescheduleRequest /\ req[w].phase = "find" /\ Fine(req[w])
      BY <2>0, <2>8, RequestKinds DEF FindForReschedule, HistoryInv
    <3>2. Fine([req[w] EXCEPT !.phase = "write"])
      BY <3>1, ReschedulePhases DEF RescheduleRequest
    <3>. QED
      BY <2>2, <2>4, <2>8, <3>2 DEF FindForReschedule
  <2>9. ASSUME NEW w \in Workers, Respond(w),
               \A b \in Appointments : LeadsToSlot(b)',
               \A b \in Appointments : ~Exists(b)' => history'[b] = << >>,
               \A b \in Appointments, i \in Slots :
                 Exists(b) /\ Had(b, i) => HadIn(history'[b], slot'[b], i),
               \A b \in Appointments : Exists(b) => status'[b] # "NONE"
        PROVE  HistoryInv'
    <3>1. ASSUME NEW v \in Workers, req'[v].op = "reschedule"
          PROVE  /\ req'[v].appointment \in Appointments
                 /\ Exists(req[v].appointment)
                 /\ req'[v] = req[v]
                 /\ req[v].phase # "read" =>
                      req[v].old \in Slots /\ Had(req[v].appointment, req[v].old)
      <4>1. req'[v] = req[v]
        BY <2>0, <2>9, <3>1 DEF Respond, Idle
      <4>. QED
        BY <2>0, <3>1, <4>1, RequestKinds, ReschedulePhases DEF HistoryInv
    <3>2. ASSUME NEW v \in Workers, req'[v].op = "reschedule"
          PROVE  /\ status'[req'[v].appointment] # "NONE"
                 /\ req'[v].phase # "read" =>
                      HadIn(history'[req'[v].appointment], slot'[req'[v].appointment],
                            req'[v].old)
      BY <2>9, <3>1, <3>2
    <3>. QED
      BY <2>9, <3>2 DEF HistoryInv, Had, Exists
  <2>10. ASSUME NEW w \in Workers, Respond(w), UNCHANGED history, NEW a \in Appointments,
                \A b \in Appointments \ {a} : status'[b] = status[b] /\ slot'[b] = slot[b],
                status'[a] # "NONE", Exists(a) => slot'[a] = slot[a]
         PROVE  HistoryInv'
    <3>1. \A b \in Appointments : slot'[b] = slot[b] \/ history[b] = << >>
      BY <2>10 DEF HistoryInv
    <3>2. \A b \in Appointments : LeadsToSlot(b)'
      BY <2>0, <2>10, <3>1 DEF HistoryInv, LeadsToSlot
    <3>3. \A b \in Appointments : Exists(b) => status'[b] # "NONE" /\ slot'[b] = slot[b]
      BY <2>10 DEF Exists
    <3>4. \A b \in Appointments : ~Exists(b)' => history'[b] = << >>
      BY <2>10 DEF HistoryInv, Exists
    <3>5. \A b \in Appointments, i \in Slots :
            Exists(b) /\ Had(b, i) => HadIn(history'[b], slot'[b], i)
      BY <2>10, <3>3 DEF Had
    <3>. QED
      BY <2>9, <2>10, <3>2, <3>3, <3>4, <3>5
  <2>11. ASSUME NEW w \in Workers, NEW a \in Appointments, CommitCreate(w, a)
         PROVE  HistoryInv'
    BY <2>0, <2>10, <2>11 DEF CommitCreate
  <2>12. ASSUME NEW w \in Workers, CommitStatus(w) PROVE HistoryInv'
    <3>. DEFINE a == req[w].appointment
    <3>1. a \in Appointments
      BY <2>0, <2>12, RequestKinds DEF CommitStatus, StatusRequest
    <3>2. ASSUME NEW s \in Statuses, NEW m, Update(a, s, m), Respond(w) PROVE HistoryInv'
      <4>1. s # "NONE"
        BY DEF Statuses, ActiveStatuses
      <4>. QED
        BY <2>0, <2>10, <3>1, <3>2, <4>1 DEF Update
    <3>. HIDE DEF a
    <3>. QED
      BY <2>12, <3>2 DEF CommitStatus, Statuses, ActiveStatuses, a
  <2>13. ASSUME NEW w \in Workers, CommitReschedule(w) PROVE HistoryInv'
    <3>. DEFINE r == req[w]  a == r.appointment
    <3>1. /\ a \in Appointments /\ r.slot \in Slots /\ r.old \in Slots
          /\ Exists(a) /\ Had(a, r.old)
      BY <2>0, <2>13, RequestKinds, ReschedulePhases DEF CommitReschedule, HistoryInv
    <3>2. /\ history' = [history EXCEPT ![a] = Append(@, [old |-> r.old, new |-> r.slot])]
          /\ slot' = [slot EXCEPT ![a] = r.slot]
          /\ status' = [status EXCEPT ![a] = "RESCHEDULED"]
          /\ Respond(w)
      BY <2>13 DEF CommitReschedule
    <3>. SUFFICES ASSUME NEW b \in Appointments, b = a, NEW old \in Slots, old = r.old,
                         NEW new \in Slots, new = r.slot
                  PROVE  HistoryInv'
      BY <3>1
    <3>3. /\ history'[b] = Append(history[b], [old |-> old, new |-> new]) /\ slot'[b] = new
          /\ \A o \in Appointments \ {b} : /\ history'[o] = history[o] /\ slot'[o] = slot[o]
                                           /\ status'[o] = status[o]
          /\ status'[b] # "NONE" /\ Exists(b) /\ Had(b, old) /\ LeadsToSlot(b)
      BY <2>0, <3>1, <3>2 DEF HistoryInv
    <3>4. LeadsToSlot(b)' /\ \A i \in Slots : Had(b, i) => Had(b, i)'
      BY <3>3, AppendLeads
    <3>5. \A o \in Appointments : LeadsToSlot(o)'
      <4>1. ASSUME NEW o \in Appointments \ {b} PROVE LeadsToSlot(o)'
        <5>1. LeadsToSlot(o) /\ history'[o] = history[o] /\ slot'[o] = slot[o]
          BY <3>3 DEF HistoryInv
        <5>. QED
          BY <5>1 DEF LeadsToSlot
      <4>. QED
        BY <3>4, <4>1
    <3>6. \A o \in Appointments, i \in Slots :
            Exists(o) /\ Had(o, i) => HadIn(history'[o], slot'[o], i)
      BY <3>3, <3>4 DEF Had
    <3>7. /\ \A o \in Appointments : ~Exists(o)' => history'[o] = << >>
          /\ \A o \in Appointments : Exists(o) => status'[o] # "NONE"
      BY <3>3 DEF HistoryInv, Exists
    <3>. QED
      BY <2>9, <3>2, <3>5, <3>6, <3>7
  <2>. QED
    BY <2>1, <2>3, <2>5, <2>6, <2>7, <2>8, <2>11, <2>12, <2>13, StepCases
<1>. QED
  BY <1>1, <1>2, TypeCorrect, PTL DEF Spec

(* The history of an appointment leads to its times, and every old time it *)
(* names is one the appointment had, however reschedules race.             *)
THEOREM HistoryExplainsSlot == Spec => []HistoryLeadsToSlot
<1>1. HistoryInv => HistoryLeadsToSlot
  BY DEF HistoryInv, HistoryLeadsToSlot, LeadsToSlot
<1>. QED
  BY <1>1, HistoryInvariant, PTL

-----------------------------------------------------------------------------
(***************************************************************************)
(* OnlyOvertakenMisstep: what a request writes follows its lifecycle, and  *)
(* keeps the record exact, from the row as the request saw it.             *)
(***************************************************************************)
Checked(r) ==
  /\ r.op \in {"approve", "reject"} => r.seen \in Approvable
  /\ r.op = "cancel" => r.seen \in Cancellable
  /\ r.op = "complete" => r.seen = "APPROVED"
  /\ r.op = "reschedule" => r.active
CheckedInv == \A w \in Workers : Checked(req[w])

(* Requests in progress keep the checks they passed on what they saw. *)
LEMMA CheckedInductive == TypeOK /\ CheckedInv /\ [Next]_vars => CheckedInv'
<1>. SUFFICES ASSUME TypeOK, CheckedInv, [Next]_vars PROVE CheckedInv'
  OBVIOUS
<1>0. req \in [Workers -> Request]
  BY DEF TypeOK
<1>1. CASE UNCHANGED vars
  BY <1>1 DEF CheckedInv, vars
<1>2. ASSUME NEW w \in Workers, NEW r, req' = [req EXCEPT ![w] = r], Checked(r)
      PROVE  CheckedInv'
  BY <1>0, <1>2 DEF CheckedInv
<1>3. Checked(Idle)
  BY DEF Checked, Idle
<1>4. ASSUME NEW w \in Workers, AcceptSome(w) PROVE CheckedInv'
  <2>1. ASSUME NEW s \in Students, NEW t \in Targets, NEW i \in Slots, AcceptCreate(w, s, t, i)
        PROVE  CheckedInv'
    BY <1>2, <2>1 DEF AcceptCreate, Accept, Checked
  <2>2. ASSUME NEW p \in Actors, NEW a \in Appointments,
               NEW op \in {"approve", "reject", "cancel", "complete"}, AcceptStatus(w, p, a, op)
        PROVE  CheckedInv'
    BY <1>2, <2>2 DEF AcceptStatus, Accept, Checked
  <2>3. ASSUME NEW p \in Actors, NEW a \in Appointments, NEW i \in Slots,
               AcceptReschedule(w, p, a, i)
        PROVE  CheckedInv'
    BY <1>2, <2>3 DEF AcceptReschedule, Accept, Checked, Active, Reschedulable
  <2>. QED
    BY <1>4, <2>1, <2>2, <2>3 DEF AcceptSome
<1>5. ASSUME NEW w \in Workers, Abandon(w) \/ Respond(w) PROVE CheckedInv'
  BY <1>2, <1>3, <1>5 DEF Abandon, Respond
<1>6. ASSUME NEW w \in Workers, FindForCreate(w) PROVE CheckedInv'
  <2>1. req[w] \in CreateRequest
    BY <1>0, <1>6, RequestKinds DEF FindForCreate
  <2>2. Checked([req[w] EXCEPT !.phase = "write"])
    BY <2>1 DEF CreateRequest, Checked
  <2>. QED
    BY <1>2, <1>3, <1>6, <2>2 DEF FindForCreate
<1>7. ASSUME NEW w \in Workers, ReadForReschedule(w) PROVE CheckedInv'
  BY <1>2, <1>7 DEF ReadForReschedule, Checked, CheckedInv
<1>8. ASSUME NEW w \in Workers, FindForReschedule(w) PROVE CheckedInv'
  <2>1. req[w] \in RescheduleRequest /\ req[w].phase = "find" /\ req[w].active
    BY <1>0, <1>8, RequestKinds DEF FindForReschedule, Checked, CheckedInv
  <2>2. Checked([req[w] EXCEPT !.phase = "write"])
    BY <2>1, ReschedulePhases DEF Checked
  <2>. QED
    BY <1>2, <1>3, <1>8, <2>2 DEF FindForReschedule
<1>. QED
  BY <1>1, <1>4, <1>5, <1>6, <1>7, <1>8, StepCases
  DEF CommitCreate, CommitStatus, CommitReschedule

(* Marks that belong to a status. *)
MarksOf(s) ==
  CASE s = "REJECTED"  -> {"rejectionReason"}
    [] s = "CANCELLED" -> {"cancelledAt"}
    [] s = "COMPLETED" -> {"completedAt"}
    [] OTHER           -> {}

(* An appointment whose row and history stay has not been led astray. *)
LEMMA UntouchedIsFine ==
  ASSUME NEW a \in Appointments, status'[a] = status[a], marks'[a] = marks[a],
         history'[a] = history[a]
  PROVE  ~Missteps(a)
BY DEF Missteps, RecordIsExact, HistoryIsChain, MarksAreExact

(* A request that nobody overtook leads its appointment along the          *)
(* lifecycle, and keeps its history and marks exact.                       *)
LEMMA StepIsFine ==
  ASSUME TypeOK, CheckedInv, HistoryInv, [Next]_vars, NEW a \in Appointments, Missteps(a)
  PROVE  \E w \in Workers : Overtaken(w, a)
<1>0. /\ status \in [Appointments -> Statuses \cup {"NONE"}]
      /\ slot \in [Appointments -> Slots]
      /\ marks \in [Appointments -> SUBSET Marks]
      /\ history \in [Appointments -> Seq(Reschedule)]
      /\ req \in [Workers -> Request]
  BY DEF TypeOK
<1>1. CASE UNCHANGED row
  BY <1>1, UntouchedIsFine DEF row
<1>2. ASSUME NEW s, NEW m, status'[a] = s, marks'[a] = m, history'[a] = history[a],
             s = status[a] \/ ~Exists(a) \/ s \in Lifecycle[status[a]],
             MarksAreExact(a) => m = MarksOf(s)
      PROVE  FALSE
  BY <1>2 DEF Missteps, RecordIsExact, HistoryIsChain, MarksAreExact, MarksOf
<1>3. ASSUME NEW w \in Workers, NEW c \in Appointments, CommitCreate(w, c) PROVE FALSE
  <2>1. c = a
    BY <1>0, <1>3, UntouchedIsFine DEF CommitCreate
  <2>2. /\ status'[a] = "PENDING" /\ ~Exists(a) /\ marks'[a] = marks[a]
        /\ history'[a] = history[a]
    BY <1>0, <1>3, <2>1 DEF CommitCreate
  <2>3. MarksAreExact(a) => marks[a] = MarksOf("PENDING")
    BY <2>2 DEF MarksAreExact, MarksOf, Exists
  <2>. QED
    BY <1>2, <2>2, <2>3
<1>4. ASSUME NEW w \in Workers, CommitStatus(w) PROVE Overtaken(w, a)
  <2>. DEFINE r == req[w]
  <2>1. r \in StatusRequest /\ r.op \in {"approve", "reject", "cancel", "complete"}
    BY <1>0, <1>4, RequestKinds DEF CommitStatus
  <2>2. req'[w] = Idle /\ Idle # r
    BY <1>0, <1>4, <2>1 DEF CommitStatus, Respond, Idle
  <2>3. ASSUME NEW s, NEW m, Update(r.appointment, s, m)
        PROVE  /\ r.appointment # a =>
                    status'[a] = status[a] /\ marks'[a] = marks[a] /\ history'[a] = history[a]
               /\ r.appointment = a =>
                    status'[a] = s /\ marks'[a] = m /\ history'[a] = history[a]
    BY <1>0, <2>1, <2>3 DEF Update, StatusRequest
  <2>4. r.appointment = a
    BY <1>4, <2>3, UntouchedIsFine DEF CommitStatus
  <2>5. ASSUME r.seen = status[a] PROVE FALSE
    <3>1. Checked(r)
      BY DEF CheckedInv
    <3>2. ASSUME r.op = "approve", Update(a, "APPROVED", marks[a] \ {"rejectionReason"})
          PROVE  FALSE
      <4>1. status[a] \in Approvable
        BY <2>5, <3>1, <3>2 DEF Checked
      <4>2. "APPROVED" \in Lifecycle[status[a]]
        BY <4>1 DEF Approvable, Lifecycle, Statuses, ActiveStatuses
      <4>3. MarksAreExact(a) => marks[a] \ {"rejectionReason"} = MarksOf("APPROVED")
        BY <4>1 DEF MarksAreExact, MarksOf, Approvable
      <4>. QED
        BY <1>2, <2>3, <2>4, <3>2, <4>2, <4>3
    <3>3. ASSUME r.op = "reject", Update(a, "REJECTED", marks[a] \cup {"rejectionReason"})
          PROVE  FALSE
      <4>1. status[a] \in Approvable
        BY <2>5, <3>1, <3>3 DEF Checked
      <4>2. "REJECTED" \in Lifecycle[status[a]]
        BY <4>1 DEF Approvable, Lifecycle, Statuses, ActiveStatuses
      <4>3. MarksAreExact(a) => marks[a] \cup {"rejectionReason"} = MarksOf("REJECTED")
        BY <4>1 DEF MarksAreExact, MarksOf, Approvable
      <4>. DEFINE m == marks[a] \cup {"rejectionReason"}
      <4>4. status'[a] = "REJECTED" /\ marks'[a] = m /\ history'[a] = history[a]
        BY <2>3, <2>4, <3>3
      <4>5. MarksAreExact(a) => m = MarksOf("REJECTED")
        BY <4>3
      <4>. HIDE DEF m
      <4>. QED
        BY <1>2, <4>2, <4>4, <4>5
    <3>4. ASSUME r.op = "cancel", Update(a, "CANCELLED", marks[a] \cup {"cancelledAt"})
          PROVE  FALSE
      <4>1. status[a] \in ActiveStatuses
        BY <2>5, <3>1, <3>4 DEF Checked, Cancellable
      <4>2. "CANCELLED" \in Lifecycle[status[a]]
        BY <4>1 DEF Lifecycle, Statuses, ActiveStatuses
      <4>3. MarksAreExact(a) => marks[a] \cup {"cancelledAt"} = MarksOf("CANCELLED")
        BY <4>1 DEF MarksAreExact, MarksOf, ActiveStatuses
      <4>. DEFINE m == marks[a] \cup {"cancelledAt"}
      <4>4. status'[a] = "CANCELLED" /\ marks'[a] = m /\ history'[a] = history[a]
        BY <2>3, <2>4, <3>4
      <4>5. MarksAreExact(a) => m = MarksOf("CANCELLED")
        BY <4>3
      <4>. HIDE DEF m
      <4>. QED
        BY <1>2, <4>2, <4>4, <4>5
    <3>5. ASSUME r.op = "complete", Update(a, "COMPLETED", marks[a] \cup {"completedAt"})
          PROVE  FALSE
      <4>1. status[a] = "APPROVED"
        BY <2>5, <3>1, <3>5 DEF Checked
      <4>2. "COMPLETED" \in Lifecycle[status[a]]
        BY <4>1 DEF Lifecycle, Statuses, ActiveStatuses
      <4>3. MarksAreExact(a) => marks[a] \cup {"completedAt"} = MarksOf("COMPLETED")
        BY <4>1 DEF MarksAreExact, MarksOf
      <4>. DEFINE m == marks[a] \cup {"completedAt"}
      <4>4. status'[a] = "COMPLETED" /\ marks'[a] = m /\ history'[a] = history[a]
        BY <2>3, <2>4, <3>5
      <4>5. MarksAreExact(a) => m = MarksOf("COMPLETED")
        BY <4>3
      <4>. HIDE DEF m
      <4>. QED
        BY <1>2, <4>2, <4>4, <4>5
    <3>. QED
      BY <1>4, <2>4, <3>2, <3>3, <3>4, <3>5 DEF CommitStatus
  <2>. QED
    BY <2>1, <2>2, <2>4, <2>5 DEF Overtaken
<1>5. ASSUME NEW w \in Workers, CommitReschedule(w) PROVE Overtaken(w, a)
  <2>. DEFINE r == req[w]  entry == [old |-> r.old, new |-> r.slot]
  <2>1. /\ r.op = "reschedule" /\ r.phase = "write" /\ r.appointment \in Appointments
        /\ r.old \in Slots /\ r.slot \in Slots /\ r.active
    BY <1>0, <1>5, RequestKinds, ReschedulePhases DEF CommitReschedule, CheckedInv, Checked
  <2>2. req'[w] = Idle /\ Idle # r
    BY <1>0, <1>5, <2>1 DEF CommitReschedule, Respond, Idle
  <2>3. /\ history' = [history EXCEPT ![r.appointment] = Append(@, entry)]
        /\ status' = [status EXCEPT ![r.appointment] = "RESCHEDULED"]
        /\ marks' = [marks EXCEPT ![r.appointment] = {}]
    BY <1>5 DEF CommitReschedule
  <2>4. r.appointment = a
    BY <1>0, <2>1, <2>3, UntouchedIsFine
  <2>5. ASSUME Active(a), r.old = slot[a] PROVE FALSE
    <3>1. status'[a] = status[a] \/ status'[a] \in Lifecycle[status[a]]
      BY <1>0, <2>3, <2>4, <2>5 DEF Active, Lifecycle, Statuses, ActiveStatuses
    <3>2. MarksAreExact(a)'
      BY <1>0, <2>3, <2>4 DEF MarksAreExact
    <3>3. ASSUME HistoryIsChain(a) PROVE HistoryIsChain(a)'
      <4>. DEFINE log == history[a]  n == Len(log)
      <4>1. log \in Seq(Reschedule) /\ entry \in Reschedule
        BY <1>0, <2>1 DEF Reschedule
      <4>2. history'[a] = Append(log, entry)
        BY <1>0, <2>3, <2>4
      <4>3. n > 0 => log[n].new = r.old
        BY <2>5 DEF HistoryInv, LeadsToSlot
      <4>4. /\ n \in Nat /\ Len(Append(log, entry)) = n + 1
            /\ Append(log, entry)[n + 1] = entry
            /\ \A i \in 1..n : Append(log, entry)[i] = log[i]
        BY <4>1
      <4>5. \A i \in 2..n : log[i].old = log[i - 1].new
        BY <3>3 DEF HistoryIsChain
      <4>. HIDE DEF log, n
      <4>6. ASSUME NEW i \in 2..(n + 1)
            PROVE  Append(log, entry)[i].old = Append(log, entry)[i - 1].new
        <5>1. i = n + 1 \/ i \in 2..n
          BY <4>4
        <5>2. CASE i = n + 1
          <6>1. n > 0 /\ i - 1 = n /\ n \in 1..n
            BY <4>4, <5>2
          <6>. QED
            BY <4>3, <4>4, <5>2, <6>1
        <5>3. CASE i \in 2..n
          <6>1. i \in 1..n /\ i - 1 \in 1..n
            BY <4>4, <5>3
          <6>. QED
            BY <4>4, <4>5, <5>3, <6>1
        <5>. QED
          BY <5>1, <5>2, <5>3
      <4>. QED
        BY <4>2, <4>4, <4>6 DEF HistoryIsChain
    <3>. QED
      BY <3>1, <3>2, <3>3 DEF Missteps, RecordIsExact
  <2>. QED
    BY <2>1, <2>2, <2>4, <2>5 DEF Overtaken
<1>. QED
  BY <1>1, <1>3, <1>4, <1>5, StepCases, QuietSteps DEF vars

(* Only a request that was overtaken since it read the row leaves the      *)
(* lifecycle or spoils the record of an appointment, in any instance       *)
(* (appointment.service.ts).                                               *)
THEOREM MisstepsAreOvertaken == Spec => OnlyOvertakenMisstep
<1>. DEFINE Fine == \A a \in Appointments : Missteps(a) => \E w \in Workers : Overtaken(w, a)
<1>1. TypeOK /\ CheckedInv /\ HistoryInv /\ [Next]_vars => Fine
  BY StepIsFine
<1>2. Init => CheckedInv
  BY DEF Init, CheckedInv, Checked, Idle
<1>3. Fine => [\A a \in Appointments : Missteps(a) => \E w \in Workers : Overtaken(w, a)]_vars
  OBVIOUS
<1>. HIDE DEF Fine
<1>. QED
  BY <1>1, <1>2, <1>3, CheckedInductive, HistoryInvariant, TypeCorrect, PTL
  DEF Spec, OnlyOvertakenMisstep
=============================================================================
