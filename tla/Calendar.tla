------------------------------ MODULE Calendar ------------------------------
(***************************************************************************)
(* What the appointment service promises about time: a calendar in which   *)
(* an appointment claims an interval for a student and a target in one     *)
(* indivisible step, and only while neither is taken at that time.         *)
(***************************************************************************)
EXTENDS Naturals

CONSTANTS Appointments, Students, Targets,
          Slots,        \* intervals [start, end), in any unit of time
          None          \* no booking

VARIABLE booked     \* booked[a]: what a holds, or None

Booking == [student : Students, target : Targets, slot : Slots]

Overlap(s, t) == s.start < t.end /\ t.start < s.end
Clash(b, c) ==
  /\ b.student = c.student \/ b.target = c.target
  /\ Overlap(b.slot, c.slot)

Init == booked = [a \in Appointments |-> None]

Claim(a, b) ==
  /\ \A o \in Appointments \ {a} : booked[o] # None => ~Clash(b, booked[o])
  /\ booked' = [booked EXCEPT ![a] = b]

Release(a) == booked' = [booked EXCEPT ![a] = None]

Next == \E a \in Appointments : Release(a) \/ \E b \in Booking : Claim(a, b)

Spec == Init /\ [][Next]_booked

(* Nobody is booked twice at the same time: a student across all targets,  *)
(* and a target across all students (appointments-api.md, Conflict Rules). *)
NoDoubleBooking ==
  \A a, o \in Appointments :
    a # o /\ booked[a] # None /\ booked[o] # None => ~Clash(booked[a], booked[o])
=============================================================================
