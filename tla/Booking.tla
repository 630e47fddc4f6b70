------------------------------ MODULE Booking ------------------------------
(***************************************************************************)
(* The booking form (StudentAppointmentForm): the slots it shows, the slot *)
(* selected, the time it sends, and the server's check of that time        *)
(* (assertAvailable, of module Availability, on the slots as they are).    *)
(*                                                                         *)
(* The slots of a target and a day are asked for whenever the target or    *)
(* the start time changes. No request is cancelled: the answer that comes  *)
(* last is shown. The selected slot is known by its start, and keeps being *)
(* selected while the slots shown have one with that start.                *)
(*                                                                         *)
(* A time is a day, a start and an end on it; a step of the hours is half  *)
(* an hour. Targets stand for those of all three types, the first of which *)
(* is selected. The browser's clock shows the time of Manila.              *)
(*                                                                         *)
(* Some definitions stand before the one they vary as an error of the code *)
(* would; the properties below notice every such error.                    *)
(***************************************************************************)
EXTENDS Naturals, FiniteSets

CONSTANTS Targets,      \* offices, departments and faculty members
          Days,         \* days of the calendar
          Hours,        \* starts
          Opening,      \* the time of a new form: tomorrow at nine
          Schedules,    \* sets of slots a target may publish
          MaxSlotReads, \* bound: requests for slots by one form
          MaxSlotEdits  \* bound: changes of the slots on the server

Times == {t \in [day : Days, from : Hours, to : Hours \cup {h + 1 : h \in Hours}] : t.from < t.to}

ASSUME BookingAssumption ==
  /\ Hours \subseteq Nat /\ MaxSlotReads \in Nat \ {0} /\ MaxSlotEdits \in Nat
  /\ Opening \in Times /\ Schedules \subseteq SUBSET Times

VARIABLES
  slots,      \* the slots the server offers, for each target
  target,     \* selectedTargetId
  time,       \* startTime and endTime
  key,        \* start of the selected slot, if any
  shown,      \* the slots shown
  asked,      \* requests for slots under way
  booking,    \* what the form waits for, if it has been sent
  reads, edits,  \* number of requests for slots, and of changes
  shownFor,   \* history: what the slots shown were asked for
  outdated    \* history: have slots changed since those shown were read?

readHistory == <<shownFor, outdated>>
bookingVars == <<slots, target, time, key, shown, asked, booking, reads, edits, readHistory>>

-----------------------------------------------------------------------------
Start(t) == [day |-> t.day, from |-> t.from]
Starts == {Start(t) : t \in Times}
NoKey == [day |-> 0, from |-> 0]
NotSent == [waits |-> FALSE]
NewRead(n, x, d) == [number |-> n, target |-> x, day |-> d, outdated |-> FALSE,
                     served |-> FALSE, data |-> {}]

OnDay(S, d) == {s \in S : s.day = d}
Selection == [target |-> target, day |-> time.day]

BookingTypeOK ==
  /\ slots \in [Targets -> SUBSET Times]
  /\ target \in Targets
  /\ time.day \in Days /\ {time.from, time.to} \subseteq Nat
  /\ key \in Starts \cup {NoKey}
  /\ shown \subseteq Times
  /\ \A r \in asked : r.target \in Targets /\ r.day \in Days /\ r.number \in 1..reads
  /\ booking = NotSent \/ (booking.target \in Targets /\ booking.time \in Times)
  /\ reads \in 0..MaxSlotReads /\ edits \in 0..MaxSlotEdits
  /\ shownFor \in [target : Targets, day : Days] /\ outdated \in BOOLEAN

(* The form as it opens on its first target: nothing is shown or selected, *)
(* and the slots of tomorrow are asked for.                                *)
Opened(x) ==
  [target |-> x, time |-> Opening, asked |-> {NewRead(1, x, Opening.day)},
   shownFor |-> [target |-> x, day |-> Opening.day]]

BookingInit ==
  /\ slots \in [Targets -> Schedules]
  /\ target \in Targets /\ time = Opening
  /\ key = NoKey /\ shown = {}
  /\ asked = Opened(target).asked
  /\ booking = NotSent
  /\ reads = 1 /\ edits = 0
  /\ shownFor = Opened(target).shownFor /\ outdated = FALSE

(* The page is left, with its answers to come, and opened again. *)
Reopen ==
  /\ \E x \in Targets :
       /\ target' = x /\ asked' = Opened(x).asked
       /\ shownFor' = Opened(x).shownFor
  /\ time' = Opening /\ reads' = 1
  /\ key' = NoKey /\ shown' = {} /\ booking' = NotSent /\ outdated' = FALSE

-----------------------------------------------------------------------------
(* The effect that asks for slots; it depends on the target and the start. *)
AskSlots ==
  IF target' = target /\ Start(time') = Start(time)
  THEN UNCHANGED <<asked, reads>>
  ELSE /\ reads < MaxSlotReads /\ reads' = reads + 1
       /\ asked' = asked \cup {NewRead(reads + 1, target', time'.day)}

(* The fields, which stay enabled while the form waits. chooseType and the *)
(* list of targets touch neither the slot nor the time.                    *)
ChooseTarget(x) ==
  /\ target' = x
  /\ UNCHANGED time /\ AskSlots
  /\ UNCHANGED <<slots, key, shown, booking, edits, readHistory>>

ChooseDate(d) ==
  /\ time' = [time EXCEPT !.day = d] /\ key' = NoKey
  /\ UNCHANGED target /\ AskSlots
  /\ UNCHANGED <<slots, shown, booking, edits, readHistory>>

ChooseStart(h) ==
  /\ time' = [time EXCEPT !.from = h, !.to = h + 1] /\ key' = NoKey
  /\ UNCHANGED target /\ AskSlots
  /\ UNCHANGED <<slots, shown, booking, edits, readHistory>>

ChooseEnd(h) ==
  /\ time' = [time EXCEPT !.to = h] /\ key' = NoKey
  /\ UNCHANGED <<slots, target, shown, asked, booking, reads, edits, readHistory>>

PickSlot(s) ==
  /\ s \in shown
  /\ key' = Start(s) /\ time' = s
  /\ UNCHANGED target /\ AskSlots
  /\ UNCHANGED <<slots, shown, booking, edits, readHistory>>

-----------------------------------------------------------------------------
(* Answers of the server, in any order. *)

ServeSlots(r) ==
  /\ r \in asked /\ ~r.served
  /\ asked' = (asked \ {r})
       \cup {[r EXCEPT !.served = TRUE, !.data = OnDay(slots[r.target], r.day)]}
  /\ UNCHANGED <<slots, target, time, key, shown, booking, reads, edits, readHistory>>

SlotsArriveKeepKey(r) ==
  /\ r \in asked /\ r.served
  /\ shown' = r.data
  /\ asked' = asked \ {r}
  /\ shownFor' = [target |-> r.target, day |-> r.day]
  /\ outdated' = r.outdated
  /\ UNCHANGED <<slots, target, time, key, booking, reads, edits>>

SlotsArrive(r) ==
  /\ r \in asked /\ r.served
  /\ shown' = r.data
  /\ key' = IF key \in {Start(s) : s \in r.data} THEN key ELSE NoKey
  /\ asked' = asked \ {r}
  /\ shownFor' = [target |-> r.target, day |-> r.day]
  /\ outdated' = r.outdated
  /\ UNCHANGED <<slots, target, time, booking, reads, edits>>

SlotsFail(r) ==
  /\ r \in asked
  /\ shown' = {} /\ key' = NoKey
  /\ asked' = asked \ {r}
  /\ shownFor' = [target |-> r.target, day |-> r.day]
  /\ outdated' = FALSE
  /\ UNCHANGED <<slots, target, time, booking, reads, edits>>

Publish(x, S) ==
  /\ slots' = [slots EXCEPT ![x] = S]
  /\ outdated' = (outdated \/ shownFor.target = x)
  /\ asked' = {IF r.served /\ r.target = x THEN [r EXCEPT !.outdated = TRUE] ELSE r : r \in asked}

(* Another student books, or the target changes its hours. *)
ChangeSlots(x) ==
  /\ edits < MaxSlotEdits /\ edits' = edits + 1
  /\ \/ \E t \in slots[x] : Publish(x, slots[x] \ {t})
     \/ \E S \in Schedules : Publish(x, S)
  /\ UNCHANGED <<target, time, key, shown, booking, reads, shownFor>>

-----------------------------------------------------------------------------
(* submit: the time of the form, for the target of the form, whatever the  *)
(* fields become afterwards.                                               *)

CanSubmit == key # NoKey

Send ==
  /\ booking = NotSent /\ CanSubmit
  /\ booking' = [waits |-> TRUE, target |-> target, time |-> time, taken |-> FALSE]
  /\ UNCHANGED <<slots, target, time, key, shown, asked, reads, edits, readHistory>>

(* createAppointment on the server, for a time that is offered. *)
TakeSlot ==
  /\ booking # NotSent /\ ~booking.taken /\ booking.time \in slots[booking.target]
  /\ Publish(booking.target, slots[booking.target] \ {booking.time})
  /\ booking' = [booking EXCEPT !.taken = TRUE]
  /\ UNCHANGED <<target, time, key, shown, reads, edits, shownFor>>

Booked ==
  /\ booking # NotSent /\ booking.taken
  /\ Reopen
  /\ UNCHANGED <<slots, edits>>

(* The time is not offered, or 15 s have passed: the form shows an error.  *)
(* A request that is still on its way is as good as another student's.     *)
NotBooked ==
  /\ booking # NotSent
  /\ booking' = NotSent
  /\ UNCHANGED <<slots, target, time, key, shown, asked, reads, edits, readHistory>>

Cancel ==
  /\ Reopen
  /\ UNCHANGED <<slots, edits>>

BookingNext ==
  \/ \E x \in Targets : ChooseTarget(x) \/ ChangeSlots(x)
  \/ \E d \in Days : ChooseDate(d)
  \/ \E h \in Hours : ChooseStart(h) \/ ChooseEnd(h)
  \/ \E s \in shown : PickSlot(s)
  \/ \E r \in asked : ServeSlots(r) \/ SlotsArrive(r) \/ SlotsFail(r)
  \/ Send \/ TakeSlot \/ Booked \/ NotBooked \/ Cancel

-----------------------------------------------------------------------------
(* Properties. *)

(* A form that can be sent names, by its start, a slot its target offers,  *)
(* unless answers are still to come or came for another selection, or      *)
(* slots have changed since they were read. The end it sends is that of    *)
(* the slot picked: it differs from the slot's when another slot with the  *)
(* same start has taken its place, of another target or after a change.    *)
SelectionIsOffered ==
  key # NoKey =>
    /\ key = Start(time) /\ key \in {Start(s) : s \in shown}
    /\ shownFor = Selection /\ ~outdated => key \in {Start(s) : s \in slots[target]}
=============================================================================
