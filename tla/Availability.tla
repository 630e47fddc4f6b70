---------------------------- MODULE Availability ----------------------------
(***************************************************************************)
(* Weekly availability schedules (modules/appointments/availability): the  *)
(* windows in which an office, a department or a professor takes           *)
(* appointments, each cut into slots of one duration. The slots are        *)
(* computed twice, by getBookableSlots to offer them and by                *)
(* checkAvailability to accept a booking.                                  *)
(*                                                                         *)
(* createAvailability and updateAvailability look for an overlapping       *)
(* schedule before they write, without a transaction; an update is         *)
(* validated as the row it read with the fields it changes, but writes     *)
(* only the fields it changes.                                             *)
(***************************************************************************)
EXTENDS Integers, FiniteSets, TLC

CONSTANTS Ids,        \* ids of availability rows
          Targets, Admins, Managers,
          Charge,     \* Charge[m]: the targets whose schedules m manages
          Days,       \* days of the week
          MaxMinute,  \* bound: the last minute of a day
          Ticks,      \* instants in a minute
          Windows,    \* schedules that can be asked for
          Patches,    \* updates that can be asked for: functions on some fields
          Workers, None

Fields == {"day", "start", "end", "duration", "active"}
Window == [day : Days, start : 0..MaxMinute, end : 0..MaxMinute,
           duration : 1..MaxMinute, active : BOOLEAN]

ASSUME InputsAssumption ==
  /\ MaxMinute \in Nat /\ Ticks \in Nat \ {0}
  /\ Charge \in [Managers -> SUBSET Targets]
  /\ Windows \subseteq Window
  /\ \A p \in Patches : DOMAIN p \subseteq Fields /\ \A v \in Window : (p @@ v) \in Window
  /\ None \notin [target : Targets, window : Window]

VARIABLES schedule,   \* schedule[i]: the row with id i, or None
          req,        \* what each worker is doing
          overtaken   \* history: workers at a request since whose start
                      \* another one has written

vars == <<schedule, req, overtaken>>

Idle == [op |-> "idle"]
Row == [target : Targets, window : Window]
Request ==
  {Idle} \cup [op : {"create"}, row : Row]
         \cup [op : {"checkUpdate"}, id : Ids, patch : Patches, seen : Row]
         \cup [op : {"update"}, id : Ids, patch : Patches]
         \cup [op : {"delete"}, id : Ids]

Init ==
  /\ schedule = [i \in Ids |-> None]
  /\ req = [w \in Workers |-> Idle]
  /\ overtaken = {}

-----------------------------------------------------------------------------
(* The slots of the schedules. *)

Exists(i) == schedule[i] # None
OfDay(t, d) ==
  {schedule[i].window : i \in {j \in Ids :
     /\ Exists(j)
     /\ schedule[j].target = t
     /\ schedule[j].window.day = d /\ schedule[j].window.active}}

Overlap(v, w) == v.start < w.end /\ w.start < v.end

(* Mistaken variants stand before the definitions they vary, as in the     *)
(* other modules.                                                          *)
GridWithoutLast(v) ==
  {[start |-> Ticks * m, end |-> Ticks * (m + v.duration)] :
     m \in {n \in v.start..v.end : /\ (n - v.start) % v.duration = 0
                                   /\ n + v.duration < v.end}}

(* getBookableSlots: every step of the window that ends within it and that *)
(* no reserved interval overlaps, in instants.                             *)
Grid(v) ==
  {[start |-> Ticks * m, end |-> Ticks * (m + v.duration)] :
     m \in {n \in v.start..v.end : /\ (n - v.start) % v.duration = 0
                                   /\ n + v.duration <= v.end}}
Bookable(t, d, reserved) ==
  {s \in UNION {Grid(v) : v \in OfDay(t, d)} : \A r \in reserved : ~Overlap(r, s)}

(* checkAvailability: the local times are formatted as HH:mm, which drops  *)
(* what is beyond the minute; the duration is compared exactly.            *)
Minute(instant) == instant \div Ticks
Available(t, d, s) ==
  \E v \in OfDay(t, d) :
    /\ Minute(s.start) >= v.start
    /\ Minute(s.end) <= v.end
    /\ s.end - s.start = Ticks * v.duration
    /\ (Minute(s.start) - v.start) % v.duration = 0

-----------------------------------------------------------------------------
(* Keeping the schedules. *)

CanManage(p, t) == p \in Admins \/ (p \in Managers /\ t \in Charge[p])

(* validateAvailabilityWindow, and what the table itself checks.           *)
ValidWindow(v) == v.end > v.start /\ v.end - v.start >= v.duration
TableCheck(v) == v.end > v.start

OverlapsSchedule(t, v, except) ==
  \E i \in Ids \ except :
    /\ Exists(i)
    /\ schedule[i].target = t
    /\ schedule[i].window.active /\ schedule[i].window.day = v.day
    /\ Overlap(v, schedule[i].window)

Step(w, r) ==
  /\ req' = [req EXCEPT ![w] = r]
  /\ overtaken' = IF r = Idle THEN overtaken \ {w} ELSE overtaken
  /\ UNCHANGED schedule
Write(w, i, row) ==
  /\ schedule' = [schedule EXCEPT ![i] = row]
  /\ req' = [req EXCEPT ![w] = Idle]
  /\ overtaken' = {x \in Workers \ {w} : req[x] # Idle}

AcceptCreate(w, p, t, v) ==
  /\ req[w] = Idle /\ CanManage(p, t)
  /\ ValidWindow(v)
  /\ v.active => ~OverlapsSchedule(t, v, {})
  /\ Step(w, [op |-> "create", row |-> [target |-> t, window |-> v]])

CommitCreate(w, i) ==
  /\ req[w].op = "create" /\ ~Exists(i) /\ TableCheck(req[w].row.window)
  /\ Write(w, i, req[w].row)

AcceptUpdate(w, p, i, patch) ==
  /\ req[w] = Idle /\ Exists(i) /\ CanManage(p, schedule[i].target)
  /\ ValidWindow(patch @@ schedule[i].window)
  /\ Step(w, [op |-> "checkUpdate", id |-> i, patch |-> patch, seen |-> schedule[i]])

CheckOldWindow(w) ==
  LET r == req[w]
      v == r.seen.window IN
  /\ r.op = "checkUpdate"
  /\ Step(w, IF v.active /\ OverlapsSchedule(r.seen.target, v, {r.id})
               THEN Idle ELSE [op |-> "update", id |-> r.id, patch |-> r.patch])

CheckUpdate(w) ==
  LET r == req[w]
      v == r.patch @@ r.seen.window IN
  /\ r.op = "checkUpdate"
  /\ Step(w, IF v.active /\ OverlapsSchedule(r.seen.target, v, {r.id})
               THEN Idle ELSE [op |-> "update", id |-> r.id, patch |-> r.patch])

UpdateReplaces(w) ==
  LET r == req[w] IN
  /\ r.op = "update" /\ Exists(r.id)
  /\ TableCheck(r.patch @@ schedule[r.id].window)
  /\ Write(w, r.id, [schedule[r.id] EXCEPT !.window = r.patch])

CommitUpdate(w) ==
  LET r == req[w] IN
  /\ r.op = "update" /\ Exists(r.id)
  /\ TableCheck(r.patch @@ schedule[r.id].window)
  /\ Write(w, r.id, [schedule[r.id] EXCEPT !.window = r.patch @@ @])

AcceptDelete(w, p, i) ==
  /\ req[w] = Idle /\ Exists(i) /\ CanManage(p, schedule[i].target)
  /\ Step(w, [op |-> "delete", id |-> i])

CommitDelete(w) ==
  /\ req[w].op = "delete" /\ Exists(req[w].id)
  /\ Write(w, req[w].id, None)

(* The write fails, because the row is gone or the table check refuses it, *)
(* or the process stops.                                                   *)
Abandon(w) ==
  /\ req[w] # Idle
  /\ Step(w, Idle)

Next ==
  \E w \in Workers :
    \/ \E p \in Admins \cup Managers :
         \/ \E t \in Targets, v \in Windows : AcceptCreate(w, p, t, v)
         \/ \E i \in Ids : AcceptDelete(w, p, i) \/ \E q \in Patches : AcceptUpdate(w, p, i, q)
    \/ \E i \in Ids : CommitCreate(w, i)
    \/ CheckUpdate(w)
    \/ CommitUpdate(w)
    \/ CommitDelete(w)
    \/ Abandon(w)

Spec == Init /\ [][Next]_vars

-----------------------------------------------------------------------------
(* Properties that hold however requests overlap.                          *)

(* Types of every variable. Every stored window begins before it ends,     *)
(* although updates that touch one field each may have been checked        *)
(* against each other's old values (updateAvailability; the table's time   *)
(* check).                                                                 *)
TypeOK ==
  /\ schedule \in [Ids -> Row \cup {None}]
  /\ \A i \in Ids : Exists(i) => schedule[i].window.start < schedule[i].window.end
  /\ req \in [Workers -> Request]
  /\ overtaken \subseteq Workers

(* In whatever schedules come about, overlapping or too short ones as      *)
(* well, the slots offered around a reserved interval are exactly the      *)
(* whole-minute intervals that a booking would be accepted for             *)
(* (getBookableSlots and checkAvailability). Of an instant within a minute *)
(* checkAvailability sees only the minute: what it accepts is a slot, or a *)
(* slot that starts and ends the same part of a minute later.              *)
Instants == 0..(Ticks * MaxMinute)
Intervals == {s \in [start : Instants, end : Instants] : s.start < s.end}
WholeMinutes == {s \in Intervals : s.start % Ticks = 0 /\ s.end % Ticks = 0}
Delayed(s, delay) == [start |-> s.start + delay, end |-> s.end + delay]
OffersAreExact ==
  \A t \in Targets, d \in Days :
    /\ \A r \in Intervals :
         Bookable(t, d, {r}) = {s \in WholeMinutes : Available(t, d, s) /\ ~Overlap(r, s)}
    /\ \A s \in Intervals :
         Available(t, d, s) =>
           \E o \in Bookable(t, d, {}), delay \in 0..(Ticks - 1) : s = Delayed(o, delay)

(* Unless requests overlap, the active windows of a target do not overlap  *)
(* on a day and every window holds a slot: only a write of a request that  *)
(* was overtaken by another write can end that                             *)
(* (createAvailability and updateAvailability).                            *)
WindowsAreApart ==
  \A i, j \in Ids :
    /\ i # j /\ Exists(i) /\ Exists(j)
    /\ schedule[i].target = schedule[j].target
    /\ schedule[i].window.active /\ schedule[j].window.active
    /\ schedule[i].window.day = schedule[j].window.day
    => ~Overlap(schedule[i].window, schedule[j].window)
WindowsHoldASlot == \A i \in Ids : Exists(i) => Grid(schedule[i].window) # {}
OvertakenWrites == \E w \in overtaken : req'[w] # req[w]
OnlyOvertakenMisfit ==
  [][/\ WindowsAreApart => WindowsAreApart' \/ OvertakenWrites
     /\ WindowsHoldASlot => WindowsHoldASlot' \/ OvertakenWrites]_vars
=============================================================================
