------------------------- MODULE AvailabilityProofs -------------------------
(***************************************************************************)
(* Theorems about Availability, for any targets, people, days, schedules   *)
(* asked for and workers: stored windows begin before they end, and only a *)
(* request that another write overtook makes windows overlap or leaves one *)
(* without a slot.                                                         *)
(***************************************************************************)
EXTENDS Availability, TLAPS

(***************************************************************************)
(* Arithmetic. A minute has Ticks instants: an instant is a multiple of    *)
(* Ticks and a rest, and its minute is that multiple.                      *)
(***************************************************************************)
LEMMA DivisionFacts ==
  ASSUME NEW T \in Nat \ {0}, NEW n \in Nat
  PROVE  n = T * (n \div T) + (n % T) /\ n % T \in 0..(T - 1) /\ n \div T \in Nat
OBVIOUS

LEMMA MultiplesApart ==
  ASSUME NEW T \in Nat \ {0}, NEW k \in Nat, NEW m \in Nat, k < m
  PROVE  T * k + T <= T * m /\ T * k \in Nat /\ T * m \in Nat
<1>1. PICK d \in Nat : m = k + 1 + d
  <2>1. m - k - 1 \in Nat /\ m = k + 1 + (m - k - 1)
    OBVIOUS
  <2>. QED
    BY <2>1
<1>2. T * m = T * k + T + T * d /\ T * d \in Nat /\ T * k \in Nat
  BY <1>1
<1>. QED
  BY <1>2

LEMMA DivisionOfMultiple ==
  ASSUME NEW T \in Nat \ {0}, NEW m \in Nat, NEW r \in 0..(T - 1)
  PROVE  (T * m + r) \div T = m /\ (T * m + r) % T = r /\ T * m + r \in Nat
<1>1. PICK n \in Nat : n = T * m + r
  OBVIOUS
<1>2. PICK q \in Nat, x \in 0..(T - 1) : q = n \div T /\ x = n % T /\ n = T * q + x
  BY DivisionFacts
<1>3. ~(q < m)
  BY <1>1, <1>2, MultiplesApart
<1>4. ~(m < q)
  BY <1>1, <1>2, MultiplesApart
<1>5. q = m
  BY <1>3, <1>4
<1>6. x = r
  BY <1>1, <1>2, <1>5
<1>. QED
  BY <1>1, <1>2, <1>5, <1>6

LEMMA MultipleOfSum ==
  ASSUME NEW T \in Nat, NEW n \in Nat, NEW d \in Nat, NEW r \in Nat
  PROVE  (T * n + r) + T * d = T * (n + d) + r
OBVIOUS

-----------------------------------------------------------------------------
USE InputsAssumption

(* A row with another window. *)
LEMMA RowsTyped ==
  ASSUME NEW r \in Row, NEW v \in Window
  PROVE  /\ [r EXCEPT !.window = v] \in Row
         /\ [r EXCEPT !.window = v].target = r.target
         /\ [r EXCEPT !.window = v].window = v
<1>. HIDE DEF Window
<1>. QED
  BY DEF Row

(* Requests and rows keep what they are made of. *)
LEMMA RequestsTyped ==
  /\ Idle \in Request /\ Idle.op = "idle"
  /\ \A r \in Row : /\ r.target \in Targets /\ r.window \in Window
                    /\ LET q == [op |-> "create", row |-> r] IN
                         q \in Request /\ q.op = "create" /\ q.row = r
  /\ \A i \in Ids, p \in Patches :
       /\ LET q == [op |-> "update", id |-> i, patch |-> p] IN
            q \in Request /\ q.op = "update" /\ q.id = i /\ q.patch = p
       /\ \A r \in Row : LET q == [op |-> "checkUpdate", id |-> i, patch |-> p, seen |-> r] IN
            q \in Request /\ q.op = "checkUpdate" /\ q.id = i /\ q.patch = p /\ q.seen = r
  /\ \A i \in Ids : LET q == [op |-> "delete", id |-> i] IN q \in Request /\ q.op = "delete"
  /\ \A q \in Request :
       /\ q.op = "create" => q.row \in Row
       /\ q.op \in {"checkUpdate", "update", "delete"} => q.id \in Ids
       /\ q.op \in {"checkUpdate", "update"} => q.patch \in Patches
       /\ q.op = "checkUpdate" => q.seen \in Row
  /\ \A t \in Targets, v \in Window : [target |-> t, window |-> v] \in Row
<1>. HIDE DEF Window
<1>1. /\ Idle \in Request /\ Idle.op = "idle"
      /\ \A r \in Row : /\ r.target \in Targets /\ r.window \in Window
                        /\ LET q == [op |-> "create", row |-> r] IN
                             q \in Request /\ q.op = "create" /\ q.row = r
  BY DEF Idle, Row, Request
<1>2. \A i \in Ids, p \in Patches :
        /\ LET q == [op |-> "update", id |-> i, patch |-> p] IN
             q \in Request /\ q.op = "update" /\ q.id = i /\ q.patch = p
        /\ \A r \in Row : LET q == [op |-> "checkUpdate", id |-> i, patch |-> p, seen |-> r] IN
             q \in Request /\ q.op = "checkUpdate" /\ q.id = i /\ q.patch = p /\ q.seen = r
  BY DEF Request
<1>3. \A i \in Ids : LET q == [op |-> "delete", id |-> i] IN q \in Request /\ q.op = "delete"
  BY DEF Request
<1>4. \A q \in Request :
        /\ q.op = "create" => q.row \in Row
        /\ q.op \in {"checkUpdate", "update", "delete"} => q.id \in Ids
        /\ q.op \in {"checkUpdate", "update"} => q.patch \in Patches
        /\ q.op = "checkUpdate" => q.seen \in Row
  BY DEF Idle, Request
<1>5. \A t \in Targets, v \in Window : [target |-> t, window |-> v] \in Row
  BY DEF Row
<1>. QED
  BY <1>1, <1>2, <1>3, <1>4, <1>5

(* Windows, and what an update makes of one. *)
LEMMA WindowsTyped ==
  /\ \A v \in Window : v.start \in Nat /\ v.end \in Nat /\ v.duration \in Nat \ {0}
  /\ \A p \in Patches, v \in Window : (p @@ v) \in Window
  /\ Windows \subseteq Window
BY DEF Window

(* A window that is long enough holds its first slot. *)
LEMMA ValidHoldsASlot ==
  ASSUME NEW v \in Window, ValidWindow(v)
  PROVE  Grid(v) # {}
<1>1. /\ v.start \in v.start..v.end /\ (v.start - v.start) % v.duration = 0
      /\ v.start + v.duration <= v.end
  BY WindowsTyped DEF ValidWindow
<1>. QED
  BY <1>1 DEF Grid

-----------------------------------------------------------------------------
(***************************************************************************)
(* A request that no other write has overtaken rests on checks that are    *)
(* still true: its window is long enough, and overlaps none of the others. *)
(***************************************************************************)
Fits(t, v, except) == ValidWindow(v) /\ (v.active => ~OverlapsSchedule(t, v, except))
Checked(r) ==
  /\ r.op = "create" => Fits(r.row.target, r.row.window, {})
  /\ r.op = "checkUpdate" =>
       r.seen = schedule[r.id] /\ Exists(r.id) /\ ValidWindow(r.patch @@ r.seen.window)
  /\ r.op = "update" /\ Exists(r.id) =>
       Fits(schedule[r.id].target, r.patch @@ schedule[r.id].window, {r.id})
ScheduleInv == TypeOK /\ \A w \in Workers : w \notin overtaken => Checked(req[w])

(* A step that only changes what its worker is doing. *)
LEMMA RequestStep ==
  ASSUME ScheduleInv, NEW w \in Workers, NEW r \in Request, Step(w, r),
         w \notin overtaken => Checked(r)
  PROVE  ScheduleInv'
<1>1. /\ schedule' = schedule /\ req' = [req EXCEPT ![w] = r] /\ req \in [Workers -> Request]
      /\ overtaken' = IF r = Idle THEN overtaken \ {w} ELSE overtaken
      /\ overtaken \subseteq Workers
  BY DEF ScheduleInv, TypeOK, Step
<1>2. TypeOK'
  <2>1. req' \in [Workers -> Request] /\ overtaken' \subseteq Workers
    BY <1>1
  <2>. QED
    BY <1>1, <2>1 DEF ScheduleInv, TypeOK, Exists
<1>3. \A q : Checked(q) => Checked(q)'
  BY <1>1 DEF Checked, Fits, OverlapsSchedule, Exists
<1>4. Checked(Idle)
  BY RequestsTyped DEF Checked
<1>5. ASSUME NEW v \in Workers, v \notin overtaken', NEW q, q = req'[v] PROVE Checked(q)'
  <2>1. CASE v = w
    BY <1>1, <1>3, <1>4, <1>5, <2>1
  <2>2. CASE v # w
    BY <1>1, <1>3, <1>5, <2>2 DEF ScheduleInv
  <2>. QED
    BY <2>1, <2>2
<1>6. \A v \in Workers : v \notin overtaken' => Checked(req[v])'
  BY <1>5 DEF Checked, Fits, OverlapsSchedule, Exists
<1>. QED
  BY <1>2, <1>6 DEF ScheduleInv

(* A write overtakes every request of another worker. *)
LEMMA WriteStep ==
  ASSUME ScheduleInv, NEW w \in Workers, NEW i \in Ids, NEW row, Write(w, i, row),
         row = None \/ (row \in Row /\ row.window.start < row.window.end)
  PROVE  /\ ScheduleInv'
         /\ \A j \in Ids : schedule'[j] = IF j = i THEN row ELSE schedule[j]
         /\ req'[w] = Idle
<1>1. /\ schedule' = [schedule EXCEPT ![i] = row] /\ req' = [req EXCEPT ![w] = Idle]
      /\ overtaken' = {x \in Workers \ {w} : req[x] # Idle}
      /\ schedule \in [Ids -> Row \cup {None}] /\ req \in [Workers -> Request]
  BY DEF ScheduleInv, TypeOK, Write
<1>2. \A j \in Ids : schedule'[j] = IF j = i THEN row ELSE schedule[j]
  BY <1>1
<1>3. TypeOK'
  <2>1. /\ schedule' \in [Ids -> Row \cup {None}] /\ req' \in [Workers -> Request]
        /\ overtaken' \subseteq Workers
    BY <1>1, RequestsTyped
  <2>2. \A j \in Ids : Exists(j)' => schedule'[j].window.start < schedule'[j].window.end
    BY <1>2 DEF ScheduleInv, TypeOK, Exists
  <2>. QED
    BY <2>1, <2>2 DEF TypeOK
<1>4. ASSUME NEW v \in Workers, v \notin overtaken' PROVE req'[v] = Idle
  BY <1>1, <1>4
<1>5. \A v \in Workers : v \notin overtaken' => Checked(req[v])'
  BY <1>4, RequestsTyped DEF Checked
<1>. QED
  BY <1>1, <1>2, <1>3, <1>5 DEF ScheduleInv

(* A row that fits beside the others keeps the windows apart and usable. *)
LEMMA FittingRow ==
  ASSUME TypeOK, NEW i \in Ids, NEW row \in Row,
         \A j \in Ids : schedule'[j] = IF j = i THEN row ELSE schedule[j],
         Fits(row.target, row.window, {i}) \/ (~Exists(i) /\ Fits(row.target, row.window, {}))
  PROVE  /\ WindowsAreApart => WindowsAreApart'
         /\ WindowsHoldASlot => WindowsHoldASlot'
<1>1. /\ \A v, u : Overlap(v, u) <=> Overlap(u, v)
      /\ \A j \in Ids \ {i} : /\ Exists(j) /\ row.window.active
                              /\ schedule[j].target = row.target
                              /\ schedule[j].window.active
                              /\ schedule[j].window.day = row.window.day
                              => ~Overlap(row.window, schedule[j].window)
  BY DEF Fits, OverlapsSchedule, Overlap
<1>2. WindowsAreApart => WindowsAreApart'
  <2>. SUFFICES ASSUME WindowsAreApart, NEW j \in Ids, NEW k \in Ids, j # k,
                       schedule'[j] # None, schedule'[k] # None,
                       schedule'[j].target = schedule'[k].target,
                       schedule'[j].window.active, schedule'[k].window.active,
                       schedule'[j].window.day = schedule'[k].window.day
                PROVE  ~Overlap(schedule'[j].window, schedule'[k].window)
    BY DEF WindowsAreApart, Exists
  <2>1. CASE j = i
    BY <1>1, <2>1 DEF Exists
  <2>2. CASE k = i
    BY <1>1, <2>2 DEF Exists
  <2>3. CASE j # i /\ k # i
    BY <2>3 DEF WindowsAreApart, Exists
  <2>. QED
    BY <2>1, <2>2, <2>3
<1>3. WindowsHoldASlot => WindowsHoldASlot'
  <2>1. row.window \in Window /\ ValidWindow(row.window)
    BY RequestsTyped DEF Fits
  <2>2. Grid(row.window) # {}
    BY <2>1, ValidHoldsASlot
  <2>. QED
    BY <2>2 DEF WindowsHoldASlot, Exists
<1>. QED
  BY <1>2, <1>3

Fit == /\ WindowsAreApart => WindowsAreApart' \/ OvertakenWrites
       /\ WindowsHoldASlot => WindowsHoldASlot' \/ OvertakenWrites

LEMMA StillFit == UNCHANGED schedule => Fit
BY DEF Fit, WindowsAreApart, WindowsHoldASlot, Exists

LEMMA ScheduleStep ==
  ASSUME ScheduleInv, [Next]_vars
  PROVE  ScheduleInv' /\ Fit
<1>0. /\ schedule \in [Ids -> Row \cup {None}] /\ req \in [Workers -> Request]
      /\ \A i \in Ids : Exists(i) => /\ schedule[i] \in Row /\ schedule[i].window \in Window
                                     /\ schedule[i].target \in Targets
      /\ TypeOK /\ \A w \in Workers : w \notin overtaken => Checked(req[w])
  <2>1. /\ schedule \in [Ids -> Row \cup {None}] /\ req \in [Workers -> Request]
        /\ TypeOK /\ \A w \in Workers : w \notin overtaken => Checked(req[w])
    BY DEF ScheduleInv, TypeOK
  <2>2. \A i \in Ids : Exists(i) => schedule[i] \in Row
    BY <2>1 DEF Exists
  <2>. QED
    BY <2>1, <2>2, RequestsTyped
<1>1. CASE UNCHANGED vars
  BY <1>1, StillFit DEF vars, ScheduleInv, TypeOK, Exists, Checked, Fits, OverlapsSchedule
<1>2. ASSUME NEW w \in Workers, NEW r \in Request, Step(w, r), w \notin overtaken => Checked(r)
      PROVE  ScheduleInv' /\ Fit
  BY <1>2, RequestStep, StillFit DEF Step
<1>3. ASSUME NEW w \in Workers, NEW p, NEW t \in Targets, NEW v \in Windows, AcceptCreate(w, p, t, v)
      PROVE  ScheduleInv' /\ Fit
  <2>. DEFINE row == [target |-> t, window |-> v]  r == [op |-> "create", row |-> row]
  <2>1. row \in Row /\ row.target = t /\ row.window = v
    BY WindowsTyped, RequestsTyped
  <2>2. Step(w, r) /\ Fits(t, v, {})
    BY <1>3 DEF AcceptCreate, Fits
  <2>. HIDE DEF row
  <2>3. r \in Request /\ r.op = "create" /\ r.row = row
    BY <2>1, RequestsTyped
  <2>. HIDE DEF r
  <2>4. Checked(r)
    BY <2>1, <2>2, <2>3 DEF Checked
  <2>. QED
    BY <1>2, <2>2, <2>3, <2>4
<1>4. ASSUME NEW w \in Workers, NEW p, NEW i \in Ids, NEW q \in Patches, AcceptUpdate(w, p, i, q)
      PROVE  ScheduleInv' /\ Fit
  <2>. DEFINE r == [op |-> "checkUpdate", id |-> i, patch |-> q, seen |-> schedule[i]]
  <2>1. Step(w, r) /\ Exists(i) /\ ValidWindow(q @@ schedule[i].window)
    BY <1>4 DEF AcceptUpdate
  <2>2. r \in Request /\ r.op = "checkUpdate" /\ r.id = i /\ r.patch = q /\ r.seen = schedule[i]
    BY <1>0, <2>1, RequestsTyped
  <2>. HIDE DEF r
  <2>3. Checked(r)
    BY <2>1, <2>2 DEF Checked
  <2>. QED
    BY <1>2, <2>1, <2>2, <2>3
<1>5. ASSUME NEW w \in Workers, NEW p, NEW i \in Ids, AcceptDelete(w, p, i) PROVE ScheduleInv' /\ Fit
  <2>. DEFINE r == [op |-> "delete", id |-> i]
  <2>1. Step(w, r) /\ r \in Request /\ r.op = "delete"
    BY <1>5, RequestsTyped DEF AcceptDelete
  <2>. HIDE DEF r
  <2>2. Checked(r)
    BY <2>1 DEF Checked
  <2>. QED
    BY <1>2, <2>1, <2>2
<1>6. ASSUME NEW w \in Workers, CheckUpdate(w) PROVE ScheduleInv' /\ Fit
  <2>. DEFINE i == req[w].id  q == req[w].patch  seen == req[w].seen  v == q @@ seen.window
              r == [op |-> "update", id |-> i, patch |-> q]
  <2>1. req[w] \in Request /\ req[w].op = "checkUpdate" /\ i \in Ids /\ q \in Patches
    BY <1>0, <1>6, RequestsTyped DEF CheckUpdate
  <2>2. CASE v.active /\ OverlapsSchedule(seen.target, v, {i})
    <3>1. Step(w, Idle)
      BY <1>6, <2>2 DEF CheckUpdate
    <3>. QED
      BY <1>2, <3>1, RequestsTyped DEF Checked
  <2>3. CASE ~(v.active /\ OverlapsSchedule(seen.target, v, {i}))
    <3>1. Step(w, r)
      BY <1>6, <2>3 DEF CheckUpdate
    <3>2. r \in Request /\ r.op = "update" /\ r.id = i /\ r.patch = q
      BY <2>1, RequestsTyped
    <3>3. ASSUME w \notin overtaken PROVE Checked(r)
      <4>1. seen = schedule[i] /\ ValidWindow(v)
        BY <1>0, <2>1, <3>3 DEF Checked
      <4>. HIDE DEF r
      <4>. QED
        BY <2>3, <3>2, <4>1 DEF Checked, Fits
    <3>. HIDE DEF r
    <3>. QED
      BY <1>2, <3>1, <3>2, <3>3
  <2>. QED
    BY <2>2, <2>3
<1>7. ASSUME NEW w \in Workers, Abandon(w) PROVE ScheduleInv' /\ Fit
  BY <1>2, <1>7, RequestsTyped DEF Abandon, Checked
<1>8. ASSUME NEW w \in Workers, req[w] # Idle, req'[w] = Idle, w \in overtaken PROVE Fit
  BY <1>8 DEF Fit, OvertakenWrites
<1>9. ASSUME NEW w \in Workers, NEW i \in Ids, CommitCreate(w, i) PROVE ScheduleInv' /\ Fit
  <2>. DEFINE row == req[w].row
  <2>1. /\ req[w].op = "create" /\ ~Exists(i) /\ Write(w, i, row) /\ row \in Row
        /\ row.window \in Window /\ row.window.start < row.window.end
    <3>1. /\ req[w].op = "create" /\ ~Exists(i) /\ Write(w, i, row) /\ TableCheck(row.window)
      BY <1>9 DEF CommitCreate
    <3>2. row \in Row /\ row.window \in Window
      BY <1>0, <3>1, RequestsTyped
    <3>. QED
      BY <3>1, <3>2 DEF TableCheck
  <2>2. /\ ScheduleInv' /\ req'[w] = Idle
        /\ \A j \in Ids : schedule'[j] = IF j = i THEN row ELSE schedule[j]
    BY <2>1, WriteStep
  <2>3. ASSUME w \notin overtaken PROVE Fit
    <3>1. Fits(row.target, row.window, {})
      BY <1>0, <2>1, <2>3 DEF Checked
    <3>. HIDE DEF row
    <3>. QED
      BY <1>0, <2>1, <2>2, <3>1, FittingRow DEF Fit
  <2>. QED
    BY <1>8, <2>1, <2>2, <2>3, RequestsTyped
<1>10. ASSUME NEW w \in Workers, CommitUpdate(w) PROVE ScheduleInv' /\ Fit
  <2>. DEFINE i == req[w].id  q == req[w].patch  v == q @@ schedule[i].window
              row == [schedule[i] EXCEPT !.window = v]
  <2>1. /\ req[w].op = "update" /\ Exists(i) /\ i \in Ids /\ q \in Patches
        /\ schedule[i] \in Row /\ v \in Window /\ TableCheck(v)
    BY <1>0, <1>10, RequestsTyped, WindowsTyped DEF CommitUpdate
  <2>2. Write(w, i, row)
    BY <1>0, <1>10 DEF CommitUpdate
  <2>. HIDE DEF v
  <2>3. row \in Row /\ row.target = schedule[i].target /\ row.window = v /\ v.start < v.end
    <3>1. row \in Row /\ row.target = schedule[i].target /\ row.window = v
      BY <2>1, RowsTyped
    <3>2. v.start < v.end
      BY <2>1, WindowsTyped DEF TableCheck
    <3>. QED
      BY <3>1, <3>2
  <2>. HIDE DEF row
  <2>4. /\ ScheduleInv' /\ req'[w] = Idle
        /\ \A j \in Ids : schedule'[j] = IF j = i THEN row ELSE schedule[j]
    BY <2>1, <2>2, <2>3, WriteStep
  <2>5. ASSUME w \notin overtaken PROVE Fit
    <3>1. Fits(row.target, row.window, {i})
      BY <1>0, <2>1, <2>3, <2>5 DEF Checked, v
    <3>. HIDE DEF i
    <3>. QED
      BY <1>0, <2>1, <2>3, <2>4, <3>1, FittingRow DEF Fit
  <2>. QED
    BY <1>8, <2>1, <2>4, <2>5, RequestsTyped
<1>11. ASSUME NEW w \in Workers, CommitDelete(w) PROVE ScheduleInv' /\ Fit
  <2>. DEFINE i == req[w].id
  <2>1. i \in Ids /\ Write(w, i, None)
    BY <1>0, <1>11, RequestsTyped DEF CommitDelete
  <2>. HIDE DEF i
  <2>2. ScheduleInv' /\ \A j \in Ids : schedule'[j] = IF j = i THEN None ELSE schedule[j]
    BY <2>1, WriteStep
  <2>. QED
    BY <2>2 DEF Fit, WindowsAreApart, WindowsHoldASlot, Exists
<1>. QED
  BY <1>1, <1>3, <1>4, <1>5, <1>6, <1>7, <1>9, <1>10, <1>11 DEF Next

LEMMA ScheduleInductive == Spec => []ScheduleInv
<1>1. Init => ScheduleInv
  BY RequestsTyped DEF Init, ScheduleInv, TypeOK, Exists, Checked
<1>. QED
  BY <1>1, ScheduleStep, PTL DEF Spec

(* Every variable keeps its type, and every stored window begins before it *)
(* ends, whatever updates overlap (updateAvailability and the table's      *)
(* check).                                                                 *)
THEOREM TypeCorrect == Spec => []TypeOK
BY ScheduleInductive, PTL DEF ScheduleInv

(* Windows that were apart and held a slot stay so, unless a request that  *)
(* another write overtook since its checks writes (createAvailability,     *)
(* updateAvailability).                                                    *)
THEOREM MisfitsAreOvertaken == Spec => OnlyOvertakenMisfit
<1>1. ScheduleInv /\ [Next]_vars => [Fit]_vars
  BY ScheduleStep
<1>2. Spec => [][Fit]_vars
  BY <1>1, ScheduleInductive, PTL DEF Spec
<1>. QED
  BY <1>2 DEF OnlyOvertakenMisfit, Fit

-----------------------------------------------------------------------------
(***************************************************************************)
(* Offers: the grid of a window, and what checkAvailability asks of it.    *)
(***************************************************************************)
(* What checkAvailability asks of a window. *)
Accepts(v, s) ==
  /\ Minute(s.start) >= v.start
  /\ Minute(s.end) <= v.end
  /\ s.end - s.start = Ticks * v.duration
  /\ (Minute(s.start) - v.start) % v.duration = 0
Slot(v, n) == [start |-> Ticks * n, end |-> Ticks * (n + v.duration)]

LEMMA GridOfSlots ==
  ASSUME NEW v, NEW s
  PROVE  s \in Grid(v) <=> \E n \in v.start..v.end :
           /\ (n - v.start) % v.duration = 0 /\ n + v.duration <= v.end
           /\ s = Slot(v, n)
BY DEF Grid, Slot

(* A step of the grid is an interval of whole minutes that is accepted. *)
LEMMA SlotsAccepted ==
  ASSUME NEW v \in Window, NEW s \in Grid(v)
  PROVE  s \in WholeMinutes /\ Accepts(v, s)
<1>0. PICK n \in v.start..v.end :
        /\ (n - v.start) % v.duration = 0 /\ n + v.duration <= v.end
        /\ s = Slot(v, n)
  BY GridOfSlots
<1>1. /\ v.start \in Nat /\ v.end \in Nat /\ v.duration \in Nat \ {0} /\ v.end <= MaxMinute
      /\ Ticks \in Nat \ {0} /\ MaxMinute \in Nat
  BY DEF Window
<1>2. PICK m \in Nat : m = n + v.duration /\ n \in Nat /\ n < m /\ m <= v.end
  BY <1>0, <1>1
<1>3. s.start = Ticks * n /\ s.end = Ticks * m /\ s = [start |-> s.start, end |-> s.end]
  BY <1>0, <1>2 DEF Slot
<1>4. /\ Ticks * n \in Nat /\ Ticks * m \in Nat /\ Ticks * n < Ticks * m
      /\ Ticks * MaxMinute \in Nat /\ Ticks * m <= Ticks * MaxMinute
  <2>1. Ticks * n + Ticks <= Ticks * m /\ Ticks * n \in Nat /\ Ticks * m \in Nat
    BY <1>1, <1>2, MultiplesApart
  <2>2. m = MaxMinute \/ m < MaxMinute
    BY <1>1, <1>2
  <2>3. m < MaxMinute => Ticks * m + Ticks <= Ticks * MaxMinute
    BY <1>1, <1>2, MultiplesApart
  <2>4. Ticks * MaxMinute \in Nat
    BY <1>1
  <2>. QED
    BY <1>1, <2>1, <2>2, <2>3, <2>4
<1>5. /\ Minute(s.start) = n /\ s.start % Ticks = 0
      /\ Minute(s.end) = m /\ s.end % Ticks = 0
  <2>1. 0 \in 0..(Ticks - 1) /\ Ticks * n + 0 = Ticks * n /\ Ticks * m + 0 = Ticks * m
    BY <1>1, <1>4
  <2>. QED
    BY <1>1, <1>2, <1>3, <2>1, DivisionOfMultiple DEF Minute
<1>6. s.end - s.start = Ticks * v.duration
  BY <1>1, <1>2, <1>3
<1>7. s \in WholeMinutes
  <2>1. s.start \in Instants /\ s.end \in Instants /\ s.start < s.end
    BY <1>3, <1>4 DEF Instants
  <2>. QED
    BY <1>3, <1>5, <2>1 DEF WholeMinutes, Intervals
<1>. QED
  BY <1>0, <1>1, <1>2, <1>5, <1>6, <1>7 DEF Accepts

(* An interval that is accepted is a step of the grid, delayed by what its *)
(* start has beyond the minute.                                            *)
LEMMA AcceptedAreDelayedSlots ==
  ASSUME NEW v \in Window, NEW s \in Intervals, Accepts(v, s)
  PROVE  \E o \in Grid(v) : s.start % Ticks \in 0..(Ticks - 1) /\ s = Delayed(o, s.start % Ticks)
<1>1. /\ v.start \in Nat /\ v.end \in Nat /\ v.duration \in Nat \ {0}
      /\ Ticks \in Nat \ {0} /\ s.start \in Nat /\ s.end \in Nat
      /\ s = [start |-> s.start, end |-> s.end]
  <2>1. Ticks * MaxMinute \in Nat
    OBVIOUS
  <2>2. v.start \in Nat /\ v.end \in Nat /\ v.duration \in Nat \ {0}
    BY DEF Window
  <2>3. s \in [start : Instants, end : Instants]
    BY DEF Intervals
  <2>4. s.start \in Instants /\ s.end \in Instants /\ s = [start |-> s.start, end |-> s.end]
    BY <2>3
  <2>. QED
    BY <2>1, <2>2, <2>4 DEF Instants
<1>2. PICK n \in Nat, r \in 0..(Ticks - 1) :
        n = Minute(s.start) /\ r = s.start % Ticks /\ s.start = Ticks * n + r
  BY <1>1, DivisionFacts DEF Minute
<1>3. PICK m \in Nat : m = n + v.duration
  BY <1>1
<1>4. s.end = Ticks * m + r
  <2>1. s.end = (Ticks * n + r) + Ticks * v.duration
    <3>1. Ticks * v.duration \in Nat /\ s.end - s.start = Ticks * v.duration
      BY <1>1 DEF Accepts
    <3>. QED
      BY <1>1, <1>2, <3>1
  <2>2. r \in Nat
    BY <1>1
  <2>. QED
    BY <1>1, <1>3, <2>1, <2>2, MultipleOfSum
<1>5. Minute(s.end) = m
  BY <1>1, <1>2, <1>4, DivisionOfMultiple DEF Minute
<1>6. /\ n >= v.start /\ m <= v.end /\ (n - v.start) % v.duration = 0 /\ n \in v.start..v.end
  BY <1>1, <1>2, <1>3, <1>5 DEF Accepts
<1>7. Slot(v, n) \in Grid(v)
  BY <1>3, <1>6, GridOfSlots
<1>8. s = Delayed(Slot(v, n), r)
  BY <1>1, <1>2, <1>3, <1>4 DEF Delayed, Slot
<1>. QED
  BY <1>2, <1>7, <1>8

(* The slots offered are exactly the intervals of whole minutes that would *)
(* be accepted, and what is accepted beyond them is an offered slot moved  *)
(* within its minute, whatever schedules are stored (getBookableSlots and  *)
(* checkAvailability).                                                     *)
THEOREM OffersMeetAcceptance == Spec => []OffersAreExact
<1>1. TypeOK => OffersAreExact
  <2>. SUFFICES ASSUME TypeOK, NEW t \in Targets, NEW d \in Days
                PROVE  /\ \A r \in Intervals : Bookable(t, d, {r}) =
                            {s \in WholeMinutes : Available(t, d, s) /\ ~Overlap(r, s)}
                       /\ \A s \in Intervals : Available(t, d, s) =>
                            \E o \in Bookable(t, d, {}), delay \in 0..(Ticks - 1) : s = Delayed(o, delay)
    BY DEF OffersAreExact
  <2>1. OfDay(t, d) \subseteq Window
    <3>1. \A j \in Ids : Exists(j) => schedule[j] \in Row
      BY DEF TypeOK, Exists
    <3>2. \A j \in Ids : Exists(j) => schedule[j].window \in Window
      BY <3>1, RequestsTyped
    <3>. QED
      BY <3>2 DEF OfDay
  <2>2. \A s : Available(t, d, s) <=> \E v \in OfDay(t, d) : Accepts(v, s)
    BY DEF Available, Accepts
  <2>3. \A s, R : s \in Bookable(t, d, R) <=>
          (\E v \in OfDay(t, d) : s \in Grid(v)) /\ \A r \in R : ~Overlap(r, s)
    BY DEF Bookable
  <2>4. \A s \in WholeMinutes : s \in Intervals /\ s.start % Ticks = 0
    BY DEF WholeMinutes
  <2>5. \A o \in WholeMinutes : Delayed(o, 0) = o
    <3>. SUFFICES ASSUME NEW o \in WholeMinutes PROVE Delayed(o, 0) = o
      OBVIOUS
    <3>1. o \in [start : Instants, end : Instants]
      BY DEF WholeMinutes, Intervals
    <3>2. Ticks * MaxMinute \in Nat
      OBVIOUS
    <3>3. o.start \in Instants /\ o.end \in Instants /\ o = [start |-> o.start, end |-> o.end]
      BY <3>1
    <3>. QED
      BY <3>2, <3>3 DEF Delayed, Instants
  <2>6. \A s : (\E v \in OfDay(t, d) : s \in Grid(v)) <=> s \in WholeMinutes /\ Available(t, d, s)
    <3>1. ASSUME NEW s, NEW v \in OfDay(t, d), s \in Grid(v)
          PROVE  s \in WholeMinutes /\ Available(t, d, s)
      BY <2>1, <2>2, <3>1, SlotsAccepted
    <3>2. ASSUME NEW s \in WholeMinutes, Available(t, d, s)
          PROVE  \E v \in OfDay(t, d) : s \in Grid(v)
      <4>1. PICK v \in OfDay(t, d) : Accepts(v, s)
        BY <2>2, <3>2
      <4>2. PICK o \in Grid(v) : s = Delayed(o, 0)
        BY <2>1, <2>4, <4>1, AcceptedAreDelayedSlots
      <4>3. s = o
        BY <2>1, <2>5, <4>2, SlotsAccepted
      <4>. QED
        BY <4>3
    <3>. QED
      BY <3>1, <3>2
  <2>7. ASSUME NEW r \in Intervals
        PROVE  Bookable(t, d, {r}) = {s \in WholeMinutes : Available(t, d, s) /\ ~Overlap(r, s)}
    BY <2>3, <2>6
  <2>8. ASSUME NEW s \in Intervals, Available(t, d, s)
        PROVE  \E o \in Bookable(t, d, {}), delay \in 0..(Ticks - 1) : s = Delayed(o, delay)
    <3>1. PICK v \in OfDay(t, d) : Accepts(v, s)
      BY <2>2, <2>8
    <3>2. PICK o \in Grid(v) : s.start % Ticks \in 0..(Ticks - 1) /\ s = Delayed(o, s.start % Ticks)
      BY <2>1, <3>1, AcceptedAreDelayedSlots
    <3>3. o \in Bookable(t, d, {})
      BY <2>3, <3>2
    <3>. QED
      BY <3>2, <3>3
  <2>. QED
    BY <2>7, <2>8
<1>. QED
  BY <1>1, TypeCorrect, PTL
=============================================================================
