------------------------ MODULE NotificationsProofs ------------------------
(***************************************************************************)
(* Theorems about Notifications, for any events, users, workers and        *)
(* numbers of attempts: a delivery reaches each recipient once, and what   *)
(* counts as done has been delivered, however often processes stop, jobs   *)
(* stall, and two workers deliver the same event.                          *)
(***************************************************************************)
EXTENDS Notifications, TLAPS

USE EventsAssumption, ProcessesAssumption

(* A step is one of the actions, or changes nothing. *)
LEMMA StepCases ==
  ASSUME [Next]_vars
  PROVE  \/ UNCHANGED vars
         \/ \E e \in Events :
              Publish(e) \/ Dispatch(e) \/ Enqueue(e) \/ EnqueueFails(e) \/ Stall(e)
         \/ StopApi
         \/ \E p \in Deliverers :
              FindHandlers(p) \/ FindActive(p) \/ Insert(p) \/ Finish(p) \/ DeliveryFails(p)
         \/ \E w \in Workers : StopWorker(w) \/ \E e \in Events : Take(w, e)
         \/ \E u \in Users :
              \/ \E e \in Events : (\E b \in BOOLEAN : MarkReadState(e, u, b)) \/ Delete(e, u)
              \/ MarkAllAsRead(u) \/ Deactivate(u)
BY DEF Next, ApiStep, DeliveryStep, UserStep

-----------------------------------------------------------------------------
(***************************************************************************)
(* Types. A job that has not ended has attempts left.                      *)
(***************************************************************************)
Open(j) == j.state \in {"absent", "waiting", "active"} => j.made < MaxAttempts
AttemptsLeft == \A e \in Events : Open(job[e])
TypeInv == TypeOK /\ AttemptsLeft

(* What the queue makes of a job keeps it a job with attempts left. *)
LEMMA JobSteps ==
  ASSUME NEW j, j \in Job, Open(j), NEW w \in Workers
  PROVE  /\ [j EXCEPT !.state = IF @ = "absent" THEN "waiting" ELSE @] \in Job
         /\ Open([j EXCEPT !.state = IF @ = "absent" THEN "waiting" ELSE @])
         /\ [j EXCEPT !.state = "completed", !.holder = None] \in Job
         /\ j.state = "waiting" => /\ [j EXCEPT !.state = "active", !.holder = w] \in Job
                                   /\ Open([j EXCEPT !.state = "active", !.holder = w])
         /\ j.state = "active" /\ j.stalled < MaxStalled =>
              /\ [j EXCEPT !.state = "waiting", !.holder = None, !.stalled = @ + 1] \in Job
              /\ Open([j EXCEPT !.state = "waiting", !.holder = None, !.stalled = @ + 1])
         /\ [j EXCEPT !.state = "failed", !.holder = None] \in Job
<1>1. j.made \in 0..MaxAttempts /\ j.stalled \in 0..MaxStalled
  BY DEF Job
<1>2. j.stalled < MaxStalled => j.stalled + 1 \in 0..MaxStalled
  BY <1>1
<1>. QED
  BY <1>1, <1>2 DEF Job, Open

LEMMA RetryTyped ==
  ASSUME NEW e \in Events, job[e] \in Job, job[e].state = "active", Open(job[e])
  PROVE  Retry(e) \in Job /\ Open(Retry(e)) /\ Retry(e).state \in {"waiting", "failed"}
<1>1. /\ job[e].made \in 0..MaxAttempts /\ job[e].made + 1 \in 0..MaxAttempts
      /\ job[e].made + 1 < MaxAttempts \/ job[e].made + 1 = MaxAttempts
  BY DEF Job, Open
<1>. QED
  BY <1>1 DEF Retry, Job, Open

(* Deliveries in progress. *)
LEMMA DeliveriesTyped ==
  /\ \A e \in Events : NewDelivery(e) \in Delivery /\ NewDelivery(e).event = e
                       /\ NewDelivery(e).phase = "handlers"
  /\ \A e \in Events, H \in SUBSET Users : Recipients(e, H) \subseteq Users
  /\ \A d \in Delivery, us \in SUBSET Users, ph \in {"active", "insert", "done"} :
       /\ [d EXCEPT !.phase = ph, !.users = us] \in Delivery
       /\ [d EXCEPT !.phase = ph] \in Delivery
BY DEF NewDelivery, Delivery, Recipients

LEMMA TypeInductive == TypeInv /\ [Next]_vars => TypeInv'
<1>. SUFFICES ASSUME TypeInv, [Next]_vars PROVE TypeInv'
  OBVIOUS
<1>0. /\ job \in [Events -> Job] /\ task \in [Deliverers -> Delivery \cup {None}]
      /\ active \subseteq Users /\ copies \in [Events -> [Users -> Nat]]
      /\ unread \in [Events -> [Users -> BOOLEAN]] /\ deleted \subseteq Events \X Users
      /\ pub \in [Events -> {"none", "scheduled", "enqueuing", "delivering",
                             "handled", "logged", "lost"}]
      /\ \A e \in Events : Open(job[e]) /\ job[e] \in Job
      /\ Events \subseteq Deliverers /\ Workers \subseteq Deliverers
  BY DEF TypeInv, TypeOK, AttemptsLeft, Deliverers
<1>1. CASE UNCHANGED vars
  BY <1>1 DEF TypeInv, TypeOK, AttemptsLeft, vars, rows
<1>. DEFINE Processes == /\ job \in [Events -> Job] /\ \A e \in Events : Open(job[e])
                         /\ task \in [Deliverers -> Delivery \cup {None}]
                         /\ pub \in [Events -> {"none", "scheduled", "enqueuing", "delivering",
                                                "handled", "logged", "lost"}]
            Inbox == /\ active \subseteq Users /\ copies \in [Events -> [Users -> Nat]]
                     /\ unread \in [Events -> [Users -> BOOLEAN]]
                     /\ deleted \subseteq Events \X Users
<1>2. /\ Processes' /\ UNCHANGED <<active, rows>> => TypeInv'
      /\ Inbox' /\ UNCHANGED <<pub, job, task>> => TypeInv'
  BY <1>0 DEF TypeInv, TypeOK, AttemptsLeft, rows
<1>3. ASSUME NEW e \in Events, NEW j, job' = [job EXCEPT ![e] = j], j \in Job, Open(j)
      PROVE  job' \in [Events -> Job] /\ \A f \in Events : Open(job'[f])
  BY <1>0, <1>3
<1>4. ASSUME NEW p \in Deliverers, NEW d \in Delivery \cup {None}, task' = [task EXCEPT ![p] = d]
      PROVE  task' \in [Deliverers -> Delivery \cup {None}]
  BY <1>0, <1>4
<1>5. ASSUME NEW e \in Events, job' = Added(e)
      PROVE  job' \in [Events -> Job] /\ \A f \in Events : Open(job'[f])
  <2>. DEFINE j == [job[e] EXCEPT !.state = IF @ = "absent" THEN "waiting" ELSE @]
  <2>1. j \in Job /\ Open(j)
    <3>1. job[e] \in Job /\ Open(job[e])
      BY <1>0
    <3>2. j \in Job /\ j.made = job[e].made
      BY <3>1 DEF Job
    <3>3. j.state \in {"absent", "waiting", "active"} =>
            job[e].state \in {"absent", "waiting", "active"}
      BY <3>1 DEF Job
    <3>. QED
      BY <3>1, <3>2, <3>3 DEF Open
  <2>2. job' = [job EXCEPT ![e] = j]
    BY <1>0, <1>5 DEF Added, Job
  <2>. HIDE DEF j
  <2>. QED
    BY <1>3, <2>1, <2>2
<1>6. ASSUME NEW e \in Events, Publish(e) PROVE TypeInv'
  BY <1>0, <1>2, <1>6 DEF Publish
<1>7. ASSUME NEW e \in Events, Dispatch(e) PROVE TypeInv'
  <2>1. NewDelivery(e) \in Delivery
    BY DeliveriesTyped
  <2>2. task' \in [Deliverers -> Delivery \cup {None}]
    <3>1. task' = task \/ task' = [task EXCEPT ![e] = NewDelivery(e)]
      BY <1>7 DEF Dispatch, StartDirect
    <3>2. e \in Deliverers /\ NewDelivery(e) \in Delivery \cup {None}
      BY <2>1 DEF Deliverers
    <3>3. task' = [task EXCEPT ![e] = NewDelivery(e)] => task' \in [Deliverers -> Delivery \cup {None}]
      BY <1>4, <3>2
    <3>. QED
      BY <1>0, <3>1, <3>3
  <2>. QED
    BY <1>0, <1>2, <1>7, <2>2 DEF Dispatch, StartDirect
<1>8. ASSUME NEW e \in Events, Enqueue(e) PROVE TypeInv'
  BY <1>0, <1>2, <1>5, <1>8 DEF Enqueue
<1>9. ASSUME NEW e \in Events, EnqueueFails(e) PROVE TypeInv'
  <2>1. NewDelivery(e) \in Delivery
    BY DeliveriesTyped
  <2>2. task' \in [Deliverers -> Delivery \cup {None}] /\ pub' = [pub EXCEPT ![e] = "delivering"]
    BY <1>0, <1>9, <2>1 DEF EnqueueFails, StartDirect
  <2>3. job' \in [Events -> Job] /\ \A f \in Events : Open(job'[f])
    BY <1>0, <1>5, <1>9 DEF EnqueueFails
  <2>. QED
    BY <1>0, <1>2, <1>9, <2>2, <2>3 DEF EnqueueFails
<1>10. CASE StopApi
  BY <1>0, <1>2, <1>10 DEF StopApi
<1>11. ASSUME NEW p \in Deliverers, FindHandlers(p) PROVE TypeInv'
  <2>. DEFINE e == task[p].event  us == Recipients(e, InCharge[e] \cap active)
              d == [task[p] EXCEPT !.phase = "active", !.users = us]
  <2>1. task[p] \in Delivery /\ e \in Events
    BY <1>0, <1>11 DEF FindHandlers, Delivery
  <2>2. us \in SUBSET Users /\ d \in Delivery
    BY <1>0, <2>1, DeliveriesTyped
  <2>3. task' = [task EXCEPT ![p] = d]
    BY <1>0, <1>11, <2>1 DEF FindHandlers, Delivery
  <2>. HIDE DEF d
  <2>. QED
    BY <1>0, <1>2, <1>4, <1>11, <2>2, <2>3 DEF FindHandlers
<1>12. ASSUME NEW p \in Deliverers, FindActive(p) PROVE TypeInv'
  <2>. DEFINE d == [task[p] EXCEPT !.phase = "insert", !.users = @ \cap active]
  <2>1. task[p] \in Delivery
    BY <1>0, <1>12 DEF FindActive
  <2>2. d \in Delivery
    BY <2>1 DEF Delivery
  <2>3. task' = [task EXCEPT ![p] = d]
    BY <1>0, <1>12, <2>1 DEF FindActive, Delivery
  <2>. HIDE DEF d
  <2>. QED
    BY <1>0, <1>2, <1>4, <1>12, <2>2, <2>3 DEF FindActive
<1>13. ASSUME NEW p \in Deliverers, Insert(p) PROVE TypeInv'
  <2>. DEFINE d == [task[p] EXCEPT !.phase = "done"]  e == task[p].event
  <2>1. task[p] \in Delivery /\ e \in Events /\ task[p].users \subseteq Users
    BY <1>0, <1>13 DEF Insert, Delivery
  <2>2. d \in Delivery
    BY <2>1 DEF Delivery
  <2>3. task' = [task EXCEPT ![p] = d]
    BY <1>0, <1>13, <2>1 DEF Insert, Delivery
  <2>4. CreateMany(e, task[p].users) /\ UNCHANGED <<active, pub, job>>
    BY <1>13 DEF Insert
  <2>. HIDE DEF d, e
  <2>5. /\ copies' \in [Events -> [Users -> Nat]]
        /\ unread' \in [Events -> [Users -> BOOLEAN]] /\ deleted' = deleted
    BY <1>0, <2>1, <2>4 DEF CreateMany
  <2>6. task' \in [Deliverers -> Delivery \cup {None}]
    BY <1>4, <2>2, <2>3
  <2>. QED
    BY <1>0, <2>4, <2>5, <2>6 DEF TypeInv, TypeOK, AttemptsLeft
<1>14. ASSUME NEW p \in Deliverers, Finish(p) PROVE TypeInv'
  <2>. DEFINE e == task[p].event  j == [job[e] EXCEPT !.state = "completed", !.holder = None]
  <2>1. e \in Events /\ task' = [task EXCEPT ![p] = None]
    BY <1>0, <1>14 DEF Finish, Delivery
  <2>2. j \in Job /\ Open(j)
    <3>1. job[e] \in Job
      BY <1>0, <2>1
    <3>2. j.state = "completed"
      BY <3>1 DEF Job
    <3>. QED
      BY <3>1, <3>2 DEF Job, Open
  <2>3. job' = job \/ job' = [job EXCEPT ![e] = j]
    BY <1>0, <1>14, <2>1 DEF Finish, Job
  <2>4. pub' = pub \/ pub' = [pub EXCEPT ![e] = "handled"]
    BY <1>14 DEF Finish
  <2>5. UNCHANGED <<active, rows>>
    BY <1>14 DEF Finish
  <2>. HIDE DEF e, j
  <2>. QED
    BY <1>0, <1>2, <1>3, <1>4, <2>1, <2>2, <2>3, <2>4, <2>5
<1>15. ASSUME NEW p \in Deliverers, DeliveryFails(p) PROVE TypeInv'
  <2>. DEFINE e == task[p].event
  <2>1. e \in Events /\ task' = [task EXCEPT ![p] = None] /\ UNCHANGED <<active, rows>>
    BY <1>0, <1>15 DEF DeliveryFails, Delivery
  <2>2. job' = job \/ (job[e].state = "active" /\ job' = [job EXCEPT ![e] = Retry(e)])
    BY <1>15 DEF DeliveryFails, Holds
  <2>3. pub' = pub \/ pub' = [pub EXCEPT ![e] = "logged"]
    BY <1>15 DEF DeliveryFails
  <2>. HIDE DEF e
  <2>. QED
    BY <1>0, <1>2, <1>3, <1>4, <2>1, <2>2, <2>3, RetryTyped
<1>16. ASSUME NEW e \in Events, Stall(e) PROVE TypeInv'
  <2>1. PICK j \in Job : Open(j) /\ job' = [job EXCEPT ![e] = j]
    <3>1. job[e] \in Job /\ Open(job[e]) /\ job[e].state = "active"
      BY <1>0, <1>16 DEF Stall
    <3>2. job[e].made \in 0..MaxAttempts /\ job[e].stalled \in 0..MaxStalled
          /\ (job[e].stalled < MaxStalled => job[e].stalled + 1 \in 0..MaxStalled)
      BY <3>1 DEF Job
    <3>. QED
      BY <1>16, <3>1, <3>2 DEF Stall, Job, Open
  <2>. QED
    BY <1>0, <1>2, <1>3, <1>16, <2>1 DEF Stall
<1>17. ASSUME NEW w \in Workers, NEW e \in Events, Take(w, e) PROVE TypeInv'
  <2>. DEFINE j == [job[e] EXCEPT !.state = "active", !.holder = w]
  <2>1. j \in Job /\ Open(j) /\ NewDelivery(e) \in Delivery /\ w \in Deliverers
    BY <1>0, <1>17, JobSteps, DeliveriesTyped DEF Take
  <2>2. job' = [job EXCEPT ![e] = j] /\ task' = [task EXCEPT ![w] = NewDelivery(e)]
    BY <1>0, <1>17 DEF Take, Job
  <2>. HIDE DEF j
  <2>. QED
    BY <1>0, <1>2, <1>3, <1>4, <1>17, <2>1, <2>2 DEF Take
<1>18. ASSUME NEW w \in Workers, StopWorker(w) PROVE TypeInv'
  BY <1>0, <1>2, <1>4, <1>18 DEF StopWorker
<1>19. ASSUME NEW u \in Users, NEW e \in Events, NEW b \in BOOLEAN, MarkReadState(e, u, b)
       PROVE  TypeInv'
  BY <1>0, <1>2, <1>19 DEF MarkReadState
<1>20. ASSUME NEW u \in Users, MarkAllAsRead(u) PROVE TypeInv'
  BY <1>0, <1>2, <1>20 DEF MarkAllAsRead
<1>21. ASSUME NEW u \in Users, NEW e \in Events, Delete(e, u) PROVE TypeInv'
  <2>1. copies[e][u] \in Nat /\ copies[e][u] > 0
    BY <1>0, <1>21 DEF Delete
  <2>2. copies' \in [Events -> [Users -> Nat]]
    BY <1>0, <1>21, <2>1 DEF Delete
  <2>. QED
    BY <1>0, <1>2, <1>21, <2>2 DEF Delete
<1>22. ASSUME NEW u \in Users, Deactivate(u) PROVE TypeInv'
  BY <1>0, <1>2, <1>22 DEF Deactivate, rows
<1>. QED
  BY <1>1, <1>6, <1>7, <1>8, <1>9, <1>10, <1>11, <1>12, <1>13, <1>14, <1>15, <1>16, <1>17,
     <1>18, <1>19, <1>20, <1>21, <1>22, StepCases

(* Every variable keeps its type: processes, jobs and the inbox.           *)
THEOREM TypeCorrect == Spec => []TypeOK
<1>1. Init => TypeInv
  BY DEF Init, TypeInv, TypeOK, AttemptsLeft, Open, Job
<1>. QED
  BY <1>1, TypeInductive, PTL DEF Spec, TypeInv
-----------------------------------------------------------------------------
(***************************************************************************)
(* Deliveries. A delivery in progress holds every recipient that is still  *)
(* active, and only recipients; when it is done, the event is delivered.   *)
(* What is delivered stays delivered: a row goes only when its user        *)
(* deletes it.                                                             *)
(***************************************************************************)
Everyone(e) == Recipients(e, InCharge[e])
Informed(d) ==
  /\ d.phase \in {"active", "insert"} =>
       Everyone(d.event) \cap active \subseteq d.users /\ d.users \subseteq Everyone(d.event)
  /\ d.phase = "done" => Delivered(d.event)
DeliveriesInformed == \A p \in Deliverers : task[p] # None => Informed(task[p])
DeliveryInv == TypeInv /\ OncePerRecipient /\ CompletedIsDelivered /\ DeliveriesInformed

(* No step brings a user back, removes a row behind its user's back, or    *)
(* forgets a deletion.                                                     *)
InboxKept ==
  /\ active' \subseteq active /\ deleted \subseteq deleted'
  /\ \A e \in Events, u \in Users :
       copies[e][u] > 0 => copies'[e][u] > 0 \/ <<e, u>> \in deleted'

LEMMA EveryoneIsUser == \A e \in Events : Everyone(e) \subseteq Users
BY DEF Everyone, Recipients

LEMMA DeliveredKept ==
  ASSUME InboxKept, NEW e \in Events, Delivered(e)
  PROVE  Delivered(e)'
BY EveryoneIsUser DEF InboxKept, Delivered, Everyone

(* What one insertion writes: a row for every user it is given, and a      *)
(* second one for nobody.                                                  *)
LEMMA CreateManyOnce ==
  ASSUME TypeOK, OncePerRecipient, NEW e \in Events, NEW us \in SUBSET Everyone(e),
         CreateMany(e, us)
  PROVE  /\ OncePerRecipient'
         /\ deleted' = deleted
         /\ \A f \in Events, u \in Users : copies[f][u] > 0 => copies'[f][u] > 0
         /\ \A u \in us : copies'[e][u] > 0
<1>1. /\ copies \in [Events -> [Users -> Nat]] /\ us \subseteq Users
  BY EveryoneIsUser DEF TypeOK
<1>2. copies' = [copies EXCEPT ![e] = [u \in Users |->
                   IF u \in us /\ copies[e][u] = 0 THEN copies[e][u] + 1 ELSE copies[e][u]]]
      /\ deleted' = deleted
  BY <1>1 DEF CreateMany
<1>3. \A f \in Events, u \in Users :
        copies'[f][u] = IF f = e /\ u \in us /\ copies[f][u] = 0 THEN 1 ELSE copies[f][u]
  BY <1>1, <1>2
<1>4. OncePerRecipient'
  BY <1>1, <1>3 DEF OncePerRecipient, Everyone
<1>. QED
  BY <1>1, <1>2, <1>3, <1>4

(* The inbox under every step. *)
LEMMA InboxSteps ==
  ASSUME DeliveryInv, [Next]_vars
  PROVE  InboxKept /\ OncePerRecipient'
<1>0. /\ TypeOK /\ OncePerRecipient /\ copies \in [Events -> [Users -> Nat]]
      /\ task \in [Deliverers -> Delivery \cup {None}]
  BY DEF DeliveryInv, TypeInv, TypeOK
<1>1. UNCHANGED <<active, copies, deleted>> => InboxKept /\ OncePerRecipient'
  BY <1>0 DEF InboxKept, OncePerRecipient
<1>2. ASSUME NEW p \in Deliverers, Insert(p) PROVE InboxKept /\ OncePerRecipient'
  <2>. DEFINE d == task[p]
  <2>1. d \in Delivery /\ d.phase = "insert" /\ Informed(d) /\ d.event \in Events
    BY <1>0, <1>2 DEF Insert, DeliveryInv, DeliveriesInformed, Delivery
  <2>2. CreateMany(d.event, d.users) /\ active' = active
    BY <1>2 DEF Insert
  <2>3. d.users \in SUBSET Everyone(d.event)
    BY <2>1 DEF Informed
  <2>. HIDE DEF d
  <2>. QED
    BY <1>0, <2>1, <2>2, <2>3, CreateManyOnce DEF InboxKept
<1>3. ASSUME NEW u \in Users, NEW e \in Events, Delete(e, u)
      PROVE  InboxKept /\ OncePerRecipient'
  <2>1. copies[e][u] \in Nat /\ copies[e][u] > 0 /\ active' = active
        /\ copies' = [copies EXCEPT ![e][u] = @ - 1] /\ deleted' = deleted \cup {<<e, u>>}
    BY <1>0, <1>3 DEF Delete
  <2>2. \A f \in Events, v \in Users :
          copies'[f][v] = IF f = e /\ v = u THEN copies[f][v] - 1 ELSE copies[f][v]
    BY <1>0, <2>1
  <2>3. \A f \in Events, v \in Users : copies[f][v] \in Nat
    BY <1>0
  <2>4. InboxKept
    BY <2>1, <2>2, <2>3 DEF InboxKept
  <2>5. ASSUME NEW f \in Events, NEW v \in Users
        PROVE  copies'[f][v] <= IF v \in Recipients(f, InCharge[f]) THEN 1 ELSE 0
    BY <1>0, <2>1, <2>2, <2>3 DEF OncePerRecipient
  <2>. QED
    BY <2>4, <2>5 DEF OncePerRecipient
<1>4. ASSUME NEW u \in Users, Deactivate(u) PROVE InboxKept /\ OncePerRecipient'
  BY <1>0, <1>4 DEF Deactivate, InboxKept, OncePerRecipient, rows
<1>. QED
  BY <1>1, <1>2, <1>3, <1>4, StepCases DEF vars, rows, Publish, Dispatch, Enqueue, EnqueueFails,
     Stall, StopApi, FindHandlers, FindActive, Finish, DeliveryFails, StopWorker, Take,
     MarkReadState, MarkAllAsRead

(* Deliveries under every step: p's is new, goes on, ends, or stays. *)
LEMMA DeliverySteps ==
  ASSUME DeliveryInv, InboxKept, [Next]_vars
  PROVE  DeliveriesInformed'
<1>0. /\ task \in [Deliverers -> Delivery \cup {None}] /\ DeliveriesInformed
      /\ Events \subseteq Deliverers /\ Workers \subseteq Deliverers
      /\ copies \in [Events -> [Users -> Nat]]
  BY DEF DeliveryInv, TypeInv, TypeOK, Deliverers
<1>1. ASSUME NEW d \in Delivery, Informed(d) PROVE Informed(d)'
  <2>1. d.event \in Events
    BY DEF Delivery
  <2>2. Delivered(d.event) => Delivered(d.event)'
    BY <2>1, DeliveredKept
  <2>. QED
    BY <1>1, <2>2 DEF Informed, InboxKept, Everyone
<1>2. task' = task => DeliveriesInformed'
  BY <1>0, <1>1 DEF DeliveriesInformed
<1>3. ASSUME NEW p \in Deliverers, NEW d, task' = [task EXCEPT ![p] = d], d = None \/ Informed(d)'
      PROVE  DeliveriesInformed'
  <2>1. ASSUME NEW q \in Deliverers, NEW x, x = task'[q], x # None PROVE Informed(x)'
    <3>1. CASE x = d /\ d # None
      BY <1>3, <3>1
    <3>2. CASE x = task[q]
      BY <1>0, <1>1, <2>1, <3>2 DEF DeliveriesInformed
    <3>. QED
      BY <1>0, <1>3, <2>1, <3>1, <3>2
  <2>. QED
    BY <2>1 DEF DeliveriesInformed, Informed, Delivered, Everyone
<1>4. \A e \in Events : Informed(NewDelivery(e))'
  BY DEF NewDelivery, Informed
<1>5. ASSUME NEW e \in Events, StartDirect(e) PROVE DeliveriesInformed'
  <2>1. task' = [task EXCEPT ![e] = NewDelivery(e)]
    BY <1>5 DEF StartDirect
  <2>. QED
    BY <1>0, <1>3, <1>4, <2>1
<1>6. ASSUME NEW e \in Events, Dispatch(e) \/ EnqueueFails(e) PROVE DeliveriesInformed'
  BY <1>2, <1>5, <1>6 DEF Dispatch, EnqueueFails
<1>7. CASE StopApi
  <2>1. ASSUME NEW q \in Deliverers, NEW x, x = task'[q], x # None PROVE Informed(x)'
    <3>1. x = task[q]
      BY <1>7, <2>1 DEF StopApi
    <3>. QED
      BY <1>0, <1>1, <2>1, <3>1 DEF DeliveriesInformed
  <2>. QED
    BY <2>1 DEF DeliveriesInformed, Informed, Delivered, Everyone
<1>8. ASSUME NEW p \in Deliverers, FindHandlers(p) PROVE DeliveriesInformed'
  <2>0. PICK e, us, d : /\ e = task[p].event /\ us = Recipients(e, InCharge[e] \cap active)
                        /\ d = [task[p] EXCEPT !.phase = "active", !.users = us]
    OBVIOUS
  <2>1. task[p] \in Delivery /\ active' = active
    BY <1>0, <1>8 DEF FindHandlers
  <2>2. d.phase = "active" /\ d.users = us /\ d.event = e
    BY <2>0, <2>1 DEF Delivery
  <2>3. task' = [task EXCEPT ![p] = d]
    BY <1>0, <1>8, <2>0, <2>1 DEF FindHandlers, Delivery
  <2>4. Everyone(e) \cap active \subseteq us /\ us \subseteq Everyone(e)
    BY <2>0 DEF Everyone, Recipients
  <2>5. Informed(d)'
    BY <2>1, <2>2, <2>4 DEF Informed, Everyone
  <2>. QED
    BY <1>3, <2>3, <2>5
<1>9. ASSUME NEW p \in Deliverers, FindActive(p) PROVE DeliveriesInformed'
  <2>0. PICK us, d : /\ us = task[p].users \cap active
                     /\ d = [task[p] EXCEPT !.phase = "insert", !.users = us]
    OBVIOUS
  <2>1. task[p] \in Delivery /\ active' = active /\ Informed(task[p]) /\ task[p].phase = "active"
    BY <1>0, <1>9 DEF FindActive, DeliveriesInformed
  <2>2. d.phase = "insert" /\ d.users = us /\ d.event = task[p].event
    BY <2>0, <2>1 DEF Delivery
  <2>3. task' = [task EXCEPT ![p] = d]
    BY <1>0, <1>9, <2>0, <2>1 DEF FindActive, Delivery
  <2>4. Everyone(d.event) \cap active \subseteq us /\ us \subseteq Everyone(d.event)
    BY <2>0, <2>1, <2>2 DEF Informed
  <2>5. Informed(d)'
    BY <2>1, <2>2, <2>4 DEF Informed, Everyone
  <2>. QED
    BY <1>3, <2>3, <2>5
<1>10. ASSUME NEW p \in Deliverers, Insert(p) PROVE DeliveriesInformed'
  <2>0. PICK d, e, us : /\ d = [task[p] EXCEPT !.phase = "done"]
                        /\ e = task[p].event /\ us = task[p].users
    OBVIOUS
  <2>1. task[p] \in Delivery /\ active' = active /\ Informed(task[p]) /\ task[p].phase = "insert"
    BY <1>0, <1>10 DEF Insert, DeliveriesInformed
  <2>2. d.phase = "done" /\ d.event = e /\ e \in Events
    BY <2>0, <2>1 DEF Delivery
  <2>3. task' = [task EXCEPT ![p] = d] /\ CreateMany(e, us)
    BY <1>0, <1>10, <2>0, <2>1 DEF Insert, Delivery
  <2>4. us \in SUBSET Everyone(e) /\ Everyone(e) \cap active \subseteq us
    BY <2>0, <2>1 DEF Informed
  <2>5. \A u \in us : copies'[e][u] > 0
    BY <2>2, <2>3, <2>4, CreateManyOnce DEF DeliveryInv, TypeInv
  <2>6. Delivered(e)'
    BY <2>1, <2>4, <2>5 DEF Delivered, Everyone
  <2>7. Informed(d)'
    BY <2>2, <2>6 DEF Informed
  <2>. QED
    BY <1>3, <2>3, <2>7
<1>11. ASSUME NEW p \in Deliverers, Finish(p) \/ DeliveryFails(p) PROVE DeliveriesInformed'
  <2>1. task' = [task EXCEPT ![p] = None]
    BY <1>11 DEF Finish, DeliveryFails
  <2>. QED
    BY <1>3, <2>1
<1>12. ASSUME NEW w \in Workers, NEW e \in Events, Take(w, e) PROVE DeliveriesInformed'
  <2>1. task' = [task EXCEPT ![w] = NewDelivery(e)] /\ w \in Deliverers
    BY <1>0, <1>12 DEF Take
  <2>. QED
    BY <1>3, <1>4, <2>1
<1>13. ASSUME NEW w \in Workers, StopWorker(w) PROVE DeliveriesInformed'
  <2>1. task' = [task EXCEPT ![w] = None] /\ w \in Deliverers
    BY <1>0, <1>13 DEF StopWorker
  <2>. QED
    BY <1>3, <2>1
<1>. QED
  BY <1>2, <1>6, <1>7, <1>8, <1>9, <1>10, <1>11, <1>12, <1>13, StepCases
     DEF vars, Publish, Enqueue, Stall, MarkReadState, MarkAllAsRead, Delete, Deactivate

(* What counts as done under every step: only the end of a delivery makes  *)
(* a job completed, or an event that is not in the queue handled.          *)
LEMMA CompletionSteps ==
  ASSUME DeliveryInv, InboxKept, [Next]_vars
  PROVE  CompletedIsDelivered'
<1>0. /\ task \in [Deliverers -> Delivery \cup {None}] /\ DeliveriesInformed /\ CompletedIsDelivered
      /\ job \in [Events -> Job] /\ \A e \in Events : Open(job[e]) /\ job[e] \in Job
      /\ pub \in [Events -> {"none", "scheduled", "enqueuing", "delivering",
                             "handled", "logged", "lost"}]
  BY DEF DeliveryInv, TypeInv, TypeOK, AttemptsLeft
<1>. DEFINE Done(f) == \/ job[f].state = "completed"
                       \/ pub[f] = "handled" /\ job[f].state = "absent"
<1>1. ASSUME \A f \in Events : Done(f)' => Done(f) \/ Delivered(f)
      PROVE  CompletedIsDelivered'
  <2>1. ASSUME NEW f \in Events, Done(f)' PROVE Delivered(f)'
    <3>1. Delivered(f)
      BY <1>0, <1>1, <2>1 DEF CompletedIsDelivered
    <3>. QED
      BY <3>1, DeliveredKept
  <2>. QED
    BY <2>1 DEF CompletedIsDelivered
<1>2. ASSUME NEW e \in Events, job' = [job EXCEPT ![e] = job'[e]], job'[e].state \in {"waiting", "active", "failed"},
             pub' = pub \/ pub' = [pub EXCEPT ![e] = pub'[e]]
      PROVE  \A f \in Events : Done(f)' => Done(f) \/ Delivered(f)
  BY <1>0, <1>2
<1>3. ASSUME job' = job, NEW e \in Events, pub' = [pub EXCEPT ![e] = pub'[e]], pub'[e] # "handled"
      PROVE  \A f \in Events : Done(f)' => Done(f) \/ Delivered(f)
  BY <1>0, <1>3
<1>4. UNCHANGED <<job, pub>> => CompletedIsDelivered'
  BY <1>1
<1>5. ASSUME NEW e \in Events, Publish(e) \/ Dispatch(e) PROVE CompletedIsDelivered'
  <2>1. job' = job /\ \E x \in {"scheduled", "enqueuing", "delivering"} : pub' = [pub EXCEPT ![e] = x]
    BY <1>5 DEF Publish, Dispatch, StartDirect
  <2>2. pub' = [pub EXCEPT ![e] = pub'[e]] /\ pub'[e] # "handled"
    BY <1>0, <2>1
  <2>. QED
    BY <1>1, <1>3, <2>1, <2>2
<1>6. ASSUME NEW e \in Events, Enqueue(e) \/ EnqueueFails(e) PROVE CompletedIsDelivered'
  <2>1. job' = job \/ job' = [job EXCEPT ![e].state = IF @ = "absent" THEN "waiting" ELSE @]
    BY <1>6 DEF Enqueue, EnqueueFails, Added
  <2>2. \E x \in {"handled", "delivering"} : pub' = [pub EXCEPT ![e] = x]
    BY <1>6 DEF Enqueue, EnqueueFails, StartDirect
  <2>3. Enqueue(e) => job' = [job EXCEPT ![e].state = IF @ = "absent" THEN "waiting" ELSE @]
    BY DEF Enqueue, Added
  <2>4. EnqueueFails(e) => pub' = [pub EXCEPT ![e] = "delivering"]
    BY DEF EnqueueFails, StartDirect
  <2>6. \A f \in Events \ {e} : job'[f] = job[f] /\ pub'[f] = pub[f]
    BY <1>0, <2>1, <2>2
  <2>5. job'[e].state = "completed" => job[e].state = "completed"
    <3>1. CASE job' = job
      BY <3>1
    <3>2. CASE job' = [job EXCEPT ![e].state = IF @ = "absent" THEN "waiting" ELSE @]
      <4>1. job'[e].state = IF job[e].state = "absent" THEN "waiting" ELSE job[e].state
        BY <1>0, <3>2 DEF Job
      <4>. QED
        BY <4>1
    <3>. QED
      BY <2>1, <3>1, <3>2
  <2>7. ~(pub'[e] = "handled" /\ job'[e].state = "absent")
    BY <1>0, <1>6, <2>3, <2>4 DEF Job
  <2>. QED
    BY <1>1, <2>5, <2>6, <2>7
<1>7. CASE StopApi
  BY <1>0, <1>1, <1>7 DEF StopApi
<1>8. ASSUME NEW p \in Deliverers, Finish(p) PROVE CompletedIsDelivered'
  <2>. DEFINE e == task[p].event
  <2>1. task[p] \in Delivery /\ e \in Events /\ Informed(task[p]) /\ task[p].phase = "done"
    BY <1>0, <1>8 DEF Finish, DeliveriesInformed, Delivery
  <2>2. Delivered(e)
    BY <2>1 DEF Informed
  <2>3. /\ job' = job \/ job' = [job EXCEPT ![e].state = "completed", ![e].holder = None]
        /\ pub' = pub \/ pub' = [pub EXCEPT ![e] = "handled"]
    BY <1>8 DEF Finish
  <2>. HIDE DEF e
  <2>4. \A f \in Events \ {e} : job'[f] = job[f] /\ pub'[f] = pub[f]
    BY <1>0, <2>1, <2>3
  <2>. QED
    BY <1>1, <2>2, <2>4
<1>9. ASSUME NEW p \in Deliverers, DeliveryFails(p) PROVE CompletedIsDelivered'
  <2>. DEFINE e == task[p].event
  <2>1. e \in Events
    BY <1>0, <1>9 DEF DeliveryFails, Delivery
  <2>2. /\ \/ job' = job
           \/ job[e].state = "active" /\ job' = [job EXCEPT ![e] = Retry(e)]
        /\ pub' = pub \/ pub' = [pub EXCEPT ![e] = "logged"]
    BY <1>9 DEF DeliveryFails, Holds
  <2>. HIDE DEF e
  <2>3. job[e].state = "active" => Retry(e).state \in {"waiting", "failed"}
    BY <1>0, <2>1, RetryTyped
  <2>4. \A f \in Events : Done(f)' => Done(f)
    BY <1>0, <2>1, <2>2, <2>3
  <2>. QED
    BY <1>1, <2>4
<1>10. ASSUME NEW e \in Events, Stall(e) PROVE CompletedIsDelivered'
  <2>1. pub' = pub /\ job' = [job EXCEPT ![e] = job'[e]] /\ job'[e].state \in {"waiting", "failed"}
    BY <1>0, <1>10 DEF Stall, Job
  <2>. QED
    BY <1>1, <1>2, <2>1
<1>11. ASSUME NEW w \in Workers, NEW e \in Events, Take(w, e) PROVE CompletedIsDelivered'
  <2>1. pub' = pub /\ job' = [job EXCEPT ![e] = job'[e]] /\ job'[e].state = "active"
    BY <1>0, <1>11 DEF Take, Job
  <2>. QED
    BY <1>1, <1>2, <2>1
<1>. QED
  BY <1>4, <1>5, <1>6, <1>7, <1>8, <1>9, <1>10, <1>11, StepCases
     DEF vars, FindHandlers, FindActive, Insert, StopWorker, MarkReadState, MarkAllAsRead,
         Delete, Deactivate

LEMMA DeliveryInductive == Spec => []DeliveryInv
<1>1. Init => DeliveryInv
  BY DEF Init, DeliveryInv, TypeInv, TypeOK, AttemptsLeft, Open, Job, OncePerRecipient,
         CompletedIsDelivered, DeliveriesInformed
<1>2. DeliveryInv /\ [Next]_vars => DeliveryInv'
  <2>. SUFFICES ASSUME DeliveryInv, [Next]_vars PROVE DeliveryInv'
    OBVIOUS
  <2>1. TypeInv'
    BY TypeInductive DEF DeliveryInv
  <2>2. InboxKept /\ OncePerRecipient'
    BY InboxSteps
  <2>. QED
    BY <2>1, <2>2, DeliverySteps, CompletionSteps DEF DeliveryInv
<1>. QED
  BY <1>1, <1>2, PTL DEF Spec

(* A recipient has at most one notification of an event, and nobody else   *)
(* has one, however many deliveries of it overlap (createMany and the      *)
(* unique index on recipient and event key).                               *)
THEOREM RecipientsNotifiedOnce == Spec => []OncePerRecipient
BY DeliveryInductive, PTL DEF DeliveryInv

(* What the queue counts as completed, or the API as handled without the   *)
(* queue, has reached every recipient that is still active.                *)
THEOREM CompletedWasDelivered == Spec => []CompletedIsDelivered
BY DeliveryInductive, PTL DEF DeliveryInv

(* Deliveries again, by any worker or the API, make no notification unread *)
(* that its recipient has read: createMany skips the rows that exist, and  *)
(* the steps of users are no steps of a delivery.                          *)
THEOREM RedeliveryQuiet == Spec => RedeliveryKeepsRead
<1>. DEFINE Quiet == \A p \in Deliverers : task'[p] # task[p] =>
              \A e \in Events, u \in Users :
                copies[e][u] > 0 /\ ~unread[e][u] => ~unread'[e][u]
<1>1. ASSUME TypeOK, [Next]_vars PROVE Quiet
  <2>1. CASE UNCHANGED unread
    BY <2>1
  <2>2. CASE UNCHANGED task
    BY <2>2
  <2>3. ASSUME NEW p \in Deliverers, Insert(p) PROVE Quiet
    <3>. DEFINE e == task[p].event  fresh == {u \in task[p].users : copies[e][u] = 0}
    <3>1. task[p] \in Delivery
      BY <1>1, <2>3 DEF Insert, TypeOK
    <3>2. e \in Events
      BY <3>1 DEF Delivery
    <3>3. unread' = [unread EXCEPT ![e] = [u \in Users |-> u \in fresh \/ unread[e][u]]]
      BY <2>3 DEF Insert, CreateMany
    <3>4. unread \in [Events -> [Users -> BOOLEAN]]
      BY <1>1 DEF TypeOK
    <3>5. ASSUME NEW f \in Events, NEW u \in Users, copies[f][u] > 0, ~unread[f][u]
          PROVE  ~unread'[f][u]
      <4>1. CASE f # e
        BY <3>3, <3>4, <3>5, <4>1
      <4>2. CASE f = e
        <5>1. u \notin fresh
          BY <3>5, <4>2
        <5>. HIDE DEF fresh
        <5>2. unread'[f][u] = (u \in fresh \/ unread[f][u])
          BY <3>2, <3>3, <3>4, <4>2
        <5>. QED
          BY <3>5, <5>1, <5>2
      <4>. QED
        BY <4>1, <4>2
    <3>. QED
      BY <3>5
  <2>4. \/ UNCHANGED unread \/ UNCHANGED task \/ \E p \in Deliverers : Insert(p)
    BY <1>1, StepCases DEF vars, rows, Publish, Dispatch, Enqueue, EnqueueFails, Stall, StopApi,
       FindHandlers, FindActive, Finish, DeliveryFails, StopWorker, Take, MarkReadState, Delete,
       MarkAllAsRead, Deactivate
  <2>. QED
    BY <2>1, <2>2, <2>3, <2>4
<1>. QED
  BY <1>1, TypeCorrect, PTL DEF Spec, RedeliveryKeepsRead
-----------------------------------------------------------------------------
(***************************************************************************)
(* Inbox. An insertion is Notify; the end of a delivery settles its event, *)
(* if anything counts as done by it; what users do is what Inbox has them  *)
(* do; the rest, down to the last stalled job, users cannot see.           *)
(***************************************************************************)

(* Only published events have jobs and deliveries, and the API counts an   *)
(* event as handled, or its delivery as failed, once.                      *)
OriginInv ==
  /\ \A e \in Events : job[e].state # "absent" => pub[e] # "none"
  /\ \A p \in Deliverers : task[p] # None => pub[task[p].event] # "none"
  /\ \A e \in Events : task[e] # None => task[e].event = e /\ pub[e] = "delivering"

(* What Inbox sees of the service. *)
Seen == [e \in Events |-> [u \in Users |-> Shown(e, u)]]
View == <<active, Published, Settled, Seen>>
Counted(e) == job[e].state = "completed" \/ (pub[e] = "handled" /\ job[e].state = "absent")

(* The steps of the API on one event, and of the queue on its job. *)
LEMMA EventSteps ==
  ASSUME TypeInv, OriginInv, NEW e \in Events,
         Publish(e) \/ Dispatch(e) \/ Enqueue(e) \/ EnqueueFails(e) \/ Stall(e)
           \/ \E w \in Workers : Take(w, e)
  PROVE  /\ \A f \in Events \ {e} : job'[f] = job[f] /\ pub'[f] = pub[f]
         /\ pub'[e] # "none" /\ (Counted(e)' <=> Counted(e))
         /\ pub[e] = "none" => Publish(e)
         /\ UNCHANGED <<active, rows>>
<1>0. /\ job \in [Events -> Job] /\ job[e] \in Job
      /\ pub \in [Events -> {"none", "scheduled", "enqueuing", "delivering",
                             "handled", "logged", "lost"}]
  BY DEF TypeInv, TypeOK
<1>1. ASSUME Publish(e) \/ Dispatch(e)
      PROVE  /\ \A f \in Events \ {e} : job'[f] = job[f] /\ pub'[f] = pub[f]
             /\ pub'[e] # "none" /\ (Counted(e)' <=> Counted(e))
  <2>1. job' = job /\ \E x \in {"scheduled", "enqueuing", "delivering"} : pub' = [pub EXCEPT ![e] = x]
    BY <1>1 DEF Publish, Dispatch, StartDirect
  <2>2. pub[e] \in {"none", "scheduled"}
    BY <1>1 DEF Publish, Dispatch
  <2>. QED
    BY <1>0, <2>1, <2>2 DEF Counted
<1>2. ASSUME Enqueue(e) \/ EnqueueFails(e)
      PROVE  /\ \A f \in Events \ {e} : job'[f] = job[f] /\ pub'[f] = pub[f]
             /\ pub'[e] # "none" /\ (Counted(e)' <=> Counted(e))
  <2>1. \/ job' = Added(e) /\ pub' = [pub EXCEPT ![e] = "handled"]
        \/ job' \in {job, Added(e)} /\ pub' = [pub EXCEPT ![e] = "delivering"]
    BY <1>2 DEF Enqueue, EnqueueFails, StartDirect
  <2>2. pub[e] = "enqueuing"
    BY <1>2 DEF Enqueue, EnqueueFails
  <2>3. /\ \A f \in Events \ {e} : Added(e)[f] = job[f]
        /\ Added(e)[e].state = IF job[e].state = "absent" THEN "waiting" ELSE job[e].state
    BY <1>0 DEF Added, Job
  <2>. QED
    BY <1>0, <2>1, <2>2, <2>3 DEF Counted
<1>3. ASSUME Stall(e) \/ \E w \in Workers : Take(w, e)
      PROVE  /\ \A f \in Events \ {e} : job'[f] = job[f] /\ pub'[f] = pub[f]
             /\ pub'[e] # "none" /\ (Counted(e)' <=> Counted(e))
  <2>1. pub' = pub /\ job[e].state \in {"waiting", "active"}
    BY <1>3 DEF Stall, Take
  <2>2. job' = [job EXCEPT ![e] = job'[e]] /\ job'[e].state \in {"waiting", "active", "failed"}
    <3>1. CASE Stall(e)
      BY <1>0, <3>1 DEF Stall, Job
    <3>2. ASSUME NEW w \in Workers, Take(w, e)
          PROVE  job' = [job EXCEPT ![e] = job'[e]] /\ job'[e].state = "active"
      BY <1>0, <3>2 DEF Take, Job
    <3>. QED
      BY <1>3, <3>1, <3>2
  <2>3. pub[e] # "none"
    BY <2>1 DEF OriginInv
  <2>. QED
    BY <1>0, <2>1, <2>2, <2>3 DEF Counted
<1>4. pub[e] = "none" => Publish(e)
  BY DEF Dispatch, Enqueue, EnqueueFails, Stall, Take, OriginInv
<1>5. UNCHANGED <<active, rows>>
  BY DEF Publish, Dispatch, Enqueue, EnqueueFails, Stall, Take
<1>. QED
  BY <1>1, <1>2, <1>3, <1>4, <1>5

(* The ends of deliveries. *)
LEMMA EndSteps ==
  ASSUME TypeInv, OriginInv, NEW p \in Deliverers, NEW e, e = task[p].event,
         Finish(p) \/ DeliveryFails(p)
  PROVE  /\ e \in Events /\ \A f \in Events \ {e} : job'[f] = job[f] /\ pub'[f] = pub[f]
         /\ pub[e] # "none" /\ pub'[e] # "none"
         /\ Counted(e) => Counted(e)'
         /\ DeliveryFails(p) => (Counted(e)' => Counted(e))
         /\ UNCHANGED <<active, rows>>
<1>0. /\ job \in [Events -> Job] /\ \A f \in Events : Open(job[f])
      /\ task \in [Deliverers -> Delivery \cup {None}]
      /\ pub \in [Events -> {"none", "scheduled", "enqueuing", "delivering",
                             "handled", "logged", "lost"}]
  BY DEF TypeInv, TypeOK, AttemptsLeft
<1>1. task[p] # None /\ task[p] \in Delivery /\ e \in Events /\ job[e] \in Job
  BY <1>0 DEF Finish, DeliveryFails, Delivery
<1>2. pub[e] # "none"
  BY <1>1 DEF OriginInv
<1>3. p = e => pub[e] = "delivering" /\ ~Holds(p, e)
  <2>1. p = e => p \in Events /\ e \notin Workers \cup {None}
    BY <1>1
  <2>2. job[e].holder \in Workers \cup {None}
    BY <1>1 DEF Job
  <2>. QED
    BY <1>1, <2>1, <2>2 DEF OriginInv, Holds
<1>4. UNCHANGED <<active, rows>>
  BY DEF Finish, DeliveryFails
<1>5. CASE Finish(p)
  <2>1. /\ job' = IF Holds(p, e)
                    THEN [job EXCEPT ![e].state = "completed", ![e].holder = None] ELSE job
        /\ pub' = IF p = e THEN [pub EXCEPT ![e] = "handled"] ELSE pub
    BY <1>5 DEF Finish
  <2>2. Holds(p, e) => job'[e].state = "completed"
    BY <1>0, <1>1, <2>1 DEF Job
  <2>3. \A f \in Events \ {e} : job'[f] = job[f] /\ pub'[f] = pub[f]
    BY <1>0, <2>1
  <2>4. pub'[e] # "none"
    BY <1>0, <1>1, <1>2, <2>1
  <2>5. Counted(e) => Counted(e)'
    BY <1>0, <1>1, <2>1, <2>2 DEF Counted
  <2>6. ~DeliveryFails(p)
    BY <1>5 DEF Finish, DeliveryFails
  <2>. QED
    BY <1>1, <1>2, <1>4, <2>3, <2>4, <2>5, <2>6
<1>6. CASE DeliveryFails(p)
  <2>1. /\ job' = IF Holds(p, e) THEN [job EXCEPT ![e] = Retry(e)] ELSE job
        /\ pub' = IF p = e THEN [pub EXCEPT ![e] = "logged"] ELSE pub
    BY <1>6 DEF DeliveryFails
  <2>2. Holds(p, e) => job[e].state = "active" /\ Retry(e).state \in {"waiting", "failed"}
    BY <1>0, <1>1, RetryTyped DEF Holds
  <2>3. \A f \in Events \ {e} : job'[f] = job[f] /\ pub'[f] = pub[f]
    BY <1>0, <2>1
  <2>4. pub'[e] # "none"
    BY <1>0, <1>1, <1>2, <2>1
  <2>5. Counted(e)' <=> Counted(e)
    <3>1. CASE Holds(p, e)
      BY <1>0, <1>1, <1>3, <2>1, <2>2, <3>1 DEF Counted
    <3>2. CASE ~Holds(p, e)
      BY <1>0, <1>1, <1>3, <2>1, <3>2 DEF Counted
    <3>. QED
      BY <3>1, <3>2
  <2>. QED
    BY <1>1, <1>2, <1>4, <2>3, <2>4, <2>5
<1>. QED
  BY <1>5, <1>6

LEMMA OriginInductive ==
  ASSUME TypeInv, OriginInv, [Next]_vars
  PROVE  OriginInv'
<1>0. /\ job \in [Events -> Job] /\ task \in [Deliverers -> Delivery \cup {None}]
      /\ pub \in [Events -> {"none", "scheduled", "enqueuing", "delivering",
                             "handled", "logged", "lost"}]
      /\ Events \subseteq Deliverers /\ Workers \subseteq Deliverers
      /\ \A p \in Deliverers : task[p] # None => task[p] \in Delivery /\ task[p].event \in Events
  BY DEF TypeInv, TypeOK, Deliverers, Delivery
<1>1. CASE UNCHANGED <<pub, job, task>>
  BY <1>1 DEF OriginInv
<1>2. ASSUME NEW e \in Events, Publish(e) PROVE OriginInv'
  <2>1. pub' = [pub EXCEPT ![e] = "scheduled"] /\ job' = job /\ task' = task /\ pub[e] = "none"
    BY <1>2 DEF Publish
  <2>2. task[e] = None
    BY <2>1 DEF OriginInv
  <2>. QED
    BY <1>0, <2>1, <2>2 DEF OriginInv
<1>3. ASSUME NEW e \in Events, Dispatch(e) \/ Enqueue(e) \/ EnqueueFails(e) PROVE OriginInv'
  <2>1. /\ \A f \in Events \ {e} : job'[f] = job[f] /\ pub'[f] = pub[f]
        /\ pub'[e] # "none" /\ pub[e] # "none" /\ pub[e] # "delivering"
    <3>1. pub[e] \in {"scheduled", "enqueuing"}
      BY <1>3 DEF Dispatch, Enqueue, EnqueueFails
    <3>. QED
      BY <1>3, <3>1, EventSteps
  <2>2. task[e] = None
    BY <2>1 DEF OriginInv
  <2>3. task' = task \/ (task' = [task EXCEPT ![e] = NewDelivery(e)] /\ pub' = [pub EXCEPT ![e] = "delivering"])
    BY <1>3 DEF Dispatch, Enqueue, EnqueueFails, StartDirect
  <2>4. CASE task' = task
    BY <1>0, <2>1, <2>2, <2>4 DEF OriginInv
  <2>5. CASE task' = [task EXCEPT ![e] = NewDelivery(e)] /\ pub' = [pub EXCEPT ![e] = "delivering"]
    <3>1. \A q \in Deliverers \ {e} : task'[q] = task[q]
      BY <1>0, <2>5
    <3>2. task'[e].event = e /\ pub'[e] = "delivering"
      BY <1>0, <2>5 DEF NewDelivery
    <3>. QED
      BY <1>0, <2>1, <3>1, <3>2 DEF OriginInv
  <2>. QED
    BY <2>3, <2>4, <2>5
<1>4. CASE StopApi
  BY <1>0, <1>4 DEF StopApi, OriginInv
<1>5. ASSUME NEW p \in Deliverers, FindHandlers(p) \/ FindActive(p) \/ Insert(p) PROVE OriginInv'
  <2>1. /\ pub' = pub /\ job' = job /\ task[p] # None
        /\ \A q \in Deliverers \ {p} : task'[q] = task[q]
    BY <1>0, <1>5 DEF FindHandlers, FindActive, Insert
  <2>2. task'[p].event = task[p].event
    BY <1>0, <1>5 DEF FindHandlers, FindActive, Insert, Delivery
  <2>. QED
    BY <1>0, <2>1, <2>2 DEF OriginInv
<1>6. ASSUME NEW p \in Deliverers, Finish(p) \/ DeliveryFails(p) PROVE OriginInv'
  <2>0. PICK e : e = task[p].event
    OBVIOUS
  <2>1. /\ e \in Events /\ \A f \in Events \ {e} : job'[f] = job[f] /\ pub'[f] = pub[f]
        /\ pub'[e] # "none"
    BY <1>6, <2>0, EndSteps
  <2>2. task' = [task EXCEPT ![p] = None] /\ (p # e => pub' = pub)
    BY <1>6, <2>0 DEF Finish, DeliveryFails
  <2>3. \A q \in Deliverers : task'[q] # None => q # p /\ task'[q] = task[q]
    BY <1>0, <2>2
  <2>4. \A f \in Events : task'[f] # None => pub'[f] = pub[f]
    BY <1>0, <2>1, <2>2, <2>3
  <2>. QED
    BY <1>0, <2>1, <2>3, <2>4 DEF OriginInv
<1>7. ASSUME NEW e \in Events, Stall(e) \/ \E w \in Workers : Take(w, e) PROVE OriginInv'
  <2>1. pub' = pub /\ pub[e] # "none" /\ \A f \in Events \ {e} : job'[f] = job[f]
    BY <1>7, EventSteps DEF Stall, Take
  <2>2. \A p \in Deliverers :
          \/ task'[p] = task[p]
          \/ p \notin Events /\ task'[p].event = e
    BY <1>0, <1>7 DEF Stall, Take, NewDelivery
  <2>. QED
    BY <1>0, <2>1, <2>2 DEF OriginInv
<1>8. ASSUME NEW w \in Workers, StopWorker(w) PROVE OriginInv'
  BY <1>0, <1>8 DEF StopWorker, OriginInv
<1>. QED
  BY <1>1, <1>2, <1>3, <1>4, <1>5, <1>6, <1>7, <1>8, StepCases
     DEF vars, MarkReadState, MarkAllAsRead, Delete, Deactivate

(* What Inbox sees moves as the rows and the events do. *)
LEMMA SameView ==
  ASSUME UNCHANGED <<active, rows>>, NEW e \in Events,
         \A f \in Events \ {e} : job'[f] = job[f] /\ pub'[f] = pub[f]
  PROVE  /\ active' = active /\ Seen' = Seen
         /\ (pub'[e] # "none" <=> pub[e] # "none") => Published' = Published
         /\ pub'[e] # "none" => Published' = Published \cup {e}
         /\ (Counted(e)' <=> Counted(e)) => Settled' = Settled
         /\ Counted(e)' => Settled' = Settled \cup {e}
<1>1. active' = active /\ Seen' = Seen
  BY DEF rows, Seen, Shown
<1>2. \A f \in Events \ {e} : /\ pub'[f] # "none" <=> pub[f] # "none"
                              /\ Counted(f)' <=> Counted(f)
  BY DEF Counted
<1>3. /\ (pub'[e] # "none" <=> pub[e] # "none") => Published' = Published
      /\ pub'[e] # "none" => Published' = Published \cup {e}
  BY <1>2 DEF Published
<1>4. /\ (Counted(e)' <=> Counted(e)) => Settled' = Settled
      /\ Counted(e)' => Settled' = Settled \cup {e}
  BY <1>2 DEF Settled, Counted
<1>. QED
  BY <1>1, <1>3, <1>4

(* A row is unread, read, deleted or none; a recipient has it or does not. *)
LEMMA ShownIs ==
  ASSUME TypeOK, OncePerRecipient, NEW e \in Events, NEW u \in Users
  PROVE  /\ copies[e][u] \in {0, 1}
         /\ copies[e][u] = 0 => Shown(e, u) = IF <<e, u>> \in deleted THEN "deleted" ELSE "none"
         /\ copies[e][u] = 1 => Shown(e, u) = IF unread[e][u] THEN "unread" ELSE "read"
         /\ copies[e][u] > 0 <=> Shown(e, u) \in {"unread", "read"}
<1>1. copies[e][u] \in Nat /\ copies[e][u] <= 1
  BY DEF TypeOK, OncePerRecipient
<1>. QED
  BY <1>1 DEF Shown

(* createMany is Notify: rows that exist stay as they are, and every other *)
(* one of the users it is given has a new one, deleted before or not.      *)
LEMMA InsertNotifies ==
  ASSUME DeliveryInv, OncePerRecipient', OriginInv, NEW p \in Deliverers, Insert(p)
  PROVE  [Box!Next]_View
<1>0. PICK e, us : e = task[p].event /\ us = task[p].users
  OBVIOUS
<1>1. /\ TypeOK /\ OncePerRecipient /\ copies \in [Events -> [Users -> Nat]]
      /\ unread \in [Events -> [Users -> BOOLEAN]]
  BY DEF DeliveryInv, TypeInv, TypeOK
<1>2. /\ task[p] # None /\ task[p] \in Delivery /\ e \in Events /\ us \in SUBSET Everyone(e)
      /\ us \in SUBSET Users
  <2>1. task[p] # None /\ task[p] \in Delivery /\ Informed(task[p]) /\ task[p].phase = "insert"
    BY DEF Insert, DeliveryInv, DeliveriesInformed, TypeInv, TypeOK
  <2>. QED
    BY <1>0, <2>1 DEF Informed, Delivery
<1>3. /\ copies' = [copies EXCEPT ![e] =
           [u \in Users |-> IF u \in us /\ copies[e][u] = 0 THEN copies[e][u] + 1 ELSE copies[e][u]]]
      /\ unread' = [unread EXCEPT ![e] =
           [u \in Users |-> (u \in us /\ copies[e][u] = 0) \/ unread[e][u]]]
      /\ deleted' = deleted
  <2>. DEFINE fresh == {u \in us : copies[e][u] = 0}
  <2>1. /\ copies' = [copies EXCEPT ![e] =
             [u \in Users |-> IF u \in fresh THEN copies[e][u] + 1 ELSE copies[e][u]]]
        /\ unread' = [unread EXCEPT ![e] = [u \in Users |-> u \in fresh \/ unread[e][u]]]
        /\ deleted' = deleted
    BY <1>0, <1>1, <1>2 DEF Insert, CreateMany
  <2>2. \A u : u \in fresh <=> u \in us /\ copies[e][u] = 0
    OBVIOUS
  <2>. HIDE DEF fresh
  <2>. QED
    BY <2>1, <2>2
<1>4. active' = active /\ Published' = Published /\ Settled' = Settled
  BY DEF Insert, Published, Settled
<1>5. ASSUME NEW u \in Users
      PROVE  Seen'[e][u] = IF u \in us /\ Seen[e][u] \notin {"unread", "read"} THEN "unread"
                           ELSE Seen[e][u]
  <2>1. Seen[e][u] = Shown(e, u) /\ Seen'[e][u] = Shown(e, u)'
    BY <1>2, <1>5 DEF Seen
  <2>2. copies[e][u] \in {0, 1} /\ (copies[e][u] > 0 <=> Shown(e, u) \in {"unread", "read"})
    BY <1>1, <1>2, <1>5, ShownIs
  <2>3. CASE u \in us /\ copies[e][u] = 0
    <3>1. copies'[e][u] = 1
      BY <1>1, <1>2, <1>3, <1>5, <2>3
    <3>2. unread'[e][u] = ((u \in us /\ copies[e][u] = 0) \/ unread[e][u])
      BY <1>1, <1>2, <1>3, <1>5
    <3>3. unread'[e][u]
      BY <2>3, <3>2
    <3>4. Shown(e, u)' = "unread"
      BY <3>1, <3>3 DEF Shown
    <3>. QED
      BY <2>1, <2>2, <2>3, <3>4
  <2>4. CASE ~(u \in us /\ copies[e][u] = 0)
    <3>1. copies'[e][u] = copies[e][u]
      BY <1>1, <1>2, <1>3, <1>5, <2>4
    <3>2. unread'[e][u] = unread[e][u]
      BY <1>1, <1>2, <1>3, <1>5, <2>4
    <3>3. Shown(e, u)' = Shown(e, u)
      BY <1>3, <3>1, <3>2 DEF Shown
    <3>. QED
      BY <2>1, <2>2, <2>4, <3>3
  <2>. QED
    BY <2>3, <2>4
<1>6. ASSUME NEW f \in Events \ {e}, NEW u \in Users PROVE Seen'[f][u] = Seen[f][u]
  <2>1. copies'[f] = copies[f] /\ unread'[f] = unread[f]
    BY <1>1, <1>3
  <2>. QED
    BY <1>3, <2>1 DEF Seen, Shown
<1>7. Seen' = [Seen EXCEPT ![e] =
         [u \in Users |-> IF u \in us /\ Seen[e][u] \notin {"unread", "read"} THEN "unread"
                          ELSE Seen[e][u]]]
  <2>1. /\ Seen = [f \in Events |-> [u \in Users |-> Seen[f][u]]]
        /\ Seen' = [f \in Events |-> [u \in Users |-> Seen'[f][u]]]
    BY DEF Seen
  <2>2. Seen'[e] = [u \in Users |-> IF u \in us /\ Seen[e][u] \notin {"unread", "read"}
                                    THEN "unread" ELSE Seen[e][u]]
    BY <1>2, <1>5, <2>1
  <2>3. \A f \in Events \ {e} : Seen'[f] = Seen[f]
    BY <1>6, <2>1
  <2>. QED
    BY <1>2, <2>1, <2>2, <2>3
<1>8. e \in Published
  BY <1>0, <1>2 DEF OriginInv, Published
<1>9. Box!Notify(e, us)
  BY <1>2, <1>4, <1>7, <1>8 DEF Box!Notify, Box!Has, Box!Held, Seen, Everyone
<1>. QED
  BY <1>2, <1>9 DEF Box!Next

(* What users do they do in Inbox. *)
LEMMA UserSteps ==
  ASSUME DeliveryInv, NEW u \in Users, UserStep(u)
  PROVE  [Box!Next]_View
<1>1. /\ TypeOK /\ OncePerRecipient /\ copies \in [Events -> [Users -> Nat]]
      /\ unread \in [Events -> [Users -> BOOLEAN]]
  BY DEF DeliveryInv, TypeInv, TypeOK
<1>2. Published' = Published /\ Settled' = Settled
  BY DEF UserStep, MarkReadState, Delete, MarkAllAsRead, Deactivate, Published, Settled
<1>3. ASSUME NEW e \in Events, NEW b \in BOOLEAN, MarkReadState(e, u, b) PROVE [Box!Next]_View
  <2>. DEFINE state == IF b THEN "read" ELSE "unread"
  <2>1. /\ copies[e][u] > 0 /\ unread' = [unread EXCEPT ![e][u] = ~b]
        /\ copies' = copies /\ deleted' = deleted /\ active' = active
    BY <1>3 DEF MarkReadState
  <2>2. copies[e][u] = 1 /\ Shown(e, u) \in {"unread", "read"}
    BY <1>1, <2>1, ShownIs
  <2>3. Shown(e, u)' = state
    <3>1. unread'[e][u] = ~b
      BY <1>1, <2>1
    <3>2. CASE b
      <4>1. ~unread'[e][u] /\ state = "read"
        BY <3>1, <3>2
      <4>. HIDE DEF state
      <4>. QED
        BY <2>1, <2>2, <4>1 DEF Shown
    <3>3. CASE ~b
      <4>1. unread'[e][u] /\ state = "unread"
        BY <3>1, <3>3
      <4>. HIDE DEF state
      <4>. QED
        BY <2>1, <2>2, <4>1 DEF Shown
    <3>. QED
      BY <3>2, <3>3
  <2>4. \A f \in Events, v \in Users : f # e \/ v # u => Shown(f, v)' = Shown(f, v)
    BY <1>1, <2>1 DEF Shown
  <2>5. Seen' = [Seen EXCEPT ![e][u] = state]
    BY <2>3, <2>4 DEF Seen
  <2>6. state \in {"unread", "read"}
    OBVIOUS
  <2>. HIDE DEF state
  <2>7. Box!MarkReadState(e, u, state)
    BY <1>2, <2>1, <2>2, <2>5, <2>6 DEF Box!MarkReadState, Box!Has, Box!Held, Seen
  <2>. QED
    BY <2>6, <2>7 DEF Box!Next, Box!Held
<1>4. ASSUME NEW e \in Events, Delete(e, u) PROVE [Box!Next]_View
  <2>1. /\ copies[e][u] > 0 /\ copies' = [copies EXCEPT ![e][u] = copies[e][u] - 1]
        /\ unread' = [unread EXCEPT ![e][u] = FALSE]
        /\ deleted' = deleted \cup {<<e, u>>} /\ active' = active
    BY <1>1, <1>4 DEF Delete
  <2>2. copies[e][u] = 1 /\ Shown(e, u) \in {"unread", "read"}
    BY <1>1, <2>1, ShownIs
  <2>3. Shown(e, u)' = "deleted"
    <3>1. copies'[e][u] = 0
      BY <1>1, <2>1, <2>2
    <3>. QED
      BY <2>1, <3>1 DEF Shown
  <2>4. ASSUME NEW f \in Events, NEW v \in Users, f # e \/ v # u PROVE Shown(f, v)' = Shown(f, v)
    <3>1. copies'[f][v] = copies[f][v]
      BY <1>1, <2>1, <2>4
    <3>2. unread'[f][v] = unread[f][v]
      BY <1>1, <2>1, <2>4
    <3>3. <<f, v>> \in deleted' <=> <<f, v>> \in deleted
      BY <2>1, <2>4
    <3>. QED
      BY <3>1, <3>2, <3>3 DEF Shown
  <2>5. Seen' = [Seen EXCEPT ![e][u] = "deleted"]
    BY <2>3, <2>4 DEF Seen
  <2>6. Box!Delete(e, u)
    BY <1>2, <2>1, <2>2, <2>5 DEF Box!Delete, Box!Has, Box!Held, Seen
  <2>. QED
    BY <2>6 DEF Box!Next
<1>5. CASE MarkAllAsRead(u)
  <2>1. /\ unread' = [e \in Events |-> [unread[e] EXCEPT ![u] = FALSE]]
        /\ copies' = copies /\ deleted' = deleted /\ active' = active
    BY <1>5 DEF MarkAllAsRead
  <2>2. ASSUME NEW e \in Events, NEW v \in Users
        PROVE  Shown(e, v)' = IF v = u /\ Shown(e, v) = "unread" THEN "read" ELSE Shown(e, v)
    <3>1. copies[e][v] \in {0, 1}
      BY <1>1, ShownIs
    <3>2. CASE v = u
      <4>1. ~unread'[e][v]
        BY <1>1, <2>1, <3>2
      <4>. QED
        BY <2>1, <3>1, <3>2, <4>1 DEF Shown
    <3>3. CASE v # u
      <4>1. unread'[e][v] = unread[e][v]
        BY <1>1, <2>1, <3>3
      <4>. QED
        BY <2>1, <3>1, <3>3, <4>1 DEF Shown
    <3>. QED
      BY <3>2, <3>3
  <2>3. Seen' = [e \in Events |-> [Seen[e] EXCEPT ![u] = IF Seen[e][u] = "unread" THEN "read" ELSE Seen[e][u]]]
    BY <2>2 DEF Seen
  <2>4. Box!MarkAllAsRead(u)
    BY <1>2, <2>1, <2>3 DEF Box!MarkAllAsRead, Seen
  <2>. QED
    BY <2>4 DEF Box!Next
<1>6. CASE Deactivate(u)
  <2>1. active' = active \ {u} /\ Seen' = Seen
    BY <1>6 DEF Deactivate, rows, Seen, Shown
  <2>2. Box!Deactivate(u)
    BY <1>2, <2>1 DEF Box!Deactivate, Seen
  <2>. QED
    BY <2>2 DEF Box!Next
<1>. QED
  BY <1>3, <1>4, <1>5, <1>6 DEF UserStep

(* What processes and queue do is to publish, to settle, or not seen. *)
LEMMA ProcessSteps ==
  ASSUME DeliveryInv, OriginInv, UNCHANGED <<active, rows>>, NEW e \in Events,
         \A f \in Events \ {e} : job'[f] = job[f] /\ pub'[f] = pub[f],
         pub'[e] # "none",
         \/ Counted(e)' <=> Counted(e)
         \/ pub[e] # "none" /\ Counted(e)' /\ Delivered(e)
  PROVE  [Box!Next]_View
<1>1. active' = active /\ Seen' = Seen /\ Published' = Published \cup {e}
  BY SameView
<1>2. CASE Counted(e)' <=> Counted(e)
  <2>1. Settled' = Settled
    BY <1>2, SameView
  <2>2. Box!Publish(e)
    BY <1>1, <2>1 DEF Box!Publish, Seen
  <2>. QED
    BY <2>2 DEF Box!Next
<1>3. CASE pub[e] # "none" /\ Counted(e)' /\ Delivered(e)
  <2>1. Settled' = Settled \cup {e} /\ Published' = Published /\ e \in Published
    BY <1>3, SameView DEF Published
  <2>2. ASSUME NEW u \in Recipients(e, InCharge[e]) \cap active PROVE Seen[e][u] # "none"
    <3>1. u \in Users /\ (copies[e][u] > 0 \/ <<e, u>> \in deleted)
      BY <1>3, EveryoneIsUser DEF Delivered, Everyone
    <3>2. copies[e][u] > 0 <=> Shown(e, u) \in {"unread", "read"}
      BY <3>1, ShownIs DEF DeliveryInv, TypeInv
    <3>3. Shown(e, u) # "none"
      BY <3>1, <3>2 DEF Shown
    <3>. QED
      BY <3>1, <3>3 DEF Seen
  <2>3. Box!Settle(e)
    BY <1>1, <2>1, <2>2 DEF Box!Settle, Seen
  <2>. QED
    BY <2>3 DEF Box!Next
<1>. QED
  BY <1>2, <1>3

(* The service implements Inbox: for any number of events, workers and     *)
(* retries, what users see of crashes, stalled jobs, fallbacks and         *)
(* overlapping deliveries is an inbox in which each event appears at most  *)
(* once at a time and counts as delivered only when nobody was left out.   *)
THEOREM InboxImplemented == Spec => ImplementsInbox
<1>1. Init => Box!Init /\ OriginInv
  <2>. SUFFICES ASSUME Init PROVE Box!Init /\ OriginInv
    OBVIOUS
  <2>1. OriginInv
    BY DEF Init, OriginInv, Deliverers
  <2>2. Published = {} /\ Settled = {}
    BY DEF Init, Published, Settled
  <2>3. \A e \in Events, u \in Users : Shown(e, u) = "none"
    BY DEF Init, Shown
  <2>. QED
    BY <2>1, <2>2, <2>3 DEF Init, Box!Init
<1>2. TypeInv /\ OriginInv /\ [Next]_vars => OriginInv'
  BY OriginInductive
<1>3. DeliveryInv /\ DeliveryInv' /\ OriginInv /\ [Next]_vars => [Box!Next]_View
  <2>. SUFFICES ASSUME DeliveryInv, DeliveryInv', OriginInv, [Next]_vars PROVE [Box!Next]_View
    OBVIOUS
  <2>0. TypeInv /\ OncePerRecipient'
    BY DEF DeliveryInv
  <2>1. ASSUME UNCHANGED <<active, pub, job, rows>> PROVE [Box!Next]_View
    <3>1. active' = active /\ Published' = Published /\ Settled' = Settled
      BY <2>1 DEF Published, Settled
    <3>2. Seen' = Seen
      BY <2>1 DEF rows, Seen, Shown
    <3>. QED
      BY <3>1, <3>2 DEF View
  <2>2. ASSUME NEW e \in Events,
               Publish(e) \/ Dispatch(e) \/ Enqueue(e) \/ EnqueueFails(e) \/ Stall(e)
                 \/ \E w \in Workers : Take(w, e)
        PROVE  [Box!Next]_View
    BY <2>0, <2>2, EventSteps, ProcessSteps
  <2>3. CASE StopApi
    <3>1. active' = active /\ Seen' = Seen
      BY <2>3 DEF StopApi, rows, Seen, Shown
    <3>2. Published' = Published /\ Settled' = Settled
      BY <2>0, <2>3 DEF StopApi, Published, Settled, TypeInv, TypeOK
    <3>. QED
      BY <3>1, <3>2 DEF View
  <2>4. ASSUME NEW p \in Deliverers, Insert(p) PROVE [Box!Next]_View
    BY <2>0, <2>4, InsertNotifies
  <2>5. ASSUME NEW p \in Deliverers, Finish(p) \/ DeliveryFails(p) PROVE [Box!Next]_View
    <3>0. PICK e : e = task[p].event
      OBVIOUS
    <3>1. /\ e \in Events /\ \A f \in Events \ {e} : job'[f] = job[f] /\ pub'[f] = pub[f]
          /\ pub[e] # "none" /\ pub'[e] # "none" /\ UNCHANGED <<active, rows>>
          /\ Counted(e) => Counted(e)'
          /\ DeliveryFails(p) => (Counted(e)' => Counted(e))
      BY <2>0, <2>5, <3>0, EndSteps
    <3>2. Finish(p) => Delivered(e)
      BY <3>0, <3>1 DEF Finish, DeliveryInv, DeliveriesInformed, Informed
    <3>. QED
      BY <2>5, <3>1, <3>2, ProcessSteps
  <2>6. ASSUME NEW u \in Users, UserStep(u) PROVE [Box!Next]_View
    BY <2>6, UserSteps
  <2>. QED
    BY <2>1, <2>2, <2>3, <2>4, <2>5, <2>6
       DEF Next, ApiStep, DeliveryStep, vars, FindHandlers, FindActive, StopWorker
<1>. QED
  BY <1>1, <1>2, <1>3, DeliveryInductive, PTL
     DEF Spec, ImplementsInbox, Box!Spec, Box!vars, View, Seen, DeliveryInv
=============================================================================
