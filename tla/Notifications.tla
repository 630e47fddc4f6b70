--------------------------- MODULE Notifications ----------------------------
(***************************************************************************)
(* The notification path (modules/notifications, workers/notification.     *)
(* worker.ts): a service publishes an event after its commit; the API      *)
(* process enqueues it in BullMQ, or delivers it itself when the queue is  *)
(* off or refuses it; a worker process takes jobs and delivers them with   *)
(* retries. A delivery resolves the handlers, keeps the active users, and  *)
(* inserts one row for each of them, skipping rows that exist.             *)
(*                                                                         *)
(* Everything the API process has not enqueued lives in its memory and is  *)
(* lost with it. The queue reports a failed addition that it may have      *)
(* made nevertheless, and gives a job to a second worker when the first    *)
(* one stops renewing its lock, whether or not it still runs.              *)
(***************************************************************************)
EXTENDS Naturals, FiniteSets

CONSTANTS Events,      \* published events
          Type,        \* Type[e]: the NotificationEventType of e
          Owner,       \* Owner[e]: the student that e is about
          InCharge,    \* InCharge[e]: the handlers of the target of e
          Users, Workers,
          QueueModes,  \* NOTIFICATION_QUEUE_ENABLED, in one deployment or another
          MaxAttempts, \* attempts of a job before it fails
          MaxStalled,  \* bound: times a job may stall before it fails
          None

HandlerTypes == {"CONCERN_SUBMITTED", "CONCERN_TRANSFERRED", "CONCERN_REOPENED",
                 "APPOINTMENT_CREATED", "APPOINTMENT_RESCHEDULED", "APPOINTMENT_CANCELLED"}
StudentTypes == {"CONCERN_TRANSFERRED", "CONCERN_RESOLVED", "CONCERN_SUPPORT_ADDED",
                 "APPOINTMENT_RESCHEDULED", "APPOINTMENT_CANCELLED", "APPOINTMENT_APPROVED",
                 "APPOINTMENT_REJECTED", "APPOINTMENT_COMPLETED"}

ASSUME EventsAssumption ==
  /\ Type \in [Events -> HandlerTypes \cup StudentTypes]
  /\ Owner \in [Events -> Users]
  /\ InCharge \in [Events -> SUBSET Users]
ASSUME ProcessesAssumption ==
  /\ Workers \cap Events = {} /\ None \notin Workers \cup Events
  /\ QueueModes \subseteq BOOLEAN
  /\ MaxAttempts \in Nat \ {0} /\ MaxStalled \in Nat

VARIABLES
  active,     \* users that have not been deactivated
  pub,        \* pub[e]: what the API process is doing about e
  job,        \* job[e]: the BullMQ job of e
  task,       \* task[p]: the delivery a worker runs, or the API runs for event p
  copies,     \* copies[e][u]: rows with eventKey e of user u
  unread,     \* unread[e][u]: that row is unread
  deleted     \* <<e, u>>: u deleted the notification of e

rows == <<copies, unread, deleted>>
vars == <<active, pub, job, task, rows>>

-----------------------------------------------------------------------------
Deliverers == Workers \cup Events       \* event e stands for its delivery by the API
Delivery == [event : Events, phase : {"handlers", "active", "insert", "done"}, users : SUBSET Users]
Job == [state : {"absent", "waiting", "active", "completed", "failed"},
        holder : Workers \cup {None}, made : 0..MaxAttempts, stalled : 0..MaxStalled]

Init ==
  /\ active = Users
  /\ pub = [e \in Events |-> "none"]
  /\ job = [e \in Events |-> [state |-> "absent", holder |-> None, made |-> 0, stalled |-> 0]]
  /\ task = [p \in Deliverers |-> None]
  /\ copies = [e \in Events |-> [u \in Users |-> 0]]
  /\ unread = [e \in Events |-> [u \in Users |-> FALSE]]
  /\ deleted = {}

(* recipientsForEvent, given the active handlers of the target. *)
Recipients(e, handlers) ==
  (IF Type[e] \in HandlerTypes THEN handlers ELSE {})
    \cup (IF Type[e] \in StudentTypes THEN {Owner[e]} ELSE {})

NewDelivery(e) == [event |-> e, phase |-> "handlers", users |-> {}]

-----------------------------------------------------------------------------
(* The API process. *)

(* publishNotificationEvent, called by a service after its commit.         *)
Publish(e) ==
  /\ pub[e] = "none"
  /\ pub' = [pub EXCEPT ![e] = "scheduled"]
  /\ UNCHANGED <<active, job, task, rows>>

(* deliverNotificationEvent, in the setImmediate callback. *)
StartDirect(e) ==
  /\ pub' = [pub EXCEPT ![e] = "delivering"]
  /\ task' = [task EXCEPT ![e] = NewDelivery(e)]
Dispatch(e) ==
  /\ pub[e] = "scheduled"
  /\ \/ TRUE \in QueueModes /\ pub' = [pub EXCEPT ![e] = "enqueuing"] /\ UNCHANGED task
     \/ FALSE \in QueueModes /\ StartDirect(e)
  /\ UNCHANGED <<active, job, rows>>

(* The job id is the event id: adding it twice adds it once. *)
Added(e) == [job EXCEPT ![e].state = IF @ = "absent" THEN "waiting" ELSE @]
Enqueue(e) ==
  /\ pub[e] = "enqueuing"
  /\ job' = Added(e)
  /\ pub' = [pub EXCEPT ![e] = "handled"]
  /\ UNCHANGED <<active, task, rows>>
(* Mistaken variants stand before the definitions they vary, as in the     *)
(* other modules.                                                          *)
EnqueueFailsSilently(e) ==
  /\ pub[e] = "enqueuing"
  /\ pub' = [pub EXCEPT ![e] = "handled"]
  /\ UNCHANGED <<active, job, task, rows>>

EnqueueFails(e) ==
  /\ pub[e] = "enqueuing"
  /\ job' \in {job, Added(e)}
  /\ StartDirect(e)
  /\ UNCHANGED <<active, rows>>

(* The API process stops: what it holds in memory is lost. *)
StopApi ==
  /\ \E e \in Events : pub[e] \in {"scheduled", "enqueuing", "delivering"}
  /\ pub' = [e \in Events |->
               IF pub[e] \in {"scheduled", "enqueuing", "delivering"} THEN "lost" ELSE pub[e]]
  /\ task' = [p \in Deliverers |-> IF p \in Events THEN None ELSE task[p]]
  /\ UNCHANGED <<active, job, rows>>

-----------------------------------------------------------------------------
(* handleNotificationEvent, in the API or in a worker. *)

FindHandlers(p) ==
  /\ task[p] # None /\ task[p].phase = "handlers"
  /\ LET e == task[p].event IN
       task' = [task EXCEPT ![p].phase = "active",
                            ![p].users = Recipients(e, InCharge[e] \cap active)]
  /\ UNCHANGED <<active, pub, job, rows>>

FindActive(p) ==
  /\ task[p] # None /\ task[p].phase = "active"
  /\ task' = [task EXCEPT ![p].phase = "insert", ![p].users = @ \cap active]
  /\ UNCHANGED <<active, pub, job, rows>>

CreateWithDuplicates(e, us) ==
  /\ copies' = [copies EXCEPT ![e] = [u \in Users |-> IF u \in us THEN @[u] + 1 ELSE @[u]]]
  /\ unread' = [unread EXCEPT ![e] = [u \in Users |-> u \in us \/ @[u]]]
  /\ UNCHANGED deleted
CreateOrRefresh(e, us) ==
  /\ copies' = [copies EXCEPT ![e] = [u \in Users |-> IF u \in us THEN 1 ELSE @[u]]]
  /\ unread' = [unread EXCEPT ![e] = [u \in Users |-> u \in us \/ @[u]]]
  /\ UNCHANGED deleted

(* createMany with skipDuplicates, over the unique index on recipient and  *)
(* event key.                                                              *)
CreateMany(e, us) ==
  LET fresh == {u \in us : copies[e][u] = 0} IN
  /\ copies' = [copies EXCEPT ![e] = [u \in Users |-> IF u \in fresh THEN @[u] + 1 ELSE @[u]]]
  /\ unread' = [unread EXCEPT ![e] = [u \in Users |-> u \in fresh \/ @[u]]]
  /\ UNCHANGED deleted

(* The end of a delivery: the queue takes the result from the worker that  *)
(* holds the job, and from no other.                                       *)
Holds(p, e) == job[e].state = "active" /\ job[e].holder = p
RetryThenComplete(e) ==
  LET j == job[e] IN
  [j EXCEPT !.holder = None, !.made = @ + 1,
            !.state = IF j.made + 1 < MaxAttempts THEN "waiting" ELSE "completed"]

Retry(e) ==
  LET j == job[e] IN
  [j EXCEPT !.holder = None, !.made = @ + 1,
            !.state = IF j.made + 1 < MaxAttempts THEN "waiting" ELSE "failed"]

Insert(p) ==
  /\ task[p] # None /\ task[p].phase = "insert"
  /\ CreateMany(task[p].event, task[p].users)
  /\ task' = [task EXCEPT ![p].phase = "done"]
  /\ UNCHANGED <<active, pub, job>>

Finish(p) ==
  /\ task[p] # None /\ task[p].phase = "done"
  /\ LET e == task[p].event IN
       /\ job' = IF Holds(p, e)
                   THEN [job EXCEPT ![e].state = "completed", ![e].holder = None] ELSE job
       /\ pub' = IF p = e THEN [pub EXCEPT ![e] = "handled"] ELSE pub
  /\ task' = [task EXCEPT ![p] = None]
  /\ UNCHANGED <<active, rows>>

(* A query fails: the worker's job is retried, the API logs the error. *)
DeliveryFails(p) ==
  /\ task[p] # None /\ task[p].phase # "done"
  /\ LET e == task[p].event IN
       /\ job' = IF Holds(p, e) THEN [job EXCEPT ![e] = Retry(e)] ELSE job
       /\ pub' = IF p = e THEN [pub EXCEPT ![e] = "logged"] ELSE pub
  /\ task' = [task EXCEPT ![p] = None]
  /\ UNCHANGED <<active, rows>>

-----------------------------------------------------------------------------
(* BullMQ and the worker processes. *)

Take(w, e) ==
  /\ task[w] = None /\ job[e].state = "waiting"
  /\ job' = [job EXCEPT ![e].state = "active", ![e].holder = w]
  /\ task' = [task EXCEPT ![w] = NewDelivery(e)]
  /\ UNCHANGED <<active, pub, rows>>

(* The lock of an active job runs out; its worker may still be at work.    *)
Stall(e) ==
  LET j == job[e] IN
  /\ j.state = "active"
  /\ job' = [job EXCEPT ![e] =
               IF j.stalled < MaxStalled
                 THEN [j EXCEPT !.state = "waiting", !.holder = None, !.stalled = @ + 1]
                 ELSE [j EXCEPT !.state = "failed", !.holder = None]]
  /\ UNCHANGED <<active, pub, task, rows>>

StopWorker(w) ==
  /\ task[w] # None
  /\ task' = [task EXCEPT ![w] = None]
  /\ UNCHANGED <<active, pub, job, rows>>

-----------------------------------------------------------------------------
(* The users. *)

MarkReadState(e, u, isRead) ==
  /\ copies[e][u] > 0 /\ unread[e][u] = isRead
  /\ unread' = [unread EXCEPT ![e][u] = ~isRead]
  /\ UNCHANGED <<active, pub, job, task, copies, deleted>>

MarkAllAsRead(u) ==
  /\ \E e \in Events : unread[e][u]
  /\ unread' = [e \in Events |-> [unread[e] EXCEPT ![u] = FALSE]]
  /\ UNCHANGED <<active, pub, job, task, copies, deleted>>

Delete(e, u) ==
  /\ copies[e][u] > 0
  /\ copies' = [copies EXCEPT ![e][u] = @ - 1]
  /\ unread' = [unread EXCEPT ![e][u] = FALSE]
  /\ deleted' = deleted \cup {<<e, u>>}
  /\ UNCHANGED <<active, pub, job, task>>

(* students and faculty are deactivated, never activated again. *)
Deactivate(u) ==
  /\ u \in active
  /\ active' = active \ {u}
  /\ UNCHANGED <<pub, job, task, rows>>

ApiStep(e) == Publish(e) \/ Dispatch(e) \/ Enqueue(e) \/ EnqueueFails(e)
DeliveryStep(p) == FindHandlers(p) \/ FindActive(p) \/ Insert(p) \/ Finish(p) \/ DeliveryFails(p)
UserStep(u) ==
  \/ \E e \in Events : (\E b \in BOOLEAN : MarkReadState(e, u, b)) \/ Delete(e, u)
  \/ MarkAllAsRead(u)
  \/ Deactivate(u)

Next ==
  \/ \E e \in Events : ApiStep(e) \/ Stall(e)
  \/ StopApi
  \/ \E p \in Deliverers : DeliveryStep(p)
  \/ \E w \in Workers : StopWorker(w) \/ \E e \in Events : Take(w, e)
  \/ \E u \in Users : UserStep(u)

Spec == Init /\ [][Next]_vars

(* The event loop runs what is scheduled, deliveries go on, and the worker *)
(* process takes jobs and checks for stalled ones; no process is obliged   *)
(* to stop, to fail, or to publish.                                        *)
Fairness ==
  /\ \A e \in Events : WF_vars(Dispatch(e)) /\ WF_vars(Enqueue(e) \/ EnqueueFails(e))
                       /\ WF_vars(Stall(e))
  /\ \A p \in Deliverers : WF_vars(DeliveryStep(p))
  /\ \A e \in Events : WF_vars(\E w \in Workers : Take(w, e))

FairSpec == Spec /\ Fairness

-----------------------------------------------------------------------------
(* Types of every variable. *)
TypeOK ==
  /\ active \subseteq Users
  /\ pub \in [Events -> {"none", "scheduled", "enqueuing", "delivering",
                         "handled", "logged", "lost"}]
  /\ job \in [Events -> Job]
  /\ task \in [Deliverers -> Delivery \cup {None}]
  /\ copies \in [Events -> [Users -> Nat]]
  /\ unread \in [Events -> [Users -> BOOLEAN]]
  /\ deleted \subseteq Events \X Users

(* A recipient has at most one notification of an event, however often it *)
(* is delivered by retries, stalled workers and the API's fallback, and    *)
(* nobody else has one (createMany, the unique index of migration          *)
(* 20260625090000, and recipientsForEvent).                                *)
OncePerRecipient ==
  \A e \in Events, u \in Users :
    copies[e][u] <= IF u \in Recipients(e, InCharge[e]) THEN 1 ELSE 0

(* When the queue counts a job as completed, or the API a delivery as      *)
(* done, every recipient that is still active has its notification or has  *)
(* deleted it: no failure in between leaves a recipient out unnoticed.     *)
Delivered(e) ==
  \A u \in Recipients(e, InCharge[e]) \cap active :
    copies[e][u] > 0 \/ <<e, u>> \in deleted
CompletedIsDelivered ==
  \A e \in Events :
    /\ job[e].state = "completed" => Delivered(e)
    /\ pub[e] = "handled" /\ job[e].state = "absent" => Delivered(e)

(* A redelivery leaves the notifications a user has read as they are: only *)
(* the user makes one unread again, and never all of them at once.         *)
RedeliveryKeepsRead ==
  [][\A p \in Deliverers : task'[p] # task[p] =>
       \A e \in Events, u \in Users :
         copies[e][u] > 0 /\ ~unread[e][u] => ~unread'[e][u]]_vars

(* The service implements Inbox: whatever processes stop, jobs stall and   *)
(* deliveries overlap, the users see each event once, see it settled only  *)
(* when nobody was left out, and keep what they have. A second row of one  *)
(* event would be "twice", which Inbox does not have.                      *)
Published == {e \in Events : pub[e] # "none"}
Settled == {e \in Events : job[e].state = "completed"
                             \/ (pub[e] = "handled" /\ job[e].state = "absent")}
Shown(e, u) ==
  CASE copies[e][u] = 0 -> IF <<e, u>> \in deleted THEN "deleted" ELSE "none"
    [] copies[e][u] = 1 -> IF unread[e][u] THEN "unread" ELSE "read"
    [] OTHER -> "twice"
Box == INSTANCE Inbox WITH
  Addressees <- [e \in Events |-> Recipients(e, InCharge[e])],
  published <- Published, settled <- Settled,
  inbox <- [e \in Events |-> [u \in Users |-> Shown(e, u)]]
ImplementsInbox == Box!Spec

(* An event whose publication is scheduled is delivered, or the failure is *)
(* on record: in the API's log, among the failed jobs, or because the API  *)
(* stopped (publishNotificationEvent, the worker's retries).               *)
OnRecord(e) == Delivered(e) \/ pub[e] \in {"logged", "lost"} \/ job[e].state = "failed"
EventuallyOnRecord == \A e \in Events : pub[e] = "scheduled" ~> OnRecord(e)

(* scalable-architecture.md: the unique event key makes "worker retries    *)
(* idempotent", and notifications-api.md: deletion is hard. A deleted      *)
(* notification does not come back.                                        *)
DeletedStaysDeleted == \A pair \in deleted : copies[pair[1]][pair[2]] = 0
=============================================================================
