------------------------------ MODULE Concerns ------------------------------
(***************************************************************************)
(* The concern service (modules/concerns): students submit concerns to an  *)
(* office or a department, whose handlers move them towards a resolution   *)
(* the student confirms or rejects.                                        *)
(*                                                                         *)
(* Every request of the HTTP server runs in a worker. A handler first      *)
(* reads the concern's access record and checks the actor and the status   *)
(* on it (Accept...), and later, after more awaits, runs one database      *)
(* transaction that writes by id without looking at the row again          *)
(* (Commit...). Between the two, other workers commit. Requests that the   *)
(* checks refuse, and those that return the row unchanged, leave no trace  *)
(* and are not actions.                                                    *)
(***************************************************************************)
EXTENDS Naturals, Sequences, FiniteSets

CONSTANTS Concerns,     \* ids of concern rows
          Targets,      \* offices and departments
          Students, Admins,
          Visibilities, \* ConcernVisibility, or a part of it
          Handlers,     \* office staff, deans and chairs
          Scope,        \* Scope[h]: the office or department of handler h
          References,   \* reference numbers the generator can draw
          Workers,      \* requests the server runs at a time
          MaxTimeline,  \* bound: timeline entries of one concern
          None          \* SQL NULL

ASSUME ActorsAssumption ==
  /\ Scope \in [Handlers -> Targets]
  /\ Students \cap (Admins \cup Handlers) = {}
  /\ Admins \cap Handlers = {}
ASSUME BoundsAssumption ==
  /\ MaxTimeline \in Nat
  /\ Visibilities \subseteq {"PUBLIC", "PRIVATE"}
  /\ Targets # {}
  /\ None \notin Students \cup References

VARIABLES
  status, target, resolvedAt,      \* the mutable columns of a concern
  owner, visibility, reference,    \* the columns fixed when it is created
  report,                          \* ResolutionReport rows: one per concern at most
  reopens,                         \* number of ReopenRequest rows
  supporters,                      \* ConcernSupport rows
  transfers,                       \* ConcernTransfer rows in commit order
  timeline,                        \* ConcernTimeline rows in commit order
  req,                             \* what each worker is doing
  published                        \* number of publishNotificationEvent calls about a concern

columns == <<owner, visibility, reference>>
rows == <<report, reopens, supporters, transfers>>
vars == <<status, target, resolvedAt, columns, rows, timeline, req, published>>

-----------------------------------------------------------------------------
Workflow == INSTANCE ConcernWorkflow

Statuses == Workflow!Statuses
Actors == Students \cup Admins \cup Handlers
Events == Statuses \cup {"RESOLUTION_SUBMITTED", "SUPPORTED"}

Entry == [event : Events, actor : Actors]
TransferRow == [from : Targets, to : Targets]

Idle == [op |-> "idle"]
AccessRecord == [status : Statuses, target : Targets]
CreateRequest == [op : {"create"}, actor : Students, to : Targets,
                  visibility : {"PUBLIC", "PRIVATE"}, attempt : 0..2]
StatusRequest == [op : {"updateStatus"}, concern : Concerns, actor : Admins \cup Handlers,
                  to : {"UNDER_REVIEW", "IN_PROGRESS", "CLOSED"}, seen : AccessRecord]
TransferRequest == [op : {"transfer"}, concern : Concerns, actor : Admins \cup Handlers,
                    to : Targets, seen : AccessRecord]
ResolveRequest == [op : {"resolve"}, concern : Concerns, actor : Admins \cup Handlers,
                   seen : AccessRecord]
OwnerRequest == [op : {"confirm", "reject"}, concern : Concerns, actor : Students,
                 seen : AccessRecord]
SupportRequest == [op : {"support"}, concern : Concerns, actor : Students]
PublishRequest == [op : {"publish"}, concern : Concerns]
Request == {Idle} \cup CreateRequest \cup StatusRequest \cup TransferRequest
             \cup ResolveRequest \cup OwnerRequest \cup SupportRequest
             \cup PublishRequest

(* Types of every variable. *)
TypeOK ==
  /\ status \in [Concerns -> Statuses \cup {"NONE"}]
  /\ target \in [Concerns -> Targets]
  /\ resolvedAt \in [Concerns -> BOOLEAN]
  /\ owner \in [Concerns -> Students \cup {None}]
  /\ visibility \in [Concerns -> {"PUBLIC", "PRIVATE"}]
  /\ reference \in [Concerns -> References \cup {None}]
  /\ report \in [Concerns -> BOOLEAN]
  /\ reopens \in [Concerns -> Nat]
  /\ supporters \in [Concerns -> SUBSET Students]
  /\ transfers \in [Concerns -> Seq(TransferRow)]
  /\ timeline \in [Concerns -> Seq(Entry)]
  /\ req \in [Workers -> Request]
  /\ published \in [Concerns -> Nat]

Init ==
  /\ status = [c \in Concerns |-> "NONE"]
  /\ target = [c \in Concerns |-> CHOOSE t \in Targets : TRUE]
  /\ resolvedAt = [c \in Concerns |-> FALSE]
  /\ owner = [c \in Concerns |-> None]
  /\ visibility = [c \in Concerns |-> "PRIVATE"]
  /\ reference = [c \in Concerns |-> None]
  /\ report = [c \in Concerns |-> FALSE]
  /\ reopens = [c \in Concerns |-> 0]
  /\ supporters = [c \in Concerns |-> {}]
  /\ transfers = [c \in Concerns |-> << >>]
  /\ timeline = [c \in Concerns |-> << >>]
  /\ req = [w \in Workers |-> Idle]
  /\ published = [c \in Concerns |-> 0]

-----------------------------------------------------------------------------
(* Steps shared by the operations. *)

Transferable == {"SUBMITTED", "UNDER_REVIEW", "IN_PROGRESS", "TRANSFERRED", "REOPENED"}
Resolvable == {"UNDER_REVIEW", "IN_PROGRESS", "REOPENED"}

(* Mistaken variants, each like an error the code could have, stand before *)
(* the definitions they vary; the properties below notice every one.       *)
AllowedBack == [s \in Statuses |->
                  CASE s \in {"SUBMITTED", "TRANSFERRED", "IN_PROGRESS"} -> {"UNDER_REVIEW"}
                    [] s = "UNDER_REVIEW" -> {"IN_PROGRESS"}
                    [] s = "REOPENED"     -> {"UNDER_REVIEW", "IN_PROGRESS"}
                    [] OTHER              -> {}]

(* assertStatusTransition's table. *)
Allowed == [s \in Statuses |->
              CASE s = "SUBMITTED"    -> {"UNDER_REVIEW"}
                [] s = "TRANSFERRED"  -> {"UNDER_REVIEW"}
                [] s = "UNDER_REVIEW" -> {"IN_PROGRESS"}
                [] s = "REOPENED"     -> {"UNDER_REVIEW", "IN_PROGRESS"}
                [] OTHER              -> {}]

Exists(c) == status[c] # "NONE"
Access(c) == [status |-> status[c], target |-> target[c]]
AnyHandlerCan(a, seen) == a \in Admins \cup Handlers

CanHandle(a, seen) == a \in Admins \/ (a \in Handlers /\ Scope[a] = seen.target)

(* A worker has finished its checks and goes on to the transaction. *)
Accept(w, r) ==
  /\ req[w] = Idle
  /\ req' = [req EXCEPT ![w] = r]
  /\ UNCHANGED <<status, target, resolvedAt, columns, rows, timeline, published>>

(* A worker answers the request, or still has to publish its notification. *)
Respond(w) == req' = [req EXCEPT ![w] = Idle] /\ UNCHANGED published
ThenPublish(w, c) ==
  /\ req' = [req EXCEPT ![w] = [op |-> "publish", concern |-> c]]
  /\ UNCHANGED published

(* createTimeline, for a list of events by one actor. *)
Record(c, events, a) ==
  /\ Len(timeline[c]) + Len(events) <= MaxTimeline
  /\ timeline' = [timeline EXCEPT
       ![c] = @ \o [i \in 1..Len(events) |-> [event |-> events[i], actor |-> a]]]

SetStatus(c, s) == status' = [status EXCEPT ![c] = s]

-----------------------------------------------------------------------------
(* createConcern: draw a reference number; on a collision (P2002) draw     *)
(* again, three times in all, then give up with the error.                 *)
AcceptCreate(w, s, t, v) ==
  Accept(w, [op |-> "create", actor |-> s, to |-> t, visibility |-> v, attempt |-> 0])

NeverTaken(n) == FALSE

Taken(n) == \E c \in Concerns : reference[c] = n

CommitCreate(w, c, n) ==
  LET r == req[w] IN
  /\ r.op = "create" /\ ~Taken(n) /\ ~Exists(c)
  /\ SetStatus(c, "SUBMITTED")
  /\ target' = [target EXCEPT ![c] = r.to]
  /\ owner' = [owner EXCEPT ![c] = r.actor]
  /\ visibility' = [visibility EXCEPT ![c] = r.visibility]
  /\ reference' = [reference EXCEPT ![c] = n]
  /\ Record(c, <<"SUBMITTED">>, r.actor)
  /\ ThenPublish(w, c)
  /\ UNCHANGED <<resolvedAt, rows>>

CollideOnceMore(w, n) ==
  LET r == req[w] IN
  /\ r.op = "create" /\ Taken(n)
  /\ req' = [req EXCEPT ![w] = IF r.attempt < 3 THEN [r EXCEPT !.attempt = @ + 1] ELSE Idle]
  /\ UNCHANGED <<status, target, resolvedAt, columns, rows, timeline, published>>

CollideCreate(w, n) ==
  LET r == req[w] IN
  /\ r.op = "create" /\ Taken(n)
  /\ req' = [req EXCEPT ![w] = IF r.attempt < 2 THEN [r EXCEPT !.attempt = @ + 1] ELSE Idle]
  /\ UNCHANGED <<status, target, resolvedAt, columns, rows, timeline, published>>

-----------------------------------------------------------------------------
(* updateConcernStatus: handlers move a concern along Allowed, and only an *)
(* administrator closes it, from any other status.                         *)
AcceptUpdateStatus(w, a, c, next) ==
  /\ Exists(c) /\ CanHandle(a, Access(c)) /\ next # status[c]
  /\ IF next = "CLOSED" THEN a \in Admins ELSE next \in Allowed[status[c]]
  /\ Accept(w, [op |-> "updateStatus", concern |-> c, actor |-> a, to |-> next,
                seen |-> Access(c)])

UpdateLogsOldStatus(c, next, a) ==
  /\ SetStatus(c, next)
  /\ resolvedAt' = [resolvedAt EXCEPT ![c] = @ \/ next = "RESOLVED"]
  /\ Record(c, <<status[c]>>, a)
  /\ UNCHANGED <<target, columns, rows>>
UpdateWithoutTime(c, next, a) ==
  /\ SetStatus(c, next)
  /\ Record(c, <<next>>, a)
  /\ UNCHANGED <<target, columns, rows, resolvedAt>>

(* updateStatus: resolvedAt is set when the new status is RESOLVED, and    *)
(* left alone otherwise.                                                   *)
UpdateStatusTx(c, next, a) ==
  /\ SetStatus(c, next)
  /\ resolvedAt' = [resolvedAt EXCEPT ![c] = @ \/ next = "RESOLVED"]
  /\ Record(c, <<next>>, a)
  /\ UNCHANGED <<target, columns, rows>>

CommitUpdateStatus(w) ==
  LET r == req[w] IN
  /\ r.op = "updateStatus"
  /\ UpdateStatusTx(r.concern, r.to, r.actor)
  /\ Respond(w)

-----------------------------------------------------------------------------
(* transferConcern: a transfer to the current target changes nothing; any  *)
(* other records where the concern was seen and where it goes.             *)
AcceptTransfer(w, a, c, t) ==
  /\ Exists(c) /\ CanHandle(a, Access(c))
  /\ status[c] \in Transferable /\ t # target[c]
  /\ Accept(w, [op |-> "transfer", concern |-> c, actor |-> a, to |-> t, seen |-> Access(c)])

CommitTransfer(w) ==
  LET r == req[w] IN
  /\ r.op = "transfer"
  /\ transfers' = [transfers EXCEPT
                     ![r.concern] = Append(@, [from |-> r.seen.target, to |-> r.to])]
  /\ target' = [target EXCEPT ![r.concern] = r.to]
  /\ SetStatus(r.concern, "TRANSFERRED")
  /\ resolvedAt' = [resolvedAt EXCEPT ![r.concern] = FALSE]
  /\ Record(r.concern, <<"TRANSFERRED">>, r.actor)
  /\ ThenPublish(w, r.concern)
  /\ UNCHANGED <<columns, report, reopens, supporters>>

-----------------------------------------------------------------------------
(* createResolution: the handler writes, or rewrites, the report.          *)
AcceptResolve(w, a, c) ==
  /\ Exists(c) /\ CanHandle(a, Access(c)) /\ status[c] \in Resolvable
  /\ Accept(w, [op |-> "resolve", concern |-> c, actor |-> a, seen |-> Access(c)])

ResolveWithoutReport(w) ==
  LET r == req[w] IN
  /\ r.op = "resolve"
  /\ SetStatus(r.concern, "AWAITING_CONFIRMATION")
  /\ resolvedAt' = [resolvedAt EXCEPT ![r.concern] = FALSE]
  /\ Record(r.concern, <<"RESOLUTION_SUBMITTED", "AWAITING_CONFIRMATION">>, r.actor)
  /\ ThenPublish(w, r.concern)
  /\ UNCHANGED <<target, columns, report, reopens, supporters, transfers>>

CommitResolve(w) ==
  LET r == req[w] IN
  /\ r.op = "resolve"
  /\ report' = [report EXCEPT ![r.concern] = TRUE]
  /\ SetStatus(r.concern, "AWAITING_CONFIRMATION")
  /\ resolvedAt' = [resolvedAt EXCEPT ![r.concern] = FALSE]
  /\ Record(r.concern, <<"RESOLUTION_SUBMITTED", "AWAITING_CONFIRMATION">>, r.actor)
  /\ ThenPublish(w, r.concern)
  /\ UNCHANGED <<target, columns, reopens, supporters, transfers>>

-----------------------------------------------------------------------------
(* confirmResolution and rejectResolution: the owner's answer.             *)
AcceptAnswer(w, s, c, op) ==
  /\ Exists(c) /\ owner[c] = s
  /\ status[c] = "AWAITING_CONFIRMATION" /\ report[c]
  /\ Accept(w, [op |-> op, concern |-> c, actor |-> s, seen |-> Access(c)])

CommitConfirm(w) ==
  LET r == req[w] IN
  /\ r.op = "confirm"
  /\ UpdateStatusTx(r.concern, "RESOLVED", r.actor)
  /\ Respond(w)

RejectWithoutRow(w) ==
  LET r == req[w] IN
  /\ r.op = "reject"
  /\ SetStatus(r.concern, "REOPENED")
  /\ resolvedAt' = [resolvedAt EXCEPT ![r.concern] = FALSE]
  /\ Record(r.concern, <<"REOPENED">>, r.actor)
  /\ ThenPublish(w, r.concern)
  /\ UNCHANGED <<target, columns, report, reopens, supporters, transfers>>

CommitReject(w) ==
  LET r == req[w] IN
  /\ r.op = "reject"
  /\ reopens' = [reopens EXCEPT ![r.concern] = @ + 1]
  /\ SetStatus(r.concern, "REOPENED")
  /\ resolvedAt' = [resolvedAt EXCEPT ![r.concern] = FALSE]
  /\ Record(r.concern, <<"REOPENED">>, r.actor)
  /\ ThenPublish(w, r.concern)
  /\ UNCHANGED <<target, columns, report, supporters, transfers>>

-----------------------------------------------------------------------------
AcceptOwnSupport(w, s, c) ==
  /\ Exists(c) /\ visibility[c] = "PUBLIC"
  /\ Accept(w, [op |-> "support", concern |-> c, actor |-> s])

(* addSupport: a public concern of someone else; the unique index on       *)
(* (concern, student) turns a repeated support into a read.                *)
AcceptSupport(w, s, c) ==
  /\ Exists(c) /\ visibility[c] = "PUBLIC" /\ owner[c] # s
  /\ Accept(w, [op |-> "support", concern |-> c, actor |-> s])

SupportAlwaysPublishes(w) ==
  LET r == req[w] IN
  /\ r.op = "support"
  /\ \/ /\ r.actor \notin supporters[r.concern]
        /\ supporters' = [supporters EXCEPT ![r.concern] = @ \cup {r.actor}]
        /\ Record(r.concern, <<"SUPPORTED">>, r.actor)
     \/ /\ r.actor \in supporters[r.concern]
        /\ UNCHANGED <<supporters, timeline>>
  /\ ThenPublish(w, r.concern)
  /\ UNCHANGED <<status, target, resolvedAt, columns, report, reopens, transfers>>

CommitSupport(w) ==
  LET r == req[w] IN
  /\ r.op = "support"
  /\ \/ /\ r.actor \notin supporters[r.concern]
        /\ supporters' = [supporters EXCEPT ![r.concern] = @ \cup {r.actor}]
        /\ Record(r.concern, <<"SUPPORTED">>, r.actor)
        /\ ThenPublish(w, r.concern)
     \/ /\ r.actor \in supporters[r.concern]
        /\ Respond(w)
        /\ UNCHANGED <<supporters, timeline>>
  /\ UNCHANGED <<status, target, resolvedAt, columns, report, reopens, transfers>>

-----------------------------------------------------------------------------
(* publishNotificationEvent, called after the transaction has committed.   *)
Publish(w) ==
  LET r == req[w] IN
  /\ r.op = "publish"
  /\ published' = [published EXCEPT ![r.concern] = @ + 1]
  /\ req' = [req EXCEPT ![w] = Idle]
  /\ UNCHANGED <<status, target, resolvedAt, columns, rows, timeline>>

(* The process stops, or the transaction fails and rolls back.             *)
Abandon(w) ==
  /\ req[w] # Idle
  /\ req' = [req EXCEPT ![w] = Idle]
  /\ UNCHANGED <<status, target, resolvedAt, columns, rows, timeline, published>>

AcceptSome(w) ==
  \/ \E s \in Students, t \in Targets, v \in Visibilities : AcceptCreate(w, s, t, v)
  \/ \E c \in Concerns, a \in Admins \cup Handlers :
       \/ \E next \in {"UNDER_REVIEW", "IN_PROGRESS", "CLOSED"} :
            AcceptUpdateStatus(w, a, c, next)
       \/ \E t \in Targets : AcceptTransfer(w, a, c, t)
       \/ AcceptResolve(w, a, c)
  \/ \E c \in Concerns, s \in Students :
       \/ \E op \in {"confirm", "reject"} : AcceptAnswer(w, s, c, op)
       \/ AcceptSupport(w, s, c)

CommitSome(w) ==
  \/ \E c \in Concerns, n \in References : CommitCreate(w, c, n)
  \/ \E n \in References : CollideCreate(w, n)
  \/ CommitUpdateStatus(w)
  \/ CommitTransfer(w)
  \/ CommitResolve(w)
  \/ CommitConfirm(w)
  \/ CommitReject(w)
  \/ CommitSupport(w)

Next == \E w \in Workers : AcceptSome(w) \/ CommitSome(w) \/ Publish(w) \/ Abandon(w)

Spec == Init /\ [][Next]_vars

-----------------------------------------------------------------------------
(* Properties that hold however requests overlap.                          *)

(* The timeline explains the status: the last status event of a concern's  *)
(* timeline is its status, although row and timeline are separate writes   *)
(* and stale requests overwrite each other (updateStatus, transfer,        *)
(* createResolution and rejectResolution in concern.repository.ts).        *)
StatusIsLastLogged(c) ==
  \E i \in DOMAIN timeline[c] :
    /\ timeline[c][i].event = status[c]
    /\ \A j \in DOMAIN timeline[c] : j > i => timeline[c][j].event \notin Statuses
StatusMatchesTimeline == \A c \in Concerns : Exists(c) => StatusIsLastLogged(c)

(* A concern that waits for its owner, or that the owner confirmed, has a  *)
(* resolution report (scripts/check-database.ts counts the exceptions).    *)
AnsweredHasReport ==
  \A c \in Concerns : status[c] \in {"AWAITING_CONFIRMATION", "RESOLVED"} => report[c]

(* A resolved concern carries its resolution time, and its owner confirmed *)
(* a resolution that had been submitted before (confirmResolution).        *)
ResolvedByOwner ==
  \A c \in Concerns : status[c] = "RESOLVED" =>
    /\ resolvedAt[c]
    /\ \E i, j \in DOMAIN timeline[c] :
         /\ i < j
         /\ timeline[c][i].event = "AWAITING_CONFIRMATION"
         /\ timeline[c][j] = [event |-> "RESOLVED", actor |-> owner[c]]

(* The transfers and the reopen requests of a concern are those its        *)
(* timeline tells of: no race or failure leaves one without the other. The *)
(* transfer log leads to the target in charge, and never names as an       *)
(* origin a target the concern was never at, even when transfers race      *)
(* (transfer in concern.repository.ts, whose origin is a stale read).      *)
Logged(c, event) == {i \in DOMAIN timeline[c] : timeline[c][i].event = event}
TransfersLeadToTarget(c) ==
  LET log == transfers[c] IN
    Len(log) > 0 =>
      /\ log[Len(log)].to = target[c]
      /\ \A i \in DOMAIN log :
           /\ log[i].from # log[i].to
           /\ \/ log[i].from = log[1].from
              \/ \E j \in 1..(i - 1) : log[j].to = log[i].from
RowsMatchTimeline ==
  \A c \in Concerns :
    /\ TransfersLeadToTarget(c)
    /\ Len(transfers[c]) = Cardinality(Logged(c, "TRANSFERRED"))
    /\ reopens[c] = Cardinality(Logged(c, "REOPENED"))

(* A student supports a concern once, never their own and only a public    *)
(* one, and the timeline has one entry for each supporter (addSupport and  *)
(* the unique index on concern and student).                               *)
SupportersMatchTimeline ==
  \A c \in Concerns :
    /\ owner[c] \notin supporters[c]
    /\ supporters[c] # {} => visibility[c] = "PUBLIC"
    /\ Cardinality(Logged(c, "SUPPORTED")) = Cardinality(supporters[c])
    /\ \A i \in Logged(c, "SUPPORTED") : timeline[c][i].actor \in supporters[c]

(* A notification is published at most once for each committed operation   *)
(* that calls for one, and never for an operation that did not commit or   *)
(* that changed nothing (a repeated support).                              *)
Noticed == {"SUBMITTED", "TRANSFERRED", "RESOLUTION_SUBMITTED", "REOPENED", "SUPPORTED"}
NoticesAreBacked ==
  \A c \in Concerns :
    published[c] + Cardinality({w \in Workers : req[w] = [op |-> "publish", concern |-> c]})
      <= Cardinality({i \in DOMAIN timeline[c] : timeline[c][i].event \in Noticed})

(* An office or department handler appears in a timeline only if the       *)
(* concern was addressed to them at some time (assertCanHandleConcern).    *)
Visited(c) == {target[c]} \cup {transfers[c][i].from : i \in DOMAIN transfers[c]}
                \cup {transfers[c][i].to : i \in DOMAIN transfers[c]}
HandlersWereInCharge ==
  \A c \in Concerns : \A i \in DOMAIN timeline[c] :
    LET a == timeline[c][i].actor IN a \in Handlers => Scope[a] \in Visited(c)

(* References identify concerns, and a creation that gave up after its     *)
(* collisions left nothing behind (createConcern).                         *)
ReferencesIdentify ==
  \A c \in Concerns :
    /\ Exists(c) <=> reference[c] # None
    /\ Exists(c) <=> timeline[c] # << >>
    /\ Exists(c) => timeline[c][1] = [event |-> "SUBMITTED", actor |-> owner[c]]
    /\ \A d \in Concerns \ {c} : Exists(c) => reference[c] # reference[d]

(* A concern leaves the workflow only through a request whose checks ran   *)
(* on a status that has changed since: a request that nobody overtakes     *)
(* moves along an edge of the workflow.                                    *)
Overtaken(w, c) ==
  /\ req[w].op \in {"updateStatus", "transfer", "resolve", "confirm", "reject"}
  /\ req[w].concern = c
  /\ req[w].seen.status # status[c]
  /\ req'[w] # req[w]
OnlyOvertakenLeaveWorkflow ==
  [][\A c \in Concerns :
       Exists(c) /\ status'[c] # status[c] =>
         \/ status'[c] \in Workflow!Successors[status[c]]
         \/ \E w \in Workers : Overtaken(w, c)]_vars

-----------------------------------------------------------------------------
(* Properties of requests that do not overlap.                             *)

(* The service implements the abstract workflow.                           *)
ImplementsWorkflow == Workflow!Spec
=============================================================================
