--------------------------- MODULE ConcernsProofs ---------------------------
(***************************************************************************)
(* Theorems about Concerns, for any number of concerns, people, targets    *)
(* and overlapping requests, in three parts: the steps, the types and the  *)
(* workflow; the rows of a concern and the people in it; and the           *)
(* refinement of ConcernWorkflow by one request at a time.                 *)
(***************************************************************************)
EXTENDS Concerns, FiniteSetTheorems, TLAPS

USE ActorsAssumption, BoundsAssumption

(***************************************************************************)
(* What a step can do, with the worker and its request named.              *)
(***************************************************************************)

(* createTimeline keeps the timelines sequences of entries. *)
LEMMA RecordTyped ==
  ASSUME TypeOK, NEW c \in Concerns, NEW events \in Seq(Events), NEW a \in Actors,
         Record(c, events, a)
  PROVE  timeline' \in [Concerns -> Seq(Entry)]
<1>1. [i \in 1..Len(events) |-> [event |-> events[i], actor |-> a]] \in Seq(Entry)
  BY DEF Entry
<1>2. timeline[c] \in Seq(Entry)
  BY DEF TypeOK
<1>. QED
  BY <1>1, <1>2 DEF Record, TypeOK

(* The checks of a request write nothing but the worker's request. *)
LEMMA AcceptStep ==
  ASSUME NEW w \in Workers, TypeOK, AcceptSome(w)
  PROVE  \E r \in Request : Accept(w, r)
<1>1. ASSUME NEW s \in Students, NEW t \in Targets, NEW v \in Visibilities,
             AcceptCreate(w, s, t, v)
      PROVE  \E r \in Request : Accept(w, r)
  BY <1>1 DEF AcceptCreate, Request, CreateRequest
<1>2. ASSUME NEW c \in Concerns, Exists(c) PROVE Access(c) \in AccessRecord
  BY <1>2 DEF TypeOK, Exists, Access, AccessRecord
<1>3. ASSUME NEW c \in Concerns, NEW a \in Admins \cup Handlers,
             NEW next \in {"UNDER_REVIEW", "IN_PROGRESS", "CLOSED"},
             AcceptUpdateStatus(w, a, c, next)
      PROVE  \E r \in Request : Accept(w, r)
  BY <1>2, <1>3 DEF AcceptUpdateStatus, Request, StatusRequest
<1>4. ASSUME NEW c \in Concerns, NEW a \in Admins \cup Handlers, NEW t \in Targets,
             AcceptTransfer(w, a, c, t)
      PROVE  \E r \in Request : Accept(w, r)
  BY <1>2, <1>4 DEF AcceptTransfer, Request, TransferRequest
<1>5. ASSUME NEW c \in Concerns, NEW a \in Admins \cup Handlers, AcceptResolve(w, a, c)
      PROVE  \E r \in Request : Accept(w, r)
  BY <1>2, <1>5 DEF AcceptResolve, Request, ResolveRequest
<1>6. ASSUME NEW c \in Concerns, NEW s \in Students, NEW op \in {"confirm", "reject"},
             AcceptAnswer(w, s, c, op)
      PROVE  \E r \in Request : Accept(w, r)
  BY <1>2, <1>6 DEF AcceptAnswer, Request, OwnerRequest
<1>7. ASSUME NEW c \in Concerns, NEW s \in Students, AcceptSupport(w, s, c)
      PROVE  \E r \in Request : Accept(w, r)
  BY <1>7 DEF AcceptSupport, Request, SupportRequest
<1>. QED
  BY <1>1, <1>3, <1>4, <1>5, <1>6, <1>7 DEF AcceptSome

(* The operation of a request tells which kind of request it is. *)
LEMMA RequestKinds ==
  ASSUME NEW r \in Request
  PROVE  /\ r.op = "create" => r \in CreateRequest
         /\ r.op = "updateStatus" => r \in StatusRequest
         /\ r.op = "transfer" => r \in TransferRequest
         /\ r.op = "resolve" => r \in ResolveRequest
         /\ r.op \in {"confirm", "reject"} => r \in OwnerRequest
         /\ r.op = "support" => r \in SupportRequest
         /\ r.op = "publish" => r \in PublishRequest
         /\ r.op = "idle" => r = Idle
BY DEF Request, Idle, CreateRequest, StatusRequest, TransferRequest, ResolveRequest,
       OwnerRequest, SupportRequest, PublishRequest

(* A worker that answers, or goes on to publish, keeps its type. *)
LEMMA AnswerTyped ==
  ASSUME TypeOK, NEW w \in Workers, NEW c \in Concerns,
         Respond(w) \/ ThenPublish(w, c)
  PROVE  /\ req' \in [Workers -> Request]
         /\ published' = published
<1>1. Idle \in Request /\ [op |-> "publish", concern |-> c] \in Request
  BY DEF Request, PublishRequest
<1>2. req \in [Workers -> Request]
  BY DEF TypeOK
<1>. QED
  BY <1>1, <1>2 DEF Respond, ThenPublish

(* updateStatus, as two operations use it, keeps the types. *)
LEMMA UpdateStatusTyped ==
  ASSUME TypeOK, NEW w \in Workers, NEW c \in Concerns, NEW next \in Statuses,
         NEW a \in Actors, UpdateStatusTx(c, next, a), Respond(w)
  PROVE  TypeOK'
<1>1. timeline' \in [Concerns -> Seq(Entry)]
  <2>1. <<next>> \in Seq(Events)
    BY DEF Events
  <2>. QED
    BY <2>1, RecordTyped DEF UpdateStatusTx
<1>2. req' \in [Workers -> Request] /\ published' = published
  BY AnswerTyped
<1>. QED
  BY <1>1, <1>2 DEF UpdateStatusTx, TypeOK, SetStatus, columns, rows

(* Every variable keeps its type: requests of a worker, rows and logs.     *)
THEOREM TypeCorrect == Spec => []TypeOK
<1>1. Init => TypeOK
  BY DEF Init, TypeOK, Request
<1>2. TypeOK /\ [Next]_vars => TypeOK'
  <2>. SUFFICES ASSUME TypeOK, [Next]_vars PROVE TypeOK'
    OBVIOUS
  <2>1. CASE UNCHANGED vars
    BY <2>1 DEF TypeOK, vars, columns, rows
  <2>. SUFFICES ASSUME NEW w \in Workers,
                       AcceptSome(w) \/ CommitSome(w) \/ Publish(w) \/ Abandon(w)
                PROVE  TypeOK'
    BY <2>1 DEF Next
  <2>2. CASE AcceptSome(w)
    <3>1. PICK r \in Request : Accept(w, r)
      BY <2>2, AcceptStep
    <3>. QED
      BY <3>1 DEF Accept, TypeOK, columns, rows
  <2>3. CASE Abandon(w)
    BY <2>3 DEF Abandon, TypeOK, columns, rows, Request
  <2>4. CASE Publish(w)
    <3>1. req[w] \in PublishRequest
      BY <2>4, RequestKinds DEF Publish, TypeOK
    <3>. QED
      BY <2>4, <3>1 DEF Publish, PublishRequest, TypeOK, columns, rows, Request
  <2>5. ASSUME NEW c \in Concerns, NEW n \in References, CommitCreate(w, c, n)
        PROVE  TypeOK'
    <3>1. req[w] \in CreateRequest
      BY <2>5, RequestKinds DEF CommitCreate, TypeOK
    <3>2. timeline' \in [Concerns -> Seq(Entry)]
      <4>1. <<"SUBMITTED">> \in Seq(Events) /\ req[w].actor \in Actors
        BY <3>1 DEF CreateRequest, Events, Statuses, Workflow!Statuses, Actors
      <4>. QED
        BY <2>5, <4>1, RecordTyped DEF CommitCreate
    <3>3. req' \in [Workers -> Request] /\ published' = published
      BY <2>5, AnswerTyped DEF CommitCreate
    <3>. QED
      BY <2>5, <3>1, <3>2, <3>3
      DEF CommitCreate, CreateRequest, TypeOK, SetStatus, Statuses, Workflow!Statuses, rows
  <2>6. ASSUME NEW n \in References, CollideCreate(w, n)
        PROVE  TypeOK'
    <3>1. req[w] \in CreateRequest
      BY <2>6, RequestKinds DEF CollideCreate, TypeOK
    <3>2. req[w].attempt < 2 => [req[w] EXCEPT !.attempt = @ + 1] \in Request
      <4>1. req[w].attempt \in 0..2
        BY <3>1 DEF CreateRequest
      <4>2. [req[w] EXCEPT !.attempt = @ + 1] \in CreateRequest \/ req[w].attempt = 2
        BY <3>1 DEF CreateRequest
      <4>. QED
        BY <4>1, <4>2 DEF Request
    <3>3. Idle \in Request
      BY DEF Request
    <3>4. req' \in [Workers -> Request]
      <4>1. req \in [Workers -> Request]
        BY DEF TypeOK
      <4>. QED
        BY <2>6, <3>2, <3>3, <4>1 DEF CollideCreate
    <3>. QED
      BY <2>6, <3>4 DEF CollideCreate, TypeOK, columns, rows
  <2>7. CASE CommitUpdateStatus(w)
    <3>1. req[w] \in StatusRequest
      BY <2>7, RequestKinds DEF CommitUpdateStatus, TypeOK
    <3>. DEFINE c == req[w].concern  next == req[w].to  a == req[w].actor
    <3>2. c \in Concerns /\ next \in Statuses /\ a \in Actors
      BY <3>1 DEF StatusRequest, Statuses, Workflow!Statuses, Actors
    <3>. QED
      BY <2>7, <3>2, UpdateStatusTyped DEF CommitUpdateStatus
  <2>8. CASE CommitConfirm(w)
    <3>1. req[w] \in OwnerRequest
      BY <2>8, RequestKinds DEF CommitConfirm, TypeOK
    <3>2. req[w].concern \in Concerns /\ "RESOLVED" \in Statuses /\ req[w].actor \in Actors
      BY <3>1 DEF OwnerRequest, Statuses, Workflow!Statuses, Actors
    <3>. QED
      BY <2>8, <3>2, UpdateStatusTyped DEF CommitConfirm
  <2>9. CASE CommitTransfer(w)
    <3>1. req[w] \in TransferRequest
      BY <2>9, RequestKinds DEF CommitTransfer, TypeOK
    <3>. DEFINE c == req[w].concern
    <3>2. c \in Concerns /\ <<"TRANSFERRED">> \in Seq(Events) /\ req[w].actor \in Actors
      BY <3>1 DEF TransferRequest, Events, Statuses, Workflow!Statuses, Actors
    <3>3. timeline' \in [Concerns -> Seq(Entry)]
      BY <2>9, <3>2, RecordTyped DEF CommitTransfer
    <3>4. req' \in [Workers -> Request] /\ published' = published
      BY <2>9, <3>2, AnswerTyped DEF CommitTransfer
    <3>5. [from |-> req[w].seen.target, to |-> req[w].to] \in TransferRow
      BY <3>1 DEF TransferRequest, AccessRecord, TransferRow
    <3>6. transfers' \in [Concerns -> Seq(TransferRow)]
      BY <2>9, <3>2, <3>5 DEF CommitTransfer, TypeOK
    <3>7. req[w].to \in Targets /\ "TRANSFERRED" \in Statuses
      BY <3>1 DEF TransferRequest, Statuses, Workflow!Statuses
    <3>. QED
      BY <2>9, <3>2, <3>3, <3>4, <3>6, <3>7 DEF CommitTransfer, TypeOK, SetStatus, columns
  <2>10. CASE CommitResolve(w)
    <3>1. req[w] \in ResolveRequest
      BY <2>10, RequestKinds DEF CommitResolve, TypeOK
    <3>. DEFINE c == req[w].concern
    <3>2. /\ c \in Concerns /\ req[w].actor \in Actors
          /\ <<"RESOLUTION_SUBMITTED", "AWAITING_CONFIRMATION">> \in Seq(Events)
      BY <3>1 DEF ResolveRequest, Events, Statuses, Workflow!Statuses, Actors
    <3>3. timeline' \in [Concerns -> Seq(Entry)]
      BY <2>10, <3>2, RecordTyped DEF CommitResolve
    <3>4. req' \in [Workers -> Request] /\ published' = published
      BY <2>10, <3>2, AnswerTyped DEF CommitResolve
    <3>. QED
      BY <2>10, <3>2, <3>3, <3>4
      DEF CommitResolve, TypeOK, SetStatus, Statuses, Workflow!Statuses, columns
  <2>11. CASE CommitReject(w)
    <3>1. req[w] \in OwnerRequest
      BY <2>11, RequestKinds DEF CommitReject, TypeOK
    <3>. DEFINE c == req[w].concern
    <3>2. c \in Concerns /\ <<"REOPENED">> \in Seq(Events) /\ req[w].actor \in Actors
      BY <3>1 DEF OwnerRequest, Events, Statuses, Workflow!Statuses, Actors
    <3>3. timeline' \in [Concerns -> Seq(Entry)]
      BY <2>11, <3>2, RecordTyped DEF CommitReject
    <3>4. req' \in [Workers -> Request] /\ published' = published
      BY <2>11, <3>2, AnswerTyped DEF CommitReject
    <3>. QED
      <4>1. reopens' \in [Concerns -> Nat]
        BY <2>11, <3>2 DEF CommitReject, TypeOK
      <4>. QED
        BY <2>11, <3>2, <3>3, <3>4, <4>1
        DEF CommitReject, TypeOK, SetStatus, Statuses, Workflow!Statuses, columns
  <2>12. CASE CommitSupport(w)
    <3>1. req[w] \in SupportRequest
      BY <2>12, RequestKinds DEF CommitSupport, TypeOK
    <3>. DEFINE c == req[w].concern
    <3>2. /\ c \in Concerns /\ <<"SUPPORTED">> \in Seq(Events)
          /\ req[w].actor \in Actors \cap Students
      BY <3>1 DEF SupportRequest, Events, Actors
    <3>3. timeline' \in [Concerns -> Seq(Entry)]
      <4>1. CASE req[w].actor \notin supporters[c]
        BY <2>12, <3>2, <4>1, RecordTyped DEF CommitSupport
      <4>2. CASE req[w].actor \in supporters[c]
        BY <2>12, <4>2 DEF CommitSupport, TypeOK
      <4>. QED
        BY <4>1, <4>2
    <3>4. req' \in [Workers -> Request] /\ published' = published
      BY <2>12, <3>2, AnswerTyped DEF CommitSupport
    <3>5. supporters' \in [Concerns -> SUBSET Students]
      <4>1. supporters \in [Concerns -> SUBSET Students]
        BY DEF TypeOK
      <4>2. supporters[c] \cup {req[w].actor} \in SUBSET Students
        BY <3>2, <4>1
      <4>3. \/ supporters' = supporters
            \/ supporters' = [supporters EXCEPT ![c] = @ \cup {req[w].actor}]
        BY <2>12 DEF CommitSupport
      <4>. QED
        BY <3>2, <4>1, <4>2, <4>3
    <3>6. UNCHANGED <<status, target, resolvedAt, columns, report, reopens, transfers>>
      BY <2>12 DEF CommitSupport
    <3>. QED
      BY <3>3, <3>4, <3>5, <3>6 DEF TypeOK, columns
  <2>. QED
    BY <2>2, <2>3, <2>4, <2>5, <2>6, <2>7, <2>8, <2>9, <2>10, <2>11, <2>12 DEF CommitSome
<1>. QED
  BY <1>1, <1>2, PTL DEF Spec

(***************************************************************************)
(* What each step writes, as needed by the invariants below. A worker is   *)
(* accepted, commits, or gives up; only commits touch rows and timelines.  *)
(***************************************************************************)

(* A step is one operation of one worker, or changes nothing. *)
LEMMA StepCases ==
  ASSUME TypeOK, [Next]_vars
  PROVE  \/ UNCHANGED vars
         \/ \E w \in Workers :
              \/ AcceptSome(w) \/ Publish(w) \/ Abandon(w)
              \/ \E c \in Concerns, n \in References : CommitCreate(w, c, n)
              \/ \E n \in References : CollideCreate(w, n)
              \/ CommitUpdateStatus(w) \/ CommitTransfer(w) \/ CommitResolve(w)
              \/ CommitConfirm(w) \/ CommitReject(w) \/ CommitSupport(w)
BY DEF Next, CommitSome

(* Steps that leave every row, log and column alone. *)
QuietStep == UNCHANGED <<status, target, resolvedAt, columns, rows, timeline>>

(* Checks, publications, failures and collisions leave the database alone. *)
LEMMA QuietSteps ==
  ASSUME TypeOK, NEW w \in Workers
  PROVE  /\ AcceptSome(w) => QuietStep
         /\ Publish(w) => QuietStep
         /\ Abandon(w) => QuietStep
         /\ \A n : CollideCreate(w, n) => QuietStep
<1>1. AcceptSome(w) => QuietStep
  BY AcceptStep DEF Accept, QuietStep
<1>. QED
  BY <1>1 DEF Publish, Abandon, CollideCreate, QuietStep

(* Appending events ends a timeline in a status event when the last event  *)
(* appended is one.                                                        *)
LEMMA RecordStatus ==
  ASSUME TypeOK, NEW c \in Concerns, NEW events \in Seq(Events), NEW a \in Actors,
         Len(events) > 0, Record(c, events, a), status'[c] = events[Len(events)]
  PROVE  StatusIsLastLogged(c)'
<1>. DEFINE new == [i \in 1..Len(events) |-> [event |-> events[i], actor |-> a]]
            tl == timeline[c]
<1>1. tl \in Seq(Entry) /\ new \in Seq(Entry) /\ Len(new) = Len(events)
  <2>1. new \in Seq(Entry)
    BY DEF Entry
  <2>2. Len(new) = Len(events)
    OBVIOUS
  <2>. QED
    BY <2>1, <2>2 DEF TypeOK
<1>2. timeline'[c] = tl \o new
  BY DEF Record, TypeOK
<1>3. /\ Len(tl \o new) = Len(tl) + Len(events)
      /\ (tl \o new)[Len(tl) + Len(events)] = new[Len(events)]
  BY <1>1
<1>4. new[Len(events)].event = status'[c]
  <2>1. Len(events) \in 1..Len(events)
    OBVIOUS
  <2>. QED
    BY <2>1
<1>5. DOMAIN (tl \o new) = 1..(Len(tl) + Len(events))
  BY <1>1, <1>3
<1>6. Len(tl) + Len(events) \in DOMAIN (tl \o new)
  BY <1>1, <1>5
<1>7. \A j \in DOMAIN (tl \o new) : ~(j > Len(tl) + Len(events))
  BY <1>1, <1>5
<1>. QED
  BY <1>2, <1>3, <1>4, <1>6, <1>7 DEF StatusIsLastLogged

-----------------------------------------------------------------------------
(***************************************************************************)
(* AnsweredHasReport: a report is never removed, so the one an answer saw  *)
(* when it was accepted is there when it commits.                          *)
(***************************************************************************)
ReportInv ==
  /\ AnsweredHasReport
  /\ \A w \in Workers : req[w].op \in {"confirm", "reject"} => report[req[w].concern]

(* The requests in progress after a worker takes, or leaves, one. *)
LEMMA AnswerAccepted ==
  ASSUME TypeOK, NEW w \in Workers, AcceptSome(w), req'[w].op \in {"confirm", "reject"}
  PROVE  report[req'[w].concern] /\ status[req'[w].concern] = "AWAITING_CONFIRMATION"
<1>. DEFINE Good == report[req'[w].concern] /\ status[req'[w].concern] = "AWAITING_CONFIRMATION"
<1>0. req \in [Workers -> Request]
  BY DEF TypeOK
<1>1. ASSUME NEW r, Accept(w, r) PROVE req'[w] = r
  BY <1>0, <1>1 DEF Accept
<1>2. ASSUME NEW s \in Students, NEW t \in Targets, NEW v \in Visibilities,
             AcceptCreate(w, s, t, v)
      PROVE  Good
  BY <1>1, <1>2 DEF AcceptCreate
<1>3. ASSUME NEW c \in Concerns, NEW a \in Admins \cup Handlers,
             NEW next \in {"UNDER_REVIEW", "IN_PROGRESS", "CLOSED"},
             AcceptUpdateStatus(w, a, c, next)
      PROVE  Good
  BY <1>1, <1>3 DEF AcceptUpdateStatus
<1>4. ASSUME NEW c \in Concerns, NEW a \in Admins \cup Handlers, NEW t \in Targets,
             AcceptTransfer(w, a, c, t)
      PROVE  Good
  BY <1>1, <1>4 DEF AcceptTransfer
<1>5. ASSUME NEW c \in Concerns, NEW a \in Admins \cup Handlers, AcceptResolve(w, a, c)
      PROVE  Good
  BY <1>1, <1>5 DEF AcceptResolve
<1>6. ASSUME NEW c \in Concerns, NEW s \in Students, NEW op \in {"confirm", "reject"},
             AcceptAnswer(w, s, c, op)
      PROVE  Good
  BY <1>1, <1>6 DEF AcceptAnswer
<1>7. ASSUME NEW c \in Concerns, NEW s \in Students, AcceptSupport(w, s, c)
      PROVE  Good
  BY <1>1, <1>7 DEF AcceptSupport
<1>. QED
  BY <1>2, <1>3, <1>4, <1>5, <1>6, <1>7 DEF AcceptSome

(* A concern that waits for, or has, its owner's confirmation has a        *)
(* report, whatever requests overlap (check-database.ts).                  *)
THEOREM AnsweredConcernsHaveReports == Spec => []AnsweredHasReport
<1>1. Init => ReportInv
  BY DEF Init, ReportInv, AnsweredHasReport, Idle
<1>2. TypeOK /\ ReportInv /\ [Next]_vars => ReportInv'
  <2>. SUFFICES ASSUME TypeOK, ReportInv, [Next]_vars PROVE ReportInv'
    OBVIOUS
  <2>0. req \in [Workers -> Request] /\ report \in [Concerns -> BOOLEAN]
        /\ status \in [Concerns -> Statuses \cup {"NONE"}]
    BY DEF TypeOK
  <2>. DEFINE Keeps(w) == \A v \in Workers \ {w} : req'[v] = req[v]
              Quits(w) == req'[w].op \notin {"confirm", "reject"}
              Sets(c, st) == status' = [status EXCEPT ![c] = st]
  <2>1. CASE UNCHANGED vars
    BY <2>1 DEF ReportInv, AnsweredHasReport, vars, rows
  <2>2. ASSUME NEW w \in Workers, Keeps(w), Quits(w), QuietStep PROVE ReportInv'
    BY <2>2 DEF ReportInv, AnsweredHasReport, QuietStep, rows
  <2>3. ASSUME NEW w \in Workers, NEW c \in Concerns, NEW st, Keeps(w), Quits(w),
               Sets(c, st), UNCHANGED report,
               st \in {"AWAITING_CONFIRMATION", "RESOLVED"} => report[c]
        PROVE  ReportInv'
    BY <2>0, <2>3 DEF ReportInv, AnsweredHasReport
  <2>4. ASSUME NEW w \in Workers, AcceptSome(w) PROVE ReportInv'
    <3>1. Keeps(w) /\ QuietStep
      BY <2>0, <2>4, AcceptStep, QuietSteps DEF Accept
    <3>2. ~Quits(w) => report[req'[w].concern]
      BY <2>4, AnswerAccepted
    <3>. QED
      BY <3>1, <3>2 DEF ReportInv, AnsweredHasReport, QuietStep, rows
  <2>5. ASSUME NEW w \in Workers, Publish(w) \/ Abandon(w) PROVE ReportInv'
    <3>1. Keeps(w) /\ Quits(w)
      BY <2>0, <2>5 DEF Publish, Abandon, Idle
    <3>. QED
      BY <2>2, <2>5, <3>1, QuietSteps
  <2>6. ASSUME NEW w \in Workers, NEW n \in References, CollideCreate(w, n) PROVE ReportInv'
    <3>1. req[w] \in CreateRequest
      BY <2>0, <2>6, RequestKinds DEF CollideCreate
    <3>2. [req[w] EXCEPT !.attempt = @ + 1].op = "create"
      BY <3>1 DEF CreateRequest
    <3>3. Keeps(w) /\ Quits(w)
      BY <2>0, <2>6, <3>2 DEF CollideCreate, Idle
    <3>. QED
      BY <2>2, <2>6, <3>3, QuietSteps
  <2>7. ASSUME NEW w \in Workers, Respond(w) PROVE Keeps(w) /\ Quits(w)
    BY <2>0, <2>7 DEF Respond, Idle
  <2>8. ASSUME NEW w \in Workers, NEW c, ThenPublish(w, c) PROVE Keeps(w) /\ Quits(w)
    BY <2>0, <2>8 DEF ThenPublish
  <2>9. ASSUME NEW w \in Workers, NEW c \in Concerns, NEW n \in References,
               CommitCreate(w, c, n)
        PROVE  ReportInv'
    BY <2>3, <2>8, <2>9 DEF CommitCreate, SetStatus, rows
  <2>10. ASSUME NEW w \in Workers, CommitUpdateStatus(w) PROVE ReportInv'
    <3>1. /\ req[w].concern \in Concerns
          /\ req[w].to \notin {"AWAITING_CONFIRMATION", "RESOLVED"}
      BY <2>0, <2>10, RequestKinds DEF CommitUpdateStatus, StatusRequest
    <3>. QED
      BY <2>3, <2>7, <2>10, <3>1 DEF CommitUpdateStatus, UpdateStatusTx, SetStatus, rows
  <2>11. ASSUME NEW w \in Workers, CommitTransfer(w) PROVE ReportInv'
    <3>1. req[w].concern \in Concerns
      BY <2>0, <2>11, RequestKinds DEF CommitTransfer, TransferRequest
    <3>. QED
      BY <2>3, <2>8, <2>11, <3>1 DEF CommitTransfer, SetStatus
  <2>12. ASSUME NEW w \in Workers, CommitResolve(w) PROVE ReportInv'
    <3>1. req[w].concern \in Concerns
      BY <2>0, <2>12, RequestKinds DEF CommitResolve, ResolveRequest
    <3>2. /\ report' = [report EXCEPT ![req[w].concern] = TRUE]
          /\ Sets(req[w].concern, "AWAITING_CONFIRMATION")
          /\ Keeps(w) /\ Quits(w)
      BY <2>8, <2>12 DEF CommitResolve, SetStatus
    <3>. QED
      BY <2>0, <3>1, <3>2 DEF ReportInv, AnsweredHasReport
  <2>13. ASSUME NEW w \in Workers, CommitConfirm(w) PROVE ReportInv'
    <3>1. req[w].concern \in Concerns /\ report[req[w].concern]
      BY <2>0, <2>13, RequestKinds DEF CommitConfirm, OwnerRequest, ReportInv
    <3>. QED
      BY <2>3, <2>7, <2>13, <3>1 DEF CommitConfirm, UpdateStatusTx, SetStatus, rows
  <2>14. ASSUME NEW w \in Workers, CommitReject(w) PROVE ReportInv'
    <3>1. req[w].concern \in Concerns
      BY <2>0, <2>14, RequestKinds DEF CommitReject, OwnerRequest
    <3>. QED
      BY <2>3, <2>8, <2>14, <3>1 DEF CommitReject, SetStatus
  <2>15. ASSUME NEW w \in Workers, CommitSupport(w) PROVE ReportInv'
    <3>1. Keeps(w) /\ Quits(w) /\ UNCHANGED <<status, report>>
      BY <2>7, <2>8, <2>15 DEF CommitSupport
    <3>. QED
      BY <3>1 DEF ReportInv, AnsweredHasReport
  <2>. QED
    BY <2>1, <2>4, <2>5, <2>6, <2>9, <2>10, <2>11, <2>12, <2>13, <2>14, <2>15, StepCases
<1>3. ReportInv => AnsweredHasReport
  BY DEF ReportInv
<1>. QED
  BY <1>1, <1>2, <1>3, TypeCorrect, PTL DEF Spec

-----------------------------------------------------------------------------
(***************************************************************************)
(* StatusMatchesTimeline: every write of a status appends the event that   *)
(* ends the timeline in it, so the invariant is inductive as it stands.    *)
(***************************************************************************)

(* A write to one concern only has to explain the status of that concern. *)
LEMMA OthersKeepTheirLog ==
  ASSUME TypeOK, StatusMatchesTimeline, NEW c \in Concerns, StatusIsLastLogged(c)',
         \A d \in Concerns \ {c} : timeline'[d] = timeline[d] /\ status'[d] = status[d]
  PROVE  StatusMatchesTimeline'
<1>. SUFFICES ASSUME NEW d \in Concerns, Exists(d)' PROVE StatusIsLastLogged(d)'
  BY DEF StatusMatchesTimeline
<1>1. CASE d = c
  BY <1>1
<1>2. CASE d # c
  BY <1>2 DEF StatusMatchesTimeline, StatusIsLastLogged, Exists
<1>. QED
  BY <1>1, <1>2

(* A write of a status together with the entry for it keeps the match. *)
LEMMA WriteKeepsMatch ==
  ASSUME TypeOK, StatusMatchesTimeline, NEW c \in Concerns,
         NEW events \in Seq(Events), NEW a \in Actors, NEW st,
         Len(events) > 0, st = events[Len(events)], SetStatus(c, st), Record(c, events, a)
  PROVE  StatusMatchesTimeline'
<1>1. status'[c] = st
  BY DEF SetStatus, TypeOK
<1>2. StatusIsLastLogged(c)'
  BY <1>1, RecordStatus
<1>3. \A d \in Concerns \ {c} : timeline'[d] = timeline[d] /\ status'[d] = status[d]
  BY DEF SetStatus, Record, TypeOK
<1>. QED
  BY <1>2, <1>3, OthersKeepTheirLog

(* A supporter's entry is not a status event, and the status stays. *)
LEMMA SupportKeepsMatch ==
  ASSUME TypeOK, StatusMatchesTimeline, NEW c \in Concerns, NEW a \in Actors,
         UNCHANGED status, Record(c, <<"SUPPORTED">>, a)
  PROVE  StatusMatchesTimeline'
<1>. DEFINE tl == timeline[c]  new == [event |-> "SUPPORTED", actor |-> a]
<1>1. tl \in Seq(Entry) /\ new \in Entry
  BY DEF TypeOK, Entry, Events
<1>2. timeline'[c] = Append(tl, new)
  <2>1. timeline'[c] = tl \o [i \in 1..1 |-> [event |-> <<"SUPPORTED">>[i], actor |-> a]]
    BY DEF Record, TypeOK
  <2>2. [i \in 1..1 |-> [event |-> <<"SUPPORTED">>[i], actor |-> a]] = <<new>>
    OBVIOUS
  <2>. QED
    BY <1>1, <2>1, <2>2
<1>3. \A d \in Concerns \ {c} : timeline'[d] = timeline[d]
  BY DEF Record, TypeOK
<1>. SUFFICES ASSUME NEW d \in Concerns, Exists(d)' PROVE StatusIsLastLogged(d)'
  BY DEF StatusMatchesTimeline
<1>4. StatusIsLastLogged(d)
  BY DEF StatusMatchesTimeline, Exists
<1>5. CASE d = c
  <2>1. PICK i \in DOMAIN tl :
          tl[i].event = status[c] /\ \A j \in DOMAIN tl : j > i => tl[j].event \notin Statuses
    BY <1>4, <1>5 DEF StatusIsLastLogged
  <2>2. DOMAIN tl = 1..Len(tl) /\ DOMAIN Append(tl, new) = 1..(Len(tl) + 1)
    BY <1>1
  <2>3. /\ \A j \in 1..Len(tl) : Append(tl, new)[j] = tl[j]
        /\ Append(tl, new)[Len(tl) + 1] = new
    BY <1>1
  <2>4. new.event \notin Statuses
    BY DEF Statuses, Workflow!Statuses
  <2>5. \A j \in DOMAIN Append(tl, new) : j > i => Append(tl, new)[j].event \notin Statuses
    <3>1. \A j \in DOMAIN Append(tl, new) : j \in 1..Len(tl) \/ j = Len(tl) + 1
      BY <1>1, <2>2
    <3>. QED
      BY <2>1, <2>2, <2>3, <2>4, <3>1
  <2>6. i \in DOMAIN Append(tl, new) /\ Append(tl, new)[i].event = status[c]
    BY <1>1, <2>1, <2>2, <2>3
  <2>. QED
    BY <1>2, <1>5, <2>5, <2>6 DEF StatusIsLastLogged
<1>6. CASE d # c
  BY <1>3, <1>4, <1>6 DEF StatusIsLastLogged
<1>. QED
  BY <1>5, <1>6

(* The lists of events that the operations record are lists of events. *)
LEMMA EventsTyped ==
  /\ \A st \in Statuses : <<st>> \in Seq(Events) /\ Len(<<st>>) = 1 /\ <<st>>[1] = st
  /\ <<"RESOLUTION_SUBMITTED", "AWAITING_CONFIRMATION">> \in Seq(Events)
  /\ {"SUBMITTED", "TRANSFERRED", "AWAITING_CONFIRMATION", "RESOLVED", "REOPENED",
      "UNDER_REVIEW", "IN_PROGRESS", "CLOSED"} \subseteq Statuses
BY DEF Events, Statuses, Workflow!Statuses

(* The status of a concern is the last status event of its timeline,       *)
(* whatever requests overlap (concern.repository.ts).                      *)
THEOREM TimelineExplainsStatus == Spec => []StatusMatchesTimeline
<1>1. Init => StatusMatchesTimeline
  BY DEF Init, StatusMatchesTimeline, Exists
<1>2. TypeOK /\ StatusMatchesTimeline /\ [Next]_vars => StatusMatchesTimeline'
  <2>. SUFFICES ASSUME TypeOK, StatusMatchesTimeline, [Next]_vars
                PROVE  StatusMatchesTimeline'
    OBVIOUS
  <2>0. req \in [Workers -> Request]
    BY DEF TypeOK
  <2>1. CASE QuietStep
    BY <2>1 DEF QuietStep, StatusMatchesTimeline, StatusIsLastLogged, Exists
  <2>2. CASE UNCHANGED vars
    BY <2>1, <2>2 DEF vars, QuietStep
  <2>3. ASSUME NEW c \in Concerns, NEW st \in Statuses, NEW a \in Actors,
               SetStatus(c, st), Record(c, <<st>>, a)
        PROVE  StatusMatchesTimeline'
    <3>. DEFINE events == <<st>>
    <3>1. events \in Seq(Events) /\ Len(events) > 0 /\ events[Len(events)] = st
      BY EventsTyped
    <3>2. Record(c, events, a)
      BY <2>3
    <3>. HIDE DEF events
    <3>. QED
      BY <2>3, <3>1, <3>2, WriteKeepsMatch
  <2>4. ASSUME NEW w \in Workers, NEW c \in Concerns, NEW n \in References,
               CommitCreate(w, c, n)
        PROVE  StatusMatchesTimeline'
    <3>1. req[w].actor \in Actors
      BY <2>0, <2>4, RequestKinds DEF CommitCreate, CreateRequest, Actors
    <3>. QED
      BY <2>3, <2>4, <3>1, EventsTyped DEF CommitCreate
  <2>5. ASSUME NEW w \in Workers, CommitUpdateStatus(w) PROVE StatusMatchesTimeline'
    <3>1. req[w].actor \in Actors /\ req[w].concern \in Concerns /\ req[w].to \in Statuses
      BY <2>0, <2>5, RequestKinds, EventsTyped DEF CommitUpdateStatus, StatusRequest, Actors
    <3>. QED
      BY <2>3, <2>5, <3>1 DEF CommitUpdateStatus, UpdateStatusTx
  <2>6. ASSUME NEW w \in Workers, CommitConfirm(w) PROVE StatusMatchesTimeline'
    <3>1. req[w].actor \in Actors /\ req[w].concern \in Concerns
      BY <2>0, <2>6, RequestKinds DEF CommitConfirm, OwnerRequest, Actors
    <3>. QED
      BY <2>3, <2>6, <3>1, EventsTyped DEF CommitConfirm, UpdateStatusTx
  <2>7. ASSUME NEW w \in Workers, CommitTransfer(w) PROVE StatusMatchesTimeline'
    <3>1. req[w].actor \in Actors /\ req[w].concern \in Concerns
      BY <2>0, <2>7, RequestKinds DEF CommitTransfer, TransferRequest, Actors
    <3>. QED
      BY <2>3, <2>7, <3>1, EventsTyped DEF CommitTransfer
  <2>8. ASSUME NEW w \in Workers, CommitReject(w) PROVE StatusMatchesTimeline'
    <3>1. req[w].actor \in Actors /\ req[w].concern \in Concerns
      BY <2>0, <2>8, RequestKinds DEF CommitReject, OwnerRequest, Actors
    <3>. QED
      BY <2>3, <2>8, <3>1, EventsTyped DEF CommitReject
  <2>9. ASSUME NEW w \in Workers, CommitResolve(w) PROVE StatusMatchesTimeline'
    <3>1. req[w].actor \in Actors /\ req[w].concern \in Concerns
      BY <2>0, <2>9, RequestKinds DEF CommitResolve, ResolveRequest, Actors
    <3>. DEFINE events == <<"RESOLUTION_SUBMITTED", "AWAITING_CONFIRMATION">>
    <3>2. events \in Seq(Events) /\ Len(events) > 0
          /\ events[Len(events)] = "AWAITING_CONFIRMATION"
      BY EventsTyped
    <3>3. /\ SetStatus(req[w].concern, "AWAITING_CONFIRMATION")
          /\ Record(req[w].concern, events, req[w].actor)
      BY <2>9 DEF CommitResolve
    <3>. HIDE DEF events
    <3>. QED
      BY <3>1, <3>2, <3>3, WriteKeepsMatch
  <2>10. ASSUME NEW w \in Workers, CommitSupport(w) PROVE StatusMatchesTimeline'
    <3>1. req[w].actor \in Actors /\ req[w].concern \in Concerns
      BY <2>0, <2>10, RequestKinds DEF CommitSupport, SupportRequest, Actors
    <3>2. status' = status
          /\ (timeline' = timeline \/ Record(req[w].concern, <<"SUPPORTED">>, req[w].actor))
      BY <2>10 DEF CommitSupport
    <3>3. CASE timeline' = timeline
      BY <3>2, <3>3 DEF StatusMatchesTimeline, StatusIsLastLogged, Exists
    <3>. QED
      BY <3>1, <3>2, <3>3, SupportKeepsMatch
  <2>. QED
    BY <2>1, <2>2, <2>4, <2>5, <2>6, <2>7, <2>8, <2>9, <2>10, StepCases, QuietSteps
<1>. QED
  BY <1>1, <1>2, TypeCorrect, PTL DEF Spec

-----------------------------------------------------------------------------
(***************************************************************************)
(* OnlyOvertakenLeaveWorkflow: what a request is about to write is an edge *)
(* of the workflow from the status it saw.                                 *)
(***************************************************************************)
Edge(from, to) == to \in Workflow!Successors[from]

Checked(r) ==
  /\ r.op = "updateStatus" => Edge(r.seen.status, r.to)
  /\ r.op = "transfer" => Edge(r.seen.status, "TRANSFERRED")
  /\ r.op = "resolve" => Edge(r.seen.status, "AWAITING_CONFIRMATION")
  /\ r.op = "confirm" => Edge(r.seen.status, "RESOLVED")
  /\ r.op = "reject" => Edge(r.seen.status, "REOPENED")
CheckedInv == \A w \in Workers : Checked(req[w])

(* A request that starts has passed the checks of its operation. *)
LEMMA AcceptChecks ==
  ASSUME TypeOK, NEW w \in Workers, AcceptSome(w)
  PROVE  Checked(req'[w])
<1>. DEFINE Good == Checked(req'[w])
<1>0. req \in [Workers -> Request]
  BY DEF TypeOK
<1>1. ASSUME NEW r, Accept(w, r) PROVE req'[w] = r
  BY <1>0, <1>1 DEF Accept
<1>2. ASSUME NEW s \in Students, NEW t \in Targets, NEW v \in Visibilities,
             AcceptCreate(w, s, t, v)
      PROVE  Good
  BY <1>1, <1>2 DEF AcceptCreate, Checked
<1>8. ASSUME NEW c \in Concerns, Exists(c) PROVE status[c] \in Statuses
  BY <1>8 DEF TypeOK, Exists
<1>3. ASSUME NEW c \in Concerns, NEW a \in Admins \cup Handlers,
             NEW next \in {"UNDER_REVIEW", "IN_PROGRESS", "CLOSED"},
             AcceptUpdateStatus(w, a, c, next)
      PROVE  Good
  <2>1. Exists(c) /\ status[c] \in Statuses
    BY <1>3, <1>8 DEF AcceptUpdateStatus
  <2>2. Edge(status[c], next)
    BY <1>3, <2>1 DEF AcceptUpdateStatus, Allowed, Edge, Workflow!Successors,
                      Statuses, Workflow!Statuses
  <2>3. req'[w].op = "updateStatus" /\ req'[w].to = next /\ req'[w].seen.status = status[c]
    BY <1>1, <1>3 DEF AcceptUpdateStatus, Access
  <2>. QED
    BY <2>2, <2>3 DEF Checked
<1>4. ASSUME NEW c \in Concerns, NEW a \in Admins \cup Handlers, NEW t \in Targets,
             AcceptTransfer(w, a, c, t)
      PROVE  Good
  <2>1. Edge(status[c], "TRANSFERRED")
    BY <1>4 DEF AcceptTransfer, Transferable, Edge, Workflow!Successors
  <2>2. req'[w].op = "transfer" /\ req'[w].seen.status = status[c]
    BY <1>1, <1>4 DEF AcceptTransfer, Access
  <2>. QED
    BY <2>1, <2>2 DEF Checked
<1>5. ASSUME NEW c \in Concerns, NEW a \in Admins \cup Handlers, AcceptResolve(w, a, c)
      PROVE  Good
  <2>1. Edge(status[c], "AWAITING_CONFIRMATION")
    BY <1>5 DEF AcceptResolve, Resolvable, Edge, Workflow!Successors
  <2>2. req'[w].op = "resolve" /\ req'[w].seen.status = status[c]
    BY <1>1, <1>5 DEF AcceptResolve, Access
  <2>. QED
    BY <2>1, <2>2 DEF Checked
<1>6. ASSUME NEW c \in Concerns, NEW s \in Students, NEW op \in {"confirm", "reject"},
             AcceptAnswer(w, s, c, op)
      PROVE  Good
  <2>1. Edge(status[c], "RESOLVED") /\ Edge(status[c], "REOPENED")
    BY <1>6 DEF AcceptAnswer, Edge, Workflow!Successors
  <2>2. req'[w].op = op /\ req'[w].seen.status = status[c]
    BY <1>1, <1>6 DEF AcceptAnswer, Access
  <2>. QED
    BY <2>1, <2>2 DEF Checked
<1>7. ASSUME NEW c \in Concerns, NEW s \in Students, AcceptSupport(w, s, c)
      PROVE  Good
  BY <1>1, <1>7 DEF AcceptSupport, Checked
<1>. QED
  BY <1>2, <1>3, <1>4, <1>5, <1>6, <1>7 DEF AcceptSome

(* Requests in progress keep the checks they passed on what they saw. *)
LEMMA CheckedInductive == TypeOK /\ CheckedInv /\ [Next]_vars => CheckedInv'
<1>. SUFFICES ASSUME TypeOK, CheckedInv, [Next]_vars PROVE CheckedInv'
  OBVIOUS
<1>0. req \in [Workers -> Request]
  BY DEF TypeOK
<1>1. CASE UNCHANGED vars
  BY <1>1 DEF CheckedInv, vars
<1>2. ASSUME NEW w \in Workers, NEW r, req' = [req EXCEPT ![w] = r], Checked(r)
      PROVE  CheckedInv'
  BY <1>0, <1>2 DEF CheckedInv
<1>3. Checked(Idle) /\ \A c : Checked([op |-> "publish", concern |-> c])
  BY DEF Checked, Idle
<1>4. ASSUME NEW w \in Workers, AcceptSome(w) PROVE CheckedInv'
  BY <1>0, <1>2, <1>4, AcceptStep, AcceptChecks DEF Accept
<1>5. ASSUME NEW w \in Workers, Publish(w) \/ Abandon(w) \/ Respond(w) PROVE CheckedInv'
  BY <1>2, <1>3, <1>5 DEF Publish, Abandon, Respond
<1>6. ASSUME NEW w \in Workers, NEW c, ThenPublish(w, c) PROVE CheckedInv'
  BY <1>2, <1>3, <1>6 DEF ThenPublish
<1>7. ASSUME NEW w \in Workers, NEW n \in References, CollideCreate(w, n) PROVE CheckedInv'
  <2>1. req[w] \in CreateRequest
    BY <1>0, <1>7, RequestKinds DEF CollideCreate
  <2>2. Checked([req[w] EXCEPT !.attempt = @ + 1])
    BY <2>1 DEF CreateRequest, Checked
  <2>. QED
    BY <1>2, <1>3, <1>7, <2>2 DEF CollideCreate
<1>. QED
  BY <1>1, <1>4, <1>5, <1>6, <1>7, StepCases
  DEF CommitCreate, CommitUpdateStatus, CommitTransfer, CommitResolve, CommitConfirm,
      CommitReject, CommitSupport

(* A concern leaves the workflow only through a request that another one   *)
(* overtook between its checks and its commit (concern.service.ts).        *)
THEOREM WorkflowUnlessOvertaken == Spec => OnlyOvertakenLeaveWorkflow
<1>. DEFINE Fine == \A c \in Concerns :
                      Exists(c) /\ status'[c] # status[c] =>
                        \/ Edge(status[c], status'[c])
                        \/ \E w \in Workers : Overtaken(w, c)
<1>1. TypeOK /\ CheckedInv /\ [Next]_vars => Fine
  <2>. SUFFICES ASSUME TypeOK, CheckedInv, [Next]_vars PROVE Fine
    OBVIOUS
  <2>0. /\ req \in [Workers -> Request]
        /\ status \in [Concerns -> Statuses \cup {"NONE"}]
    BY DEF TypeOK
  <2>1. CASE UNCHANGED status
    BY <2>1
  <2>2. ASSUME NEW w \in Workers, NEW st,
               req[w].op \in {"updateStatus", "transfer", "resolve", "confirm", "reject"},
               SetStatus(req[w].concern, st), Edge(req[w].seen.status, st),
               req'[w] # req[w]
        PROVE  Fine
    <3>. SUFFICES ASSUME NEW c \in Concerns, Exists(c), status'[c] # status[c]
                  PROVE  Edge(status[c], status'[c]) \/ Overtaken(w, c)
      OBVIOUS
    <3>1. req[w].concern = c /\ status'[c] = st
      BY <2>0, <2>2 DEF SetStatus
    <3>2. CASE req[w].seen.status = status[c]
      BY <2>2, <3>1, <3>2
    <3>3. CASE req[w].seen.status # status[c]
      BY <2>2, <3>1, <3>3 DEF Overtaken
    <3>. QED
      BY <3>2, <3>3
  <2>3. \A w \in Workers : \A c : Respond(w) \/ ThenPublish(w, c) =>
                                 req'[w].op \in {"idle", "publish"}
    BY <2>0 DEF Respond, ThenPublish, Idle
  <2>4. ASSUME NEW w \in Workers, CommitUpdateStatus(w) PROVE Fine
    <3>1. Edge(req[w].seen.status, req[w].to) /\ req[w].op = "updateStatus"
      BY <2>4 DEF CommitUpdateStatus, CheckedInv, Checked
    <3>2. SetStatus(req[w].concern, req[w].to) /\ req'[w] # req[w]
      BY <2>3, <2>4, <3>1 DEF CommitUpdateStatus, UpdateStatusTx
    <3>. QED
      BY <2>2, <3>1, <3>2
  <2>5. ASSUME NEW w \in Workers, CommitTransfer(w) PROVE Fine
    <3>1. Edge(req[w].seen.status, "TRANSFERRED") /\ req[w].op = "transfer"
      BY <2>5 DEF CommitTransfer, CheckedInv, Checked
    <3>2. SetStatus(req[w].concern, "TRANSFERRED") /\ req'[w] # req[w]
      BY <2>3, <2>5, <3>1 DEF CommitTransfer
    <3>. QED
      BY <2>2, <3>1, <3>2
  <2>6. ASSUME NEW w \in Workers, CommitResolve(w) PROVE Fine
    <3>1. Edge(req[w].seen.status, "AWAITING_CONFIRMATION") /\ req[w].op = "resolve"
      BY <2>6 DEF CommitResolve, CheckedInv, Checked
    <3>2. SetStatus(req[w].concern, "AWAITING_CONFIRMATION") /\ req'[w] # req[w]
      BY <2>3, <2>6, <3>1 DEF CommitResolve
    <3>. QED
      BY <2>2, <3>1, <3>2
  <2>7. ASSUME NEW w \in Workers, CommitConfirm(w) PROVE Fine
    <3>1. Edge(req[w].seen.status, "RESOLVED") /\ req[w].op = "confirm"
      BY <2>7 DEF CommitConfirm, CheckedInv, Checked
    <3>2. SetStatus(req[w].concern, "RESOLVED") /\ req'[w] # req[w]
      BY <2>3, <2>7, <3>1 DEF CommitConfirm, UpdateStatusTx
    <3>. QED
      BY <2>2, <3>1, <3>2
  <2>8. ASSUME NEW w \in Workers, CommitReject(w) PROVE Fine
    <3>1. Edge(req[w].seen.status, "REOPENED") /\ req[w].op = "reject"
      BY <2>8 DEF CommitReject, CheckedInv, Checked
    <3>2. SetStatus(req[w].concern, "REOPENED") /\ req'[w] # req[w]
      BY <2>3, <2>8, <3>1 DEF CommitReject
    <3>. QED
      BY <2>2, <3>1, <3>2
  <2>9. ASSUME NEW w \in Workers, NEW c \in Concerns, NEW n \in References,
               CommitCreate(w, c, n)
        PROVE  Fine
    BY <2>0, <2>9 DEF CommitCreate, SetStatus, Exists
  <2>10. ASSUME NEW w \in Workers, CommitSupport(w) PROVE Fine
    BY <2>1, <2>10 DEF CommitSupport
  <2>. QED
    BY <2>1, <2>4, <2>5, <2>6, <2>7, <2>8, <2>9, <2>10, StepCases, QuietSteps
    DEF vars, QuietStep
<1>2. Init => CheckedInv
  BY DEF Init, CheckedInv, Checked, Idle
<1>3. Fine => [\A c \in Concerns :
                 Exists(c) /\ status'[c] # status[c] =>
                   \/ status'[c] \in Workflow!Successors[status[c]]
                   \/ \E w \in Workers : Overtaken(w, c)]_vars
  BY DEF Edge
<1>. HIDE DEF Fine
<1>. QED
  BY <1>1, <1>2, <1>3, CheckedInductive, TypeCorrect, PTL
  DEF Spec, OnlyOvertakenLeaveWorkflow

-----------------------------------------------------------------------------
(***************************************************************************)
(* What the rows of a concern have to do with its timeline and with the    *)
(* people in it. The theorems rest on what requests in progress have       *)
(* checked, which stays true because a concern keeps its owner, its        *)
(* visibility and its reference, and its logs only grow.                   *)
(***************************************************************************)


(***************************************************************************)
(* What a step does to the requests, and to a concern.                     *)
(***************************************************************************)

LEMMA Concatenation ==
  ASSUME NEW S, NEW s \in Seq(S), NEW t \in Seq(S)
  PROVE  /\ Len(s \o t) = Len(s) + Len(t)
         /\ DOMAIN (s \o t) = 1..(Len(s) + Len(t))
         /\ \A i \in 1..Len(s) : (s \o t)[i] = s[i]
         /\ \A i \in 1..Len(t) : (s \o t)[Len(s) + i] = t[i]
<1>1. s \o t \in Seq(S) /\ Len(s \o t) = Len(s) + Len(t)
  OBVIOUS
<1>2. DOMAIN (s \o t) = 1..Len(s \o t)
  BY <1>1
<1>3. \A i \in 1..Len(s) : (s \o t)[i] = s[i]
  OBVIOUS
<1>4. \A i \in 1..Len(t) : (s \o t)[Len(s) + i] = t[i]
  OBVIOUS
<1>. QED
  BY <1>1, <1>2, <1>3, <1>4

(* createTimeline, entry by entry. *)
LEMMA RecordAppends ==
  ASSUME TypeOK, NEW c \in Concerns, NEW events \in Seq(Events), NEW a \in Actors,
         Record(c, events, a)
  PROVE  /\ Len(timeline[c]) \in Nat /\ DOMAIN timeline[c] = 1..Len(timeline[c])
         /\ Len(timeline'[c]) = Len(timeline[c]) + Len(events)
         /\ DOMAIN timeline'[c] = 1..(Len(timeline[c]) + Len(events))
         /\ \A i \in 1..Len(timeline[c]) : timeline'[c][i] = timeline[c][i]
         /\ \A i \in 1..Len(events) :
              timeline'[c][Len(timeline[c]) + i] = [event |-> events[i], actor |-> a]
         /\ \A d \in Concerns \ {c} : timeline'[d] = timeline[d]
<1>. DEFINE new == [i \in 1..Len(events) |-> [event |-> events[i], actor |-> a]]
            tl == timeline[c]
<1>1. tl \in Seq(Entry) /\ new \in Seq(Entry) /\ Len(new) = Len(events)
  <2>1. new \in Seq(Entry)
    BY DEF Entry
  <2>. QED
    BY <2>1 DEF TypeOK
<1>2. timeline'[c] = tl \o new /\ \A d \in Concerns \ {c} : timeline'[d] = timeline[d]
  BY DEF Record, TypeOK
<1>3. \A i \in 1..Len(events) : new[i] = [event |-> events[i], actor |-> a]
  OBVIOUS
<1>. HIDE DEF new, tl
<1>4. Len(tl) \in Nat /\ DOMAIN tl = 1..Len(tl)
  BY <1>1
<1>5. /\ Len(tl \o new) = Len(tl) + Len(new)
      /\ DOMAIN (tl \o new) = 1..(Len(tl) + Len(new))
      /\ \A i \in 1..Len(tl) : (tl \o new)[i] = tl[i]
      /\ \A i \in 1..Len(new) : (tl \o new)[Len(tl) + i] = new[i]
  <2>1. \A s, t \in Seq(Entry) :
          /\ Len(s \o t) = Len(s) + Len(t)
          /\ DOMAIN (s \o t) = 1..(Len(s) + Len(t))
          /\ \A i \in 1..Len(s) : (s \o t)[i] = s[i]
          /\ \A i \in 1..Len(t) : (s \o t)[Len(s) + i] = t[i]
    BY Concatenation
  <2>2. tl \in Seq(Entry) /\ new \in Seq(Entry)
    BY <1>1
  <2>. QED
    BY <2>1, <2>2, Zenon
<1>. QED
  BY <1>1, <1>2, <1>3, <1>4, <1>5 DEF tl

LEMMA RecordOne ==
  ASSUME TypeOK, NEW c \in Concerns, NEW e \in Events, NEW a \in Actors,
         Record(c, <<e>>, a)
  PROVE  LET n == Len(timeline[c]) IN
         /\ n \in Nat /\ DOMAIN timeline[c] = 1..n /\ DOMAIN timeline'[c] = 1..(n + 1)
         /\ timeline'[c][n + 1] = [event |-> e, actor |-> a]
<1>. DEFINE events == <<e>>
<1>1. events \in Seq(Events) /\ Len(events) = 1 /\ events[1] = e
  OBVIOUS
<1>2. Record(c, events, a)
  OBVIOUS
<1>. HIDE DEF events
<1>. QED
  BY <1>1, <1>2, RecordAppends

(* The entries of a timeline after createTimeline: the old ones, and one   *)
(* for each event, by the actor.                                           *)
LEMMA RecordEntries ==
  ASSUME TypeOK, NEW c \in Concerns, NEW events \in Seq(Events), NEW a \in Actors,
         Record(c, events, a)
  PROVE  /\ \A i \in DOMAIN timeline[c] :
              i \in DOMAIN timeline'[c] /\ timeline'[c][i] = timeline[c][i]
         /\ \A i \in DOMAIN timeline'[c] \ DOMAIN timeline[c] :
              \E j \in 1..Len(events) :
                /\ i = Len(timeline[c]) + j
                /\ timeline'[c][i].event = events[j] /\ timeline'[c][i].actor = a
         /\ \A j \in 1..Len(events) :
              Len(timeline[c]) + j \in DOMAIN timeline'[c] \ DOMAIN timeline[c]
<1>. DEFINE n == Len(timeline[c])  k == Len(events)
<1>1. n \in Nat /\ k \in Nat
  BY RecordAppends
<1>2. DOMAIN timeline[c] = 1..n /\ DOMAIN timeline'[c] = 1..(n + k)
  BY RecordAppends
<1>3. \A i \in 1..n : timeline'[c][i] = timeline[c][i]
  BY RecordAppends
<1>4. \A j \in 1..k : timeline'[c][n + j] = [event |-> events[j], actor |-> a]
  BY RecordAppends
<1>. HIDE DEF n, k
<1>5. ASSUME NEW i \in DOMAIN timeline'[c] \ DOMAIN timeline[c]
      PROVE  \E j \in 1..k : /\ i = n + j
                             /\ timeline'[c][i].event = events[j] /\ timeline'[c][i].actor = a
  <2>1. i - n \in 1..k /\ i = n + (i - n)
    BY <1>1, <1>2
  <2>2. timeline'[c][n + (i - n)] = [event |-> events[i - n], actor |-> a]
    BY <1>4, <2>1
  <2>3. timeline'[c][i] = [event |-> events[i - n], actor |-> a]
    BY <2>1, <2>2
  <2>. QED
    BY <2>1, <2>3
<1>6. \A j \in 1..k : n + j \in DOMAIN timeline'[c] \ DOMAIN timeline[c]
  BY <1>1, <1>2
<1>7. \A i \in DOMAIN timeline[c] : i \in DOMAIN timeline'[c] /\ timeline'[c][i] = timeline[c][i]
  BY <1>1, <1>2, <1>3
<1>. QED
  BY <1>5, <1>6, <1>7 DEF n, k

(* The worker that commits, publishes or gives up has nothing in progress  *)
(* afterwards that rests on a check; the others keep their requests.       *)
Unchecked(r) == r.op \in {"idle", "publish", "create"}
Others(w) == \A v \in Workers \ {w} : req'[v] = req[v]

LEMMA CommitsAnswer ==
  ASSUME TypeOK, NEW w \in Workers,
         CommitSome(w) \/ Publish(w) \/ Abandon(w)
  PROVE  Others(w) /\ Unchecked(req'[w])
<1>0. req \in [Workers -> Request]
  BY DEF TypeOK
<1>1. \A r : req' = [req EXCEPT ![w] = r] /\ Unchecked(r) => Others(w) /\ Unchecked(req'[w])
  BY <1>0 DEF Others
<1>2. Unchecked(Idle) /\ \A c : Unchecked([op |-> "publish", concern |-> c])
  BY DEF Unchecked, Idle
<1>3. Respond(w) \/ Publish(w) \/ Abandon(w) => Others(w) /\ Unchecked(req'[w])
  BY <1>1, <1>2 DEF Respond, Publish, Abandon
<1>4. ASSUME NEW c, ThenPublish(w, c) PROVE Others(w) /\ Unchecked(req'[w])
  BY <1>1, <1>2, <1>4 DEF ThenPublish
<1>5. ASSUME NEW n \in References, CollideCreate(w, n)
      PROVE  Others(w) /\ Unchecked(req'[w])
  <2>1. req[w] \in CreateRequest
    BY <1>0, <1>5, RequestKinds DEF CollideCreate
  <2>2. Unchecked([req[w] EXCEPT !.attempt = @ + 1])
    BY <2>1 DEF CreateRequest, Unchecked
  <2>. QED
    BY <1>1, <1>2, <1>5, <2>2 DEF CollideCreate
<1>. QED
  BY <1>3, <1>4, <1>5
  DEF CommitSome, CommitCreate, CommitUpdateStatus, CommitTransfer, CommitResolve,
      CommitConfirm, CommitReject, CommitSupport

(* What a concern on record keeps. *)
Kept(c) ==
  /\ status'[c] # "NONE"
  /\ owner'[c] = owner[c] /\ visibility'[c] = visibility[c] /\ reference'[c] = reference[c]
  /\ \A i \in DOMAIN timeline[c] :
       i \in DOMAIN timeline'[c] /\ timeline'[c][i] = timeline[c][i]

LEMMA ConcernsKeep ==
  ASSUME TypeOK, [Next]_vars, NEW c \in Concerns, Exists(c)
  PROVE  Kept(c)
<1>0. /\ req \in [Workers -> Request]
      /\ status \in [Concerns -> Statuses \cup {"NONE"}]
      /\ owner \in [Concerns -> Students \cup {None}]
      /\ visibility \in [Concerns -> {"PUBLIC", "PRIVATE"}]
      /\ reference \in [Concerns -> References \cup {None}]
  BY DEF TypeOK
<1>. USE DEF Kept
<1>1. ASSUME QuietStep PROVE Kept(c)
  BY <1>1 DEF QuietStep, columns, Exists
<1>2. ASSUME UNCHANGED columns, status'[c] # "NONE",
             NEW d \in Concerns, NEW events \in Seq(Events), NEW a \in Actors,
             Record(d, events, a)
      PROVE  Kept(c)
  <2>1. \A i \in DOMAIN timeline[c] : i \in DOMAIN timeline'[c] /\ timeline'[c][i] = timeline[c][i]
    <3>1. CASE d = c
      BY <1>2, <3>1, RecordEntries
    <3>2. CASE d # c
      BY <1>2, <3>2, RecordAppends
    <3>. QED
      BY <3>1, <3>2
  <2>. QED
    BY <1>2, <2>1 DEF columns
<1>3. ASSUME NEW d, NEW st \in Statuses, SetStatus(d, st) PROVE status'[c] # "NONE"
  BY <1>0, <1>3 DEF SetStatus, Exists, Statuses, Workflow!Statuses
<1>. HIDE DEF Kept
<1>4. ASSUME UNCHANGED columns, NEW d \in Concerns, NEW a \in Actors, NEW st \in Statuses,
             SetStatus(d, st), Record(d, <<st>>, a)
      PROVE  Kept(c)
  BY <1>2, <1>3, <1>4, EventsTyped
<1>5. ASSUME NEW w \in Workers, NEW d \in Concerns, NEW n \in References, CommitCreate(w, d, n)
      PROVE  Kept(c)
  <2>1. d # c
    BY <1>5 DEF CommitCreate, Exists
  <2>2. timeline'[c] = timeline[c]
    BY <1>0, <1>5, <2>1 DEF CommitCreate, Record, TypeOK
  <2>. QED
    BY <1>0, <1>5, <2>1, <2>2 DEF CommitCreate, SetStatus, Kept, Exists
<1>6. ASSUME NEW w \in Workers, CommitUpdateStatus(w) PROVE Kept(c)
  <2>1. req[w].actor \in Actors /\ req[w].concern \in Concerns /\ req[w].to \in Statuses
    BY <1>0, <1>6, RequestKinds, EventsTyped DEF CommitUpdateStatus, StatusRequest, Actors
  <2>. QED
    BY <1>4, <1>6, <2>1 DEF CommitUpdateStatus, UpdateStatusTx
<1>7. ASSUME NEW w \in Workers, CommitConfirm(w) PROVE Kept(c)
  <2>1. req[w].actor \in Actors /\ req[w].concern \in Concerns
    BY <1>0, <1>7, RequestKinds DEF CommitConfirm, OwnerRequest, Actors
  <2>. QED
    BY <1>4, <1>7, <2>1, EventsTyped DEF CommitConfirm, UpdateStatusTx
<1>8. ASSUME NEW w \in Workers, CommitTransfer(w) PROVE Kept(c)
  <2>1. req[w].actor \in Actors /\ req[w].concern \in Concerns
    BY <1>0, <1>8, RequestKinds DEF CommitTransfer, TransferRequest, Actors
  <2>. QED
    BY <1>4, <1>8, <2>1, EventsTyped DEF CommitTransfer
<1>9. ASSUME NEW w \in Workers, CommitReject(w) PROVE Kept(c)
  <2>1. req[w].actor \in Actors /\ req[w].concern \in Concerns
    BY <1>0, <1>9, RequestKinds DEF CommitReject, OwnerRequest, Actors
  <2>. QED
    BY <1>4, <1>9, <2>1, EventsTyped DEF CommitReject
<1>10. ASSUME NEW w \in Workers, CommitResolve(w) PROVE Kept(c)
  <2>1. req[w].actor \in Actors /\ req[w].concern \in Concerns
    BY <1>0, <1>10, RequestKinds DEF CommitResolve, ResolveRequest, Actors
  <2>. DEFINE events == <<"RESOLUTION_SUBMITTED", "AWAITING_CONFIRMATION">>
  <2>2. events \in Seq(Events) /\ Record(req[w].concern, events, req[w].actor)
        /\ UNCHANGED columns
    BY <1>10, EventsTyped DEF CommitResolve
  <2>3. status'[c] # "NONE"
    BY <1>3, <1>10, EventsTyped DEF CommitResolve
  <2>. HIDE DEF events
  <2>. QED
    BY <1>2, <2>1, <2>2, <2>3
<1>11. ASSUME NEW w \in Workers, CommitSupport(w) PROVE Kept(c)
  <2>1. req[w].actor \in Actors /\ req[w].concern \in Concerns
    BY <1>0, <1>11, RequestKinds DEF CommitSupport, SupportRequest, Actors
  <2>2. status'[c] # "NONE" /\ UNCHANGED columns /\ <<"SUPPORTED">> \in Seq(Events)
    BY <1>11 DEF CommitSupport, Exists, Events
  <2>3. CASE timeline' = timeline
    BY <2>2, <2>3 DEF Kept, columns
  <2>. QED
    BY <1>2, <1>11, <2>1, <2>2, <2>3 DEF CommitSupport
<1>. QED
  BY <1>1, <1>5, <1>6, <1>7, <1>8, <1>9, <1>10, <1>11, StepCases, QuietSteps
  DEF vars, QuietStep

-----------------------------------------------------------------------------
(***************************************************************************)
(* A step seen from one concern: nothing of it changes, it is created, or  *)
(* a request about it commits.                                             *)
(***************************************************************************)
Same(c) ==
  /\ status'[c] = status[c] /\ target'[c] = target[c] /\ resolvedAt'[c] = resolvedAt[c]
  /\ owner'[c] = owner[c] /\ visibility'[c] = visibility[c] /\ reference'[c] = reference[c]
  /\ report'[c] = report[c] /\ reopens'[c] = reopens[c] /\ supporters'[c] = supporters[c]
  /\ transfers'[c] = transfers[c] /\ timeline'[c] = timeline[c]

CommitOn(w, c) ==
  /\ req[w].concern = c
  /\ \/ CommitUpdateStatus(w) \/ CommitTransfer(w) \/ CommitResolve(w)
     \/ CommitConfirm(w) \/ CommitReject(w) \/ CommitSupport(w)

(* Transactions write the rows of the concern they are about, and no other. *)
LEMMA CommitsAreLocal ==
  ASSUME TypeOK, NEW w \in Workers, NEW c \in Concerns,
         \/ CommitUpdateStatus(w) \/ CommitTransfer(w) \/ CommitResolve(w)
         \/ CommitConfirm(w) \/ CommitReject(w) \/ CommitSupport(w)
  PROVE  CommitOn(w, c) \/ Same(c)
<1>. SUFFICES ASSUME req[w].concern # c PROVE Same(c)
  BY DEF CommitOn
<1>. DEFINE d == req[w].concern
<1>1. \A st : SetStatus(d, st) => status'[c] = status[c]
  BY DEF SetStatus, TypeOK
<1>2. \A events, a : Record(d, events, a) => timeline'[c] = timeline[c]
  BY DEF Record, TypeOK
<1>3. UNCHANGED columns => owner'[c] = owner[c] /\ visibility'[c] = visibility[c]
                           /\ reference'[c] = reference[c]
  BY DEF columns
<1>4. CASE CommitUpdateStatus(w) \/ CommitConfirm(w)
  BY <1>1, <1>2, <1>3, <1>4
  DEF CommitUpdateStatus, CommitConfirm, UpdateStatusTx, Same, TypeOK, rows
<1>5. CASE CommitTransfer(w)
  BY <1>1, <1>2, <1>3, <1>5 DEF CommitTransfer, Same, TypeOK
<1>6. CASE CommitResolve(w)
  BY <1>1, <1>2, <1>3, <1>6 DEF CommitResolve, Same, TypeOK
<1>7. CASE CommitReject(w)
  BY <1>1, <1>2, <1>3, <1>7 DEF CommitReject, Same, TypeOK
<1>8. CASE CommitSupport(w)
  BY <1>1, <1>2, <1>3, <1>8 DEF CommitSupport, Same, TypeOK
<1>. QED
  BY <1>4, <1>5, <1>6, <1>7, <1>8

LEMMA StepOn ==
  ASSUME TypeOK, [Next]_vars, NEW c \in Concerns
  PROVE  \/ Same(c)
         \/ \E w \in Workers, n \in References : CommitCreate(w, c, n)
         \/ \E w \in Workers : CommitOn(w, c)
<1>1. QuietStep => Same(c)
  BY DEF QuietStep, columns, rows, Same
<1>2. UNCHANGED vars => QuietStep
  BY DEF vars, QuietStep
<1>3. ASSUME NEW w \in Workers, NEW d \in Concerns, NEW n \in References,
             CommitCreate(w, d, n), d # c
      PROVE  Same(c)
  BY <1>3 DEF CommitCreate, SetStatus, Record, Same, rows, TypeOK
<1>. QED
  BY <1>1, <1>2, <1>3, CommitsAreLocal, StepCases, QuietSteps

-----------------------------------------------------------------------------
(***************************************************************************)
(* The invariant. Ids that are not on record have no rows. The transfers   *)
(* of a concern form a trail from its first target to the one in charge,   *)
(* and a request in progress rests on checks that stay true: it saw a      *)
(* target on the trail, and its actor was allowed what it is about to do.  *)
(***************************************************************************)
At(c, t) ==
  IF transfers[c] = << >>
  THEN t = target[c]
  ELSE t = transfers[c][1].from \/ \E j \in DOMAIN transfers[c] : transfers[c][j].to = t

Fresh(c) ==
  ~Exists(c) => /\ owner[c] = None /\ reference[c] = None
                /\ reopens[c] = 0 /\ supporters[c] = {}
                /\ transfers[c] = << >> /\ timeline[c] = << >>

Sound(r) ==
  /\ r.op \in {"updateStatus", "transfer", "resolve", "confirm", "reject", "support"} =>
       Exists(r.concern)
  /\ r.op \in {"updateStatus", "transfer", "resolve"} =>
       CanHandle(r.actor, r.seen) /\ At(r.concern, r.seen.target)
  /\ r.op = "transfer" => r.to # r.seen.target
  /\ r.op \in {"confirm", "reject"} =>
       /\ r.actor = owner[r.concern]
       /\ \E i \in DOMAIN timeline[r.concern] :
            timeline[r.concern][i].event = "AWAITING_CONFIRMATION"
  /\ r.op = "support" => visibility[r.concern] = "PUBLIC" /\ owner[r.concern] # r.actor

RecordsInv ==
  /\ \A c \in Concerns : Fresh(c) /\ TransfersLeadToTarget(c)
  /\ \A w \in Workers : Sound(req[w])

(* What the transaction of a transfer adds to the trail. *)
LEMMA TransferAppends ==
  ASSUME TypeOK, NEW w \in Workers, NEW c \in Concerns, req[w].concern = c,
         CommitTransfer(w)
  PROVE  /\ req[w] \in TransferRequest
         /\ target'[c] = req[w].to
         /\ DOMAIN transfers[c] = 1..Len(transfers[c]) /\ Len(transfers[c]) \in Nat
         /\ Len(transfers'[c]) = Len(transfers[c]) + 1
         /\ DOMAIN transfers'[c] = 1..(Len(transfers[c]) + 1)
         /\ transfers'[c] # << >>
         /\ \A i \in 1..Len(transfers[c]) : transfers'[c][i] = transfers[c][i]
         /\ transfers'[c][Len(transfers[c]) + 1].from = req[w].seen.target
         /\ transfers'[c][Len(transfers[c]) + 1].to = req[w].to
<1>1. req[w] \in TransferRequest
  BY RequestKinds DEF TypeOK, CommitTransfer
<1>. DEFINE row == [from |-> req[w].seen.target, to |-> req[w].to]
            log == transfers[c]
<1>2. row \in TransferRow /\ row.from = req[w].seen.target /\ row.to = req[w].to
  BY <1>1 DEF TransferRequest, AccessRecord, TransferRow
<1>3. log \in Seq(TransferRow)
  BY DEF TypeOK
<1>4. transfers'[c] = Append(log, row) /\ target'[c] = req[w].to
  BY DEF CommitTransfer, TypeOK
<1>. HIDE DEF row, log
<1>5. /\ DOMAIN log = 1..Len(log) /\ Len(log) \in Nat
      /\ Len(Append(log, row)) = Len(log) + 1
      /\ DOMAIN Append(log, row) = 1..(Len(log) + 1)
  BY <1>2, <1>3
<1>6. /\ Append(log, row) # << >>
      /\ \A i \in 1..Len(log) : Append(log, row)[i] = log[i]
      /\ Append(log, row)[Len(log) + 1] = row
  BY <1>2, <1>3
<1>. QED
  BY <1>1, <1>2, <1>4, <1>5, <1>6 DEF log

(* Commits other than that of a transfer leave the trail alone.            *)
LEMMA OthersKeepTrail ==
  ASSUME TypeOK, NEW w \in Workers, NEW c \in Concerns, CommitOn(w, c)
  PROVE  \/ CommitTransfer(w)
         \/ transfers'[c] = transfers[c] /\ target'[c] = target[c]
BY DEF CommitOn, CommitUpdateStatus, CommitResolve, CommitConfirm, CommitReject,
       CommitSupport, UpdateStatusTx, rows

(* The trail only grows, and stays a trail. *)
LEMMA TrailKept ==
  ASSUME TypeOK, RecordsInv, [Next]_vars, NEW c \in Concerns, Exists(c)
  PROVE  TransfersLeadToTarget(c)' /\ \A t : At(c, t) => At(c, t)'
<1>1. CASE transfers'[c] = transfers[c] /\ target'[c] = target[c]
  BY <1>1 DEF RecordsInv, TransfersLeadToTarget, At
<1>2. ASSUME NEW w \in Workers, CommitTransfer(w), req[w].concern = c
      PROVE  TransfersLeadToTarget(c)' /\ \A t : At(c, t) => At(c, t)'
  <2>. DEFINE log == transfers[c]  next == transfers'[c]  n == Len(transfers[c])
              from == req[w].seen.target  to == req[w].to
  <2>1. /\ target'[c] = to /\ n \in Nat /\ DOMAIN log = 1..n /\ DOMAIN next = 1..(n + 1)
        /\ Len(next) = n + 1 /\ next # << >>
        /\ \A i \in 1..n : next[i] = log[i]
        /\ next[n + 1].from = from /\ next[n + 1].to = to
    BY <1>2, TransferAppends
  <2>2. At(c, from) /\ from # to
    BY <1>2 DEF RecordsInv, Sound, CommitTransfer
  <2>3. log = << >> <=> n = 0
    BY DEF TypeOK
  <2>4. n > 0 => /\ log[n].to = target[c]
                 /\ \A i \in 1..n : /\ log[i].from # log[i].to
                                    /\ \/ log[i].from = log[1].from
                                       \/ \E j \in 1..(i - 1) : log[j].to = log[i].from
    BY <2>1 DEF RecordsInv, TransfersLeadToTarget
  <2>5. ASSUME NEW t, At(c, t) PROVE At(c, t)'
    <3>1. CASE n = 0
      BY <2>1, <2>2, <2>3, <2>5, <3>1 DEF At
    <3>2. CASE n > 0
      BY <2>1, <2>3, <2>5, <3>2 DEF At
    <3>. QED
      BY <2>1, <3>1, <3>2
  <2>6. ASSUME NEW i \in 1..(n + 1)
        PROVE  /\ next[i].from # next[i].to
               /\ \/ next[i].from = next[1].from
                  \/ \E j \in 1..(i - 1) : next[j].to = next[i].from
    <3>1. CASE i \in 1..n
      <4>1. next[i] = log[i] /\ next[1] = log[1] /\ n > 0
        BY <2>1, <3>1
      <4>2. \A j \in 1..(i - 1) : next[j] = log[j]
        BY <2>1, <3>1
      <4>. HIDE DEF next, log
      <4>. QED
        BY <2>4, <3>1, <4>1, <4>2
    <3>2. CASE i = n + 1 /\ n = 0
      BY <2>1, <2>2, <3>2
    <3>3. CASE i = n + 1 /\ n > 0
      <4>1. from = log[1].from \/ \E j \in 1..n : log[j].to = from
        BY <2>1, <2>2, <2>3, <3>3 DEF At
      <4>2. next[i].from = from /\ next[i].to = to /\ i - 1 = n /\ 1 \in 1..n
        BY <2>1, <3>3
      <4>3. \A j \in 1..n : next[j] = log[j]
        BY <2>1
      <4>. HIDE DEF next, from, to, log
      <4>. QED
        BY <2>2, <4>1, <4>2, <4>3
    <3>. QED
      BY <2>1, <3>1, <3>2, <3>3
  <2>. HIDE DEF log, next, n, from, to
  <2>7. next[Len(next)].to = target'[c]
    BY <2>1
  <2>8. TransfersLeadToTarget(c)'
    BY <2>1, <2>6, <2>7 DEF TransfersLeadToTarget, next
  <2>. QED
    BY <2>5, <2>8
<1>. QED
  BY <1>1, <1>2, StepOn, OthersKeepTrail DEF Same, CommitOn, CommitCreate

(* What an id keeps when it has no row, and what a creation gives it. *)
LEMMA FreshKept ==
  ASSUME TypeOK, RecordsInv, [Next]_vars, NEW c \in Concerns, ~Exists(c)
  PROVE  Fresh(c)' /\ TransfersLeadToTarget(c)'
<1>1. Fresh(c)
  BY DEF RecordsInv
<1>2. CASE Same(c)
  BY <1>1, <1>2 DEF Same, Fresh, Exists, RecordsInv, TransfersLeadToTarget
<1>3. ASSUME NEW w \in Workers, NEW n \in References, CommitCreate(w, c, n)
      PROVE  Fresh(c)' /\ TransfersLeadToTarget(c)'
  <2>1. transfers'[c] = << >> /\ status'[c] = "SUBMITTED"
    BY <1>1, <1>3 DEF CommitCreate, Fresh, rows, SetStatus, TypeOK
  <2>. QED
    BY <2>1 DEF Fresh, TransfersLeadToTarget, Exists
<1>4. ASSUME NEW w \in Workers, CommitOn(w, c) PROVE FALSE
  BY <1>4 DEF RecordsInv, Sound, CommitOn, CommitUpdateStatus, CommitTransfer, CommitResolve,
              CommitConfirm, CommitReject, CommitSupport
<1>. QED
  BY <1>2, <1>3, <1>4, StepOn

(* The checks of a request hold when it starts. *)
LEMMA AcceptSound ==
  ASSUME TypeOK, RecordsInv, StatusMatchesTimeline, NEW w \in Workers, AcceptSome(w)
  PROVE  Sound(req[w])'
<1>. DEFINE Good == Sound(req[w])'
<1>0. req \in [Workers -> Request] /\ QuietStep
  BY QuietSteps DEF TypeOK
<1>1. ASSUME NEW r, Accept(w, r), Sound(r) PROVE Good
  <2>1. req'[w] = r
    BY <1>0, <1>1 DEF Accept
  <2>. QED
    BY <1>0, <1>1, <2>1 DEF Sound, QuietStep, columns, rows, Exists, At
<1>2. ASSUME NEW c \in Concerns, Exists(c) PROVE At(c, target[c])
  <2>1. transfers[c] \in Seq(TransferRow)
    BY DEF TypeOK
  <2>2. transfers[c] # << >> => Len(transfers[c]) > 0 /\ Len(transfers[c]) \in DOMAIN transfers[c]
    BY <2>1
  <2>. QED
    BY <1>2, <2>2 DEF At, RecordsInv, TransfersLeadToTarget
<1>3. ASSUME NEW s \in Students, NEW t \in Targets, NEW v \in Visibilities,
             AcceptCreate(w, s, t, v)
      PROVE  Good
  BY <1>1, <1>3 DEF AcceptCreate, Sound
<1>4. ASSUME NEW c \in Concerns, NEW a \in Admins \cup Handlers,
             NEW next \in {"UNDER_REVIEW", "IN_PROGRESS", "CLOSED"},
             AcceptUpdateStatus(w, a, c, next)
      PROVE  Good
  <2>. DEFINE r == [op |-> "updateStatus", concern |-> c, actor |-> a, to |-> next,
                    seen |-> Access(c)]
  <2>1. Sound(r)
    BY <1>2, <1>4 DEF AcceptUpdateStatus, Sound, Access
  <2>. QED
    BY <1>1, <1>4, <2>1 DEF AcceptUpdateStatus
<1>5. ASSUME NEW c \in Concerns, NEW a \in Admins \cup Handlers, NEW t \in Targets,
             AcceptTransfer(w, a, c, t)
      PROVE  Good
  <2>. DEFINE r == [op |-> "transfer", concern |-> c, actor |-> a, to |-> t, seen |-> Access(c)]
  <2>1. Sound(r)
    BY <1>2, <1>5 DEF AcceptTransfer, Sound, Access
  <2>. QED
    BY <1>1, <1>5, <2>1 DEF AcceptTransfer
<1>6. ASSUME NEW c \in Concerns, NEW a \in Admins \cup Handlers, AcceptResolve(w, a, c)
      PROVE  Good
  <2>. DEFINE r == [op |-> "resolve", concern |-> c, actor |-> a, seen |-> Access(c)]
  <2>1. Sound(r)
    BY <1>2, <1>6 DEF AcceptResolve, Sound, Access
  <2>. QED
    BY <1>1, <1>6, <2>1 DEF AcceptResolve
<1>7. ASSUME NEW c \in Concerns, NEW s \in Students, NEW op \in {"confirm", "reject"},
             AcceptAnswer(w, s, c, op)
      PROVE  Good
  <2>. DEFINE r == [op |-> op, concern |-> c, actor |-> s, seen |-> Access(c)]
  <2>1. \E i \in DOMAIN timeline[c] : timeline[c][i].event = "AWAITING_CONFIRMATION"
    BY <1>7 DEF AcceptAnswer, StatusMatchesTimeline, StatusIsLastLogged
  <2>2. Sound(r)
    BY <1>7, <2>1 DEF AcceptAnswer, Sound
  <2>. QED
    BY <1>1, <1>7, <2>2 DEF AcceptAnswer
<1>8. ASSUME NEW c \in Concerns, NEW s \in Students, AcceptSupport(w, s, c)
      PROVE  Good
  <2>. DEFINE r == [op |-> "support", concern |-> c, actor |-> s]
  <2>1. Sound(r)
    BY <1>8 DEF AcceptSupport, Sound
  <2>. QED
    BY <1>1, <1>8, <2>1 DEF AcceptSupport
<1>. QED
  BY <1>3, <1>4, <1>5, <1>6, <1>7, <1>8 DEF AcceptSome

(* A request that goes on rests on checks that stay true, whatever another *)
(* worker commits.                                                         *)
LEMMA SoundKept ==
  ASSUME TypeOK, RecordsInv, [Next]_vars, NEW w \in Workers, req'[w] = req[w]
  PROVE  Sound(req[w])'
<1>. SUFFICES ASSUME NEW r, r = req[w] PROVE Sound(r)'
  OBVIOUS
<1>1. Sound(r) /\ r \in Request
  BY DEF RecordsInv, TypeOK
<1>2. r.op \in {"updateStatus", "transfer", "resolve", "confirm", "reject", "support"} =>
        r.concern \in Concerns
  BY <1>1, RequestKinds
  DEF StatusRequest, TransferRequest, ResolveRequest, OwnerRequest, SupportRequest
<1>3. CASE r.op \in {"updateStatus", "transfer", "resolve", "confirm", "reject", "support"}
  <2>. DEFINE c == r.concern
  <2>1. c \in Concerns /\ Exists(c)
    BY <1>1, <1>2, <1>3 DEF Sound
  <2>2. Kept(c)
    BY <2>1, ConcernsKeep
  <2>3. \A t : At(c, t) => At(c, t)'
    BY <2>1, TrailKept
  <2>. HIDE DEF c
  <2>4. Exists(r.concern)'
    BY <2>2 DEF Kept, Exists, c
  <2>5. r.op \in {"updateStatus", "transfer", "resolve"} => At(r.concern, r.seen.target)'
    BY <1>1, <2>3 DEF Sound, c
  <2>6. r.op \in {"confirm", "reject"} =>
          /\ r.actor = owner'[r.concern]
          /\ \E i \in DOMAIN timeline'[r.concern] :
               timeline'[r.concern][i].event = "AWAITING_CONFIRMATION"
    BY <1>1, <2>2 DEF Sound, Kept, c
  <2>7. r.op = "support" => visibility'[r.concern] = "PUBLIC" /\ owner'[r.concern] # r.actor
    BY <1>1, <2>2 DEF Sound, Kept, c
  <2>. QED
    BY <1>1, <2>4, <2>5, <2>6, <2>7 DEF Sound
<1>. QED
  BY <1>3 DEF Sound

LEMMA RecordsInductive ==
  ASSUME TypeOK, StatusMatchesTimeline, RecordsInv, [Next]_vars
  PROVE  RecordsInv'
<1>1. ASSUME NEW c \in Concerns PROVE Fresh(c)' /\ TransfersLeadToTarget(c)'
  <2>1. CASE Exists(c)
    <3>1. Fresh(c)'
      BY <2>1, ConcernsKeep DEF Kept, Fresh, Exists
    <3>. QED
      BY <2>1, <3>1, TrailKept
  <2>. QED
    BY <2>1, FreshKept
<1>2. ASSUME NEW w \in Workers PROVE Sound(req[w])'
  <2>1. CASE req'[w] = req[w]
    BY <2>1, SoundKept
  <2>2. CASE Unchecked(req'[w])
    BY <2>2 DEF Unchecked, Sound
  <2>3. CASE AcceptSome(w)
    BY <2>3, AcceptSound
  <2>4. ASSUME NEW v \in Workers, AcceptSome(v) PROVE v = w \/ req'[w] = req[w]
    <3>1. PICK r \in Request : req' = [req EXCEPT ![v] = r]
      BY <2>4, AcceptStep DEF Accept
    <3>2. req \in [Workers -> Request]
      BY DEF TypeOK
    <3>. QED
      BY <3>1, <3>2
  <2>5. ASSUME NEW v \in Workers, CommitSome(v) \/ Publish(v) \/ Abandon(v)
        PROVE  Unchecked(req'[w]) \/ req'[w] = req[w]
    <3>1. Others(v) /\ Unchecked(req'[v])
      BY <2>5, CommitsAnswer
    <3>. QED
      BY <3>1 DEF Others
  <2>. QED
    BY <2>1, <2>2, <2>3, <2>4, <2>5 DEF Next, vars
<1>. QED
  BY <1>1, <1>2 DEF RecordsInv

LEMMA RecordsInvariant == Spec => [](TypeOK /\ StatusMatchesTimeline /\ RecordsInv)
<1>1. Init => RecordsInv
  BY DEF Init, RecordsInv, Fresh, TransfersLeadToTarget, Sound, Idle, Exists
<1>. QED
  BY <1>1, RecordsInductive, TypeCorrect, TimelineExplainsStatus, PTL DEF Spec

-----------------------------------------------------------------------------
(***************************************************************************)
(* What the transactions append, seen from one concern.                    *)
(***************************************************************************)

(* A creation starts the timeline of an id that had none. *)
LEMMA CreateRecords ==
  ASSUME TypeOK, RecordsInv, NEW w \in Workers, NEW c \in Concerns, NEW n \in References,
         CommitCreate(w, c, n)
  PROVE  /\ req[w].actor \in Students /\ req[w].actor \in Actors
         /\ Record(c, <<"SUBMITTED">>, req[w].actor) /\ <<"SUBMITTED">> \in Seq(Events)
         /\ timeline'[c] = <<[event |-> "SUBMITTED", actor |-> req[w].actor]>>
         /\ status'[c] = "SUBMITTED" /\ owner'[c] = req[w].actor /\ reference'[c] = n
<1>1. req[w] \in CreateRequest
  BY RequestKinds DEF TypeOK, CommitCreate
<1>2. timeline[c] = << >>
  BY DEF RecordsInv, Fresh, CommitCreate
<1>3. Record(c, <<"SUBMITTED">>, req[w].actor)
  BY DEF CommitCreate
<1>4. timeline'[c] = << >> \o [i \in 1..1 |-> [event |-> <<"SUBMITTED">>[i], actor |-> req[w].actor]]
  BY <1>2, <1>3 DEF Record, TypeOK
<1>5. timeline'[c] = <<[event |-> "SUBMITTED", actor |-> req[w].actor]>>
  BY <1>4
<1>. QED
  BY <1>1, <1>3, <1>5, EventsTyped
  DEF CommitCreate, CreateRequest, Actors, TypeOK, SetStatus

(* The events a transaction logs for its actor. *)
Logs(w) ==
  CASE req[w].op = "updateStatus" -> <<req[w].to>>
    [] req[w].op = "transfer"     -> <<"TRANSFERRED">>
    [] req[w].op = "resolve"      -> <<"RESOLUTION_SUBMITTED", "AWAITING_CONFIRMATION">>
    [] req[w].op = "confirm"      -> <<"RESOLVED">>
    [] req[w].op = "reject"       -> <<"REOPENED">>
    [] req[w].op = "support"      -> <<"SUPPORTED">>

(* A transaction about a concern that is on record logs its events, except *)
(* a repeated support.                                                     *)
LEMMA CommitRecords ==
  ASSUME TypeOK, RecordsInv, NEW w \in Workers, NEW c \in Concerns, CommitOn(w, c)
  PROVE  /\ Exists(c) /\ req[w].actor \in Actors /\ Logs(w) \in Seq(Events)
         /\ \/ Record(c, Logs(w), req[w].actor)
            \/ /\ req[w].op = "support" /\ req[w].actor \in supporters[c]
               /\ timeline' = timeline
<1>. DEFINE r == req[w]
<1>0. r \in Request /\ Sound(r) /\ r.concern = c
  BY DEF TypeOK, RecordsInv, CommitOn
<1>1. r.op \in {"updateStatus", "transfer", "resolve", "confirm", "reject", "support"}
  BY DEF CommitOn, CommitUpdateStatus, CommitTransfer, CommitResolve, CommitConfirm,
         CommitReject, CommitSupport
<1>2. r.actor \in Actors
  BY <1>0, <1>1, RequestKinds
  DEF StatusRequest, TransferRequest, ResolveRequest, OwnerRequest, SupportRequest, Actors
<1>3. Exists(c)
  BY <1>0, <1>1 DEF Sound
<1>4. CASE CommitUpdateStatus(w)
  <2>1. r \in StatusRequest /\ Logs(w) = <<r.to>>
    BY <1>0, <1>4, RequestKinds DEF CommitUpdateStatus, Logs
  <2>2. Logs(w) \in Seq(Events)
    BY <2>1, EventsTyped DEF StatusRequest
  <2>. QED
    BY <1>0, <1>2, <1>3, <1>4, <2>1, <2>2 DEF CommitUpdateStatus, UpdateStatusTx
<1>5. CASE CommitTransfer(w)
  BY <1>0, <1>2, <1>3, <1>5, EventsTyped DEF CommitTransfer, Logs
<1>6. CASE CommitResolve(w)
  BY <1>0, <1>2, <1>3, <1>6, EventsTyped DEF CommitResolve, Logs
<1>7. CASE CommitConfirm(w)
  BY <1>0, <1>2, <1>3, <1>7, EventsTyped DEF CommitConfirm, UpdateStatusTx, Logs
<1>8. CASE CommitReject(w)
  BY <1>0, <1>2, <1>3, <1>8, EventsTyped DEF CommitReject, Logs
<1>9. CASE CommitSupport(w)
  <2>1. Logs(w) = <<"SUPPORTED">> /\ <<"SUPPORTED">> \in Seq(Events) /\ r.op = "support"
    BY <1>9 DEF CommitSupport, Logs, Events
  <2>. QED
    BY <1>0, <1>2, <1>3, <1>9, <2>1 DEF CommitSupport
<1>. QED
  BY <1>4, <1>5, <1>6, <1>7, <1>8, <1>9 DEF CommitOn

-----------------------------------------------------------------------------
(* References identify concerns, and every concern's timeline starts with  *)
(* its submission by its owner (createConcern in concern.service.ts, which *)
(* draws again when a number is taken).                                    *)
THEOREM ReferencesAreUnique == Spec => []ReferencesIdentify
<1>1. Init => ReferencesIdentify
  BY DEF Init, ReferencesIdentify, Exists
<1>2. TypeOK /\ RecordsInv /\ ReferencesIdentify /\ [Next]_vars => ReferencesIdentify'
  <2>. SUFFICES ASSUME TypeOK, RecordsInv, ReferencesIdentify, [Next]_vars, NEW c \in Concerns
                PROVE  /\ (Exists(c) <=> reference[c] # None)'
                       /\ (Exists(c) <=> timeline[c] # << >>)'
                       /\ (Exists(c) => timeline[c][1] = [event |-> "SUBMITTED",
                                                         actor |-> owner[c]])'
                       /\ (\A d \in Concerns \ {c} : Exists(c) => reference[c] # reference[d])'
    BY DEF ReferencesIdentify
  <2>1. CASE Exists(c)
    <3>1. Kept(c)
      BY <2>1, ConcernsKeep
    <3>2. timeline[c] # << >> /\ timeline[c] \in Seq(Entry) /\ reference[c] # None
          /\ timeline[c][1] = [event |-> "SUBMITTED", actor |-> owner[c]]
      BY <2>1 DEF ReferencesIdentify, TypeOK
    <3>3. 1 \in DOMAIN timeline[c]
      BY <3>2
    <3>4. timeline'[c] # << >> /\ timeline'[c][1] = timeline[c][1]
      BY <3>1, <3>3 DEF Kept
    <3>5. ASSUME NEW d \in Concerns \ {c} PROVE reference'[c] # reference'[d]
      <4>1. reference[c] # reference[d] /\ reference'[c] = reference[c]
        BY <2>1, <3>1 DEF ReferencesIdentify, Kept
      <4>2. CASE reference'[d] = reference[d]
        BY <4>1, <4>2
      <4>3. ASSUME NEW w \in Workers, NEW n \in References, CommitCreate(w, d, n)
            PROVE  reference'[c] # reference'[d]
        <5>1. reference'[d] = n
          BY <4>3, CreateRecords
        <5>2. reference[c] # n
          BY <4>3 DEF CommitCreate, Taken
        <5>. QED
          BY <4>1, <5>1, <5>2
      <4>4. ASSUME NEW w \in Workers, CommitOn(w, d) PROVE reference'[d] = reference[d]
        BY <4>4, CommitRecords, ConcernsKeep DEF Kept
      <4>. QED
        BY <4>2, <4>3, <4>4, StepOn DEF Same
    <3>. QED
      BY <3>1, <3>2, <3>4, <3>5 DEF Kept, Exists
  <2>2. CASE ~Exists(c)
    <3>1. CASE Same(c)
      BY <2>2, <3>1 DEF ReferencesIdentify, Same, Exists
    <3>2. ASSUME NEW w \in Workers, CommitOn(w, c) PROVE FALSE
      BY <2>2, <3>2, CommitRecords
    <3>3. ASSUME NEW w \in Workers, NEW n \in References, CommitCreate(w, c, n)
          PROVE  /\ Exists(c)' /\ reference'[c] # None /\ timeline'[c] # << >>
                 /\ timeline'[c][1] = [event |-> "SUBMITTED", actor |-> owner'[c]]
                 /\ \A d \in Concerns \ {c} : reference'[c] # reference'[d]
      <4>0. /\ status'[c] = "SUBMITTED" /\ reference'[c] = n
            /\ timeline'[c] = <<[event |-> "SUBMITTED", actor |-> req[w].actor]>>
            /\ owner'[c] = req[w].actor
        BY <3>3, CreateRecords
      <4>1. /\ Exists(c)' /\ reference'[c] = n /\ n \in References
            /\ timeline'[c] = <<[event |-> "SUBMITTED", actor |-> owner'[c]]>>
        BY <4>0 DEF Exists
      <4>2. \A d \in Concerns \ {c} : reference'[d] = reference[d] /\ reference[d] # n
        BY <3>3 DEF CommitCreate, Taken, TypeOK
      <4>3. timeline'[c] # << >> /\ timeline'[c][1] = [event |-> "SUBMITTED", actor |-> owner'[c]]
        BY <4>1
      <4>. QED
        BY <4>1, <4>2, <4>3
    <3>. QED
      BY <3>1, <3>2, <3>3, StepOn
  <2>. QED
    BY <2>1, <2>2
<1>. QED
  BY <1>1, <1>2, RecordsInvariant, PTL DEF Spec

(* A resolved concern was confirmed by its owner after a resolution had    *)
(* been submitted, and carries the time: no handler resolves it, and no    *)
(* overtaken request can (confirmResolution in concern.service.ts).        *)
THEOREM OwnersResolve == Spec => []ResolvedByOwner
<1>1. Init => ResolvedByOwner
  BY DEF Init, ResolvedByOwner
<1>2. TypeOK /\ RecordsInv /\ ResolvedByOwner /\ [Next]_vars => ResolvedByOwner'
  <2>. DEFINE Asked(c) == \E i, j \in DOMAIN timeline[c] :
                /\ i < j
                /\ timeline[c][i].event = "AWAITING_CONFIRMATION"
                /\ timeline[c][j] = [event |-> "RESOLVED", actor |-> owner[c]]
  <2>. SUFFICES ASSUME TypeOK, RecordsInv, ResolvedByOwner, [Next]_vars,
                       NEW c \in Concerns, status'[c] = "RESOLVED"
                PROVE  (resolvedAt[c] /\ Asked(c))'
    BY DEF ResolvedByOwner
  <2>1. CASE Same(c)
    BY <2>1 DEF ResolvedByOwner, Same
  <2>2. ASSUME NEW w \in Workers, NEW n \in References, CommitCreate(w, c, n) PROVE FALSE
    BY <2>2, CreateRecords
  <2>3. ASSUME NEW w \in Workers, CommitOn(w, c) PROVE (resolvedAt[c] /\ Asked(c))'
    <3>0. req[w] \in Request /\ req[w].concern = c /\ Sound(req[w])
      BY <2>3 DEF TypeOK, CommitOn, RecordsInv
    <3>1. Exists(c) /\ Kept(c)
      BY <2>3, CommitRecords, ConcernsKeep
    <3>2. CASE CommitConfirm(w)
      <4>1. /\ resolvedAt'[c] /\ Record(c, <<"RESOLVED">>, req[w].actor)
            /\ req[w].actor = owner[c]
        BY <3>0, <3>2 DEF CommitConfirm, UpdateStatusTx, TypeOK, Sound
      <4>2. PICK i \in DOMAIN timeline[c] : timeline[c][i].event = "AWAITING_CONFIRMATION"
        BY <3>0, <3>2 DEF CommitConfirm, Sound
      <4>3. req[w].actor \in Actors
        BY <2>3, CommitRecords
      <4>. DEFINE n == Len(timeline[c])
      <4>4. /\ n \in Nat /\ DOMAIN timeline[c] = 1..n /\ DOMAIN timeline'[c] = 1..(n + 1)
            /\ timeline'[c][n + 1] = [event |-> "RESOLVED", actor |-> owner[c]]
        <5>1. owner[c] \in Actors /\ Record(c, <<"RESOLVED">>, owner[c])
          BY <4>1, <4>3
        <5>2. "RESOLVED" \in Events /\ <<"RESOLVED">> \in Seq(Events)
          BY EventsTyped DEF Events
        <5>. QED
          BY <5>1, <5>2, RecordOne
      <4>5. i < n + 1 /\ i \in DOMAIN timeline'[c] /\ n + 1 \in DOMAIN timeline'[c]
            /\ timeline'[c][i] = timeline[c][i] /\ owner'[c] = owner[c]
        BY <3>1, <4>2, <4>4 DEF Kept
      <4>6. Asked(c)'
        BY <4>2, <4>4, <4>5
      <4>. QED
        BY <4>1, <4>6
    <3>3. CASE CommitSupport(w)
      <4>1. resolvedAt[c] /\ Asked(c) /\ resolvedAt'[c] = resolvedAt[c]
        BY <3>3 DEF ResolvedByOwner, CommitSupport
      <4>. QED
        BY <3>1, <4>1 DEF Kept
    <3>4. CASE CommitUpdateStatus(w)
      <4>1. req[w].to # "RESOLVED" /\ status'[c] = req[w].to
        BY <3>0, <3>4, RequestKinds
        DEF CommitUpdateStatus, UpdateStatusTx, SetStatus, StatusRequest, TypeOK
      <4>. QED
        BY <4>1
    <3>5. CASE CommitTransfer(w) \/ CommitResolve(w) \/ CommitReject(w)
      <4>1. status'[c] # "RESOLVED"
        BY <3>0, <3>5 DEF CommitTransfer, CommitResolve, CommitReject, SetStatus, TypeOK
      <4>. QED
        BY <4>1
    <3>. QED
      BY <2>3, <3>2, <3>3, <3>4, <3>5 DEF CommitOn
  <2>. QED
    BY <2>1, <2>2, <2>3, StepOn
<1>. QED
  BY <1>1, <1>2, RecordsInvariant, PTL DEF Spec

(* The handlers in a timeline work for targets the concern was addressed to. *)
OnTrail(c) == \A i \in DOMAIN timeline[c] :
                timeline[c][i].actor \in Handlers => At(c, Scope[timeline[c][i].actor])

(* Handlers appear in the timeline of a concern only if it was addressed   *)
(* to their office or department at some time, also when a transfer takes  *)
(* it away while they work on it (assertCanHandleConcern).                 *)
THEOREM HandlersWereAddressed == Spec => []HandlersWereInCharge
<1>. DEFINE Inv == \A c \in Concerns : OnTrail(c)
<1>1. Init => Inv
  BY DEF Init, OnTrail
<1>2. TypeOK /\ RecordsInv /\ Inv /\ [Next]_vars => Inv'
  <2>. SUFFICES ASSUME TypeOK, RecordsInv, Inv, [Next]_vars, NEW c \in Concerns
                PROVE  OnTrail(c)'
    OBVIOUS
  <2>1. CASE Same(c)
    BY <2>1 DEF Same, OnTrail, At
  <2>2. ASSUME NEW w \in Workers, NEW n \in References, CommitCreate(w, c, n)
        PROVE  OnTrail(c)'
    <3>1. /\ timeline'[c] = <<[event |-> "SUBMITTED", actor |-> req[w].actor]>>
          /\ req[w].actor \in Students
      BY <2>2, CreateRecords
    <3>2. \A i \in DOMAIN timeline'[c] : timeline'[c][i].actor = req[w].actor
      BY <3>1
    <3>. QED
      BY <3>1, <3>2 DEF OnTrail
  <2>3. ASSUME NEW w \in Workers, CommitOn(w, c) PROVE OnTrail(c)'
    <3>0. req[w] \in Request /\ Sound(req[w]) /\ req[w].concern = c
      BY <2>3 DEF TypeOK, RecordsInv, CommitOn
    <3>1. Exists(c) /\ req[w].actor \in Actors /\ Logs(w) \in Seq(Events)
      BY <2>3, CommitRecords
    <3>2. \A t : At(c, t) => At(c, t)'
      BY <3>1, TrailKept
    <3>3. req[w].actor \in Handlers => At(c, Scope[req[w].actor])
      <4>1. CASE req[w].op \in {"updateStatus", "transfer", "resolve"}
        BY <3>0, <4>1 DEF Sound, CanHandle
      <4>2. CASE req[w].op \in {"confirm", "reject", "support"}
        BY <3>0, <4>2, RequestKinds DEF OwnerRequest, SupportRequest
      <4>. QED
        BY <2>3, <4>1, <4>2
        DEF CommitOn, CommitUpdateStatus, CommitTransfer, CommitResolve, CommitConfirm,
            CommitReject, CommitSupport
    <3>4. ASSUME NEW i \in DOMAIN timeline'[c]
          PROVE  \/ timeline'[c][i].actor = req[w].actor
                 \/ i \in DOMAIN timeline[c] /\ timeline'[c][i] = timeline[c][i]
      <4>1. CASE timeline' = timeline
        BY <4>1
      <4>2. CASE Record(c, Logs(w), req[w].actor)
        BY <3>1, <4>2, RecordEntries
      <4>. QED
        BY <2>3, <4>1, <4>2, CommitRecords
    <3>5. OnTrail(c)
      OBVIOUS
    <3>. QED
      BY <3>2, <3>3, <3>4, <3>5 DEF OnTrail
  <2>. QED
    BY <2>1, <2>2, <2>3, StepOn
<1>3. TypeOK /\ RecordsInv /\ Inv => HandlersWereInCharge
  <2>1. ASSUME TypeOK, RecordsInv, NEW c \in Concerns, NEW t, At(c, t) PROVE t \in Visited(c)
    <3>1. transfers[c] \in Seq(TransferRow)
      BY <2>1 DEF TypeOK
    <3>2. transfers[c] # << >> => 1 \in DOMAIN transfers[c]
      BY <3>1
    <3>. QED
      BY <2>1, <3>2 DEF At, Visited
  <2>. QED
    BY <2>1 DEF HandlersWereInCharge, OnTrail
<1>. HIDE DEF Inv
<1>. QED
  BY <1>1, <1>2, <1>3, RecordsInvariant, PTL DEF Spec

-----------------------------------------------------------------------------
(***************************************************************************)
(* Counting the entries of a timeline.                                     *)
(***************************************************************************)
Count(c, E) == {i \in DOMAIN timeline[c] : timeline[c][i].event \in E}

LEMMA CountFinite ==
  ASSUME TypeOK, NEW c \in Concerns, NEW E
  PROVE  IsFiniteSet(Count(c, E)) /\ Cardinality(Count(c, E)) \in Nat
<1>1. Len(timeline[c]) \in Nat /\ Count(c, E) \subseteq 1..Len(timeline[c])
  BY DEF TypeOK, Count
<1>2. IsFiniteSet(1..Len(timeline[c]))
  BY <1>1, FS_Interval
<1>3. IsFiniteSet(Count(c, E))
  BY <1>1, <1>2, FS_Subset
<1>. QED
  BY <1>3, FS_CardinalityType

(* Events that are not counted leave a count alone; one that is adds one.  *)
LEMMA CountStays ==
  ASSUME TypeOK, NEW c \in Concerns, NEW events \in Seq(Events), NEW a \in Actors,
         Record(c, events, a), NEW E, \A j \in 1..Len(events) : events[j] \notin E
  PROVE  Count(c, E)' = Count(c, E)
<1>1. \A i \in DOMAIN timeline[c] : i \in DOMAIN timeline'[c] /\ timeline'[c][i] = timeline[c][i]
  BY RecordEntries
<1>2. \A i \in DOMAIN timeline'[c] \ DOMAIN timeline[c] : timeline'[c][i].event \notin E
  BY RecordEntries
<1>. QED
  BY <1>1, <1>2 DEF Count

LEMMA CountGrows ==
  ASSUME TypeOK, NEW c \in Concerns, NEW events \in Seq(Events), NEW a \in Actors,
         Record(c, events, a), NEW E, NEW m \in 1..Len(events),
         \A j \in 1..Len(events) : events[j] \in E <=> j = m
  PROVE  /\ Count(c, E)' = Count(c, E) \cup {Len(timeline[c]) + m}
         /\ Len(timeline[c]) + m \notin Count(c, E)
         /\ Cardinality(Count(c, E)') = Cardinality(Count(c, E)) + 1
<1>. DEFINE new == Len(timeline[c]) + m
<1>0. Len(timeline[c]) \in Nat
  BY DEF TypeOK
<1>1. \A i \in DOMAIN timeline[c] : i \in DOMAIN timeline'[c] /\ timeline'[c][i] = timeline[c][i]
  BY RecordEntries
<1>2. new \in DOMAIN timeline'[c] \ DOMAIN timeline[c]
  BY RecordEntries
<1>3. ASSUME NEW i \in DOMAIN timeline'[c] \ DOMAIN timeline[c]
      PROVE  timeline'[c][i].event \in E <=> i = new
  <2>1. PICK j \in 1..Len(events) : i = Len(timeline[c]) + j /\ timeline'[c][i].event = events[j]
    BY RecordEntries
  <2>. QED
    BY <1>0, <2>1
<1>. HIDE DEF new
<1>4. Count(c, E)' = Count(c, E) \cup {new}
  BY <1>1, <1>2, <1>3 DEF Count
<1>5. new \notin Count(c, E)
  BY <1>2 DEF Count
<1>6. Cardinality(Count(c, E) \cup {new}) = Cardinality(Count(c, E)) + 1
  BY <1>5, CountFinite, FS_AddElement
<1>. QED
  BY <1>4, <1>5, <1>6 DEF new

(* A commit adds one to the entries that its first event counts among. The *)
(* second event, of a resolution, is not among those counted.              *)
LEMMA CommitCounts ==
  ASSUME TypeOK, RecordsInv, NEW w \in Workers, NEW c \in Concerns, CommitOn(w, c),
         Record(c, Logs(w), req[w].actor), NEW E, "AWAITING_CONFIRMATION" \notin E
  PROVE  /\ Logs(w)[1] \notin E => Count(c, E)' = Count(c, E)
         /\ Logs(w)[1] \in E =>
              /\ Cardinality(Count(c, E)') = Cardinality(Count(c, E)) + 1
              /\ Count(c, E)' = Count(c, E) \cup {Len(timeline[c]) + 1}
              /\ Len(timeline[c]) + 1 \notin Count(c, E)
<1>1. Logs(w) \in Seq(Events) /\ req[w].actor \in Actors
  BY CommitRecords
<1>2. /\ 1 \in 1..Len(Logs(w))
      /\ \A j \in 1..Len(Logs(w)) : j = 1 \/ Logs(w)[j] = "AWAITING_CONFIRMATION"
  <2>1. req[w].op \in {"updateStatus", "transfer", "resolve", "confirm", "reject", "support"}
    BY DEF CommitOn, CommitUpdateStatus, CommitTransfer, CommitResolve, CommitConfirm,
           CommitReject, CommitSupport
  <2>. QED
    BY <2>1 DEF Logs
<1>. QED
  BY <1>1, <1>2, CountStays, CountGrows

(* The same for the entry of a creation. *)
LEMMA CreateCounts ==
  ASSUME TypeOK, RecordsInv, NEW w \in Workers, NEW c \in Concerns, NEW n \in References,
         CommitCreate(w, c, n), NEW E
  PROVE  /\ Count(c, E) = {}
         /\ "SUBMITTED" \notin E => Count(c, E)' = {}
         /\ "SUBMITTED" \in E => Cardinality(Count(c, E)') = 1
<1>1. timeline[c] = << >>
  BY DEF RecordsInv, Fresh, CommitCreate
<1>2. timeline'[c] = <<[event |-> "SUBMITTED", actor |-> req[w].actor]>>
  BY CreateRecords
<1>3. Count(c, E)' = IF "SUBMITTED" \in E THEN {1} ELSE {}
  BY <1>2 DEF Count
<1>4. Cardinality({1}) = 1
  BY FS_Singleton
<1>5. Count(c, E) = {}
  BY <1>1 DEF Count
<1>. QED
  BY <1>3, <1>4, <1>5

LEMMA LoggedIsCount == \A c, e : Logged(c, e) = Count(c, {e})
BY DEF Logged, Count

(* The transfer log and the reopen requests are those the timeline tells   *)
(* of, and the log is a trail to the target in charge (transfer and        *)
(* rejectResolution in concern.repository.ts).                             *)
THEOREM RowsAreLogged == Spec => []RowsMatchTimeline
<1>. DEFINE Counted(c) == /\ Len(transfers[c]) = Cardinality(Count(c, {"TRANSFERRED"}))
                          /\ reopens[c] = Cardinality(Count(c, {"REOPENED"}))
            Inv == \A c \in Concerns : Counted(c)
<1>1. Init => Inv
  <2>1. Cardinality({}) = 0
    BY FS_EmptySet
  <2>2. Init => \A c \in Concerns : \A e : Count(c, e) = {}
    BY DEF Init, Count
  <2>. QED
    BY <2>1, <2>2 DEF Init
<1>2. TypeOK /\ RecordsInv /\ Inv /\ [Next]_vars => Inv'
  <2>. SUFFICES ASSUME TypeOK, RecordsInv, Inv, [Next]_vars, NEW c \in Concerns
                PROVE  Counted(c)'
    OBVIOUS
  <2>1. CASE Same(c)
    BY <2>1 DEF Same, Count
  <2>2. ASSUME NEW w \in Workers, NEW n \in References, CommitCreate(w, c, n)
        PROVE  Counted(c)'
    <3>1. transfers'[c] = transfers[c] /\ reopens'[c] = reopens[c]
      BY <2>2 DEF CommitCreate, rows
    <3>2. /\ Count(c, {"TRANSFERRED"})' = Count(c, {"TRANSFERRED"})
          /\ Count(c, {"REOPENED"})' = Count(c, {"REOPENED"})
      BY <2>2, CreateCounts
    <3>. QED
      BY <3>1, <3>2
  <2>3. ASSUME NEW w \in Workers, CommitOn(w, c) PROVE Counted(c)'
    <3>0. req[w] \in Request /\ req[w].concern = c
      BY <2>3 DEF TypeOK, CommitOn
    <3>1. CASE timeline' = timeline /\ req[w].op = "support"
      <4>1. transfers' = transfers /\ reopens' = reopens
        BY <2>3, <3>1 DEF CommitOn, CommitUpdateStatus, CommitTransfer, CommitResolve,
                          CommitConfirm, CommitReject, CommitSupport
      <4>. QED
        BY <3>1, <4>1 DEF Count
    <3>. SUFFICES ASSUME Record(c, Logs(w), req[w].actor) PROVE Counted(c)'
      BY <2>3, <3>1, CommitRecords
    <3>2. CASE CommitTransfer(w)
      <4>1. Logs(w)[1] = "TRANSFERRED"
        BY <3>2 DEF CommitTransfer, Logs
      <4>2. Len(transfers'[c]) = Len(transfers[c]) + 1 /\ reopens'[c] = reopens[c]
        BY <3>0, <3>2, TransferAppends DEF CommitTransfer
      <4>. QED
        BY <2>3, <4>1, <4>2, CommitCounts
    <3>3. CASE CommitReject(w)
      <4>1. Logs(w)[1] = "REOPENED"
        BY <3>3 DEF CommitReject, Logs
      <4>2. reopens'[c] = reopens[c] + 1 /\ transfers'[c] = transfers[c]
        BY <3>0, <3>3 DEF CommitReject, TypeOK
      <4>. QED
        BY <2>3, <4>1, <4>2, CommitCounts
    <3>4. CASE CommitUpdateStatus(w) \/ CommitResolve(w) \/ CommitConfirm(w) \/ CommitSupport(w)
      <4>1. Logs(w)[1] \notin {"TRANSFERRED", "REOPENED"}
        BY <3>0, <3>4, RequestKinds
        DEF CommitUpdateStatus, CommitResolve, CommitConfirm, CommitSupport, Logs, StatusRequest
      <4>2. transfers' = transfers /\ reopens' = reopens
        BY <3>4 DEF CommitUpdateStatus, CommitResolve, CommitConfirm, CommitSupport,
                    UpdateStatusTx, rows
      <4>3. /\ Count(c, {"TRANSFERRED"})' = Count(c, {"TRANSFERRED"})
            /\ Count(c, {"REOPENED"})' = Count(c, {"REOPENED"})
        BY <2>3, <4>1, CommitCounts
      <4>. QED
        BY <4>2, <4>3
    <3>. QED
      BY <2>3, <3>2, <3>3, <3>4 DEF CommitOn
  <2>. QED
    BY <2>1, <2>2, <2>3, StepOn
<1>3. RecordsInv /\ Inv => RowsMatchTimeline
  BY LoggedIsCount DEF RecordsInv, RowsMatchTimeline
<1>. HIDE DEF Inv
<1>. QED
  BY <1>1, <1>2, <1>3, RecordsInvariant, PTL DEF Spec

(* The supporters of a concern are those its timeline tells of, one entry  *)
(* each, never its owner, and never of a private concern (addSupport in    *)
(* concern.service.ts and the unique index on concern and student).        *)
THEOREM SupportsAreLogged == Spec => []SupportersMatchTimeline
<1>. DEFINE S == {"SUPPORTED"}
            Counted(c) == /\ owner[c] \notin supporters[c]
                          /\ supporters[c] # {} => visibility[c] = "PUBLIC"
                          /\ IsFiniteSet(supporters[c])
                          /\ Cardinality(Count(c, S)) = Cardinality(supporters[c])
                          /\ \A i \in Count(c, S) : timeline[c][i].actor \in supporters[c]
            Inv == \A c \in Concerns : Counted(c)
<1>1. Init => Inv
  <2>1. Cardinality({}) = 0 /\ IsFiniteSet({})
    BY FS_EmptySet
  <2>2. Init => \A c \in Concerns : \A e : Count(c, e) = {}
    BY DEF Init, Count
  <2>. QED
    BY <2>1, <2>2 DEF Init
<1>2. TypeOK /\ RecordsInv /\ Inv /\ [Next]_vars => Inv'
  <2>. SUFFICES ASSUME TypeOK, RecordsInv, Inv, [Next]_vars, NEW c \in Concerns
                PROVE  Counted(c)'
    OBVIOUS
  <2>0. Counted(c)
    OBVIOUS
  <2>1. CASE Same(c)
    <3>1. /\ owner'[c] = owner[c] /\ visibility'[c] = visibility[c]
          /\ supporters'[c] = supporters[c] /\ timeline'[c] = timeline[c]
      BY <2>1 DEF Same
    <3>2. Count(c, S)' = Count(c, S)
      BY <3>1 DEF Count
    <3>. QED
      BY <2>0, <3>1, <3>2
  <2>2. ASSUME NEW w \in Workers, NEW n \in References, CommitCreate(w, c, n)
        PROVE  Counted(c)'
    <3>1. supporters'[c] = {}
      BY <2>2 DEF CommitCreate, rows, RecordsInv, Fresh
    <3>2. Count(c, S)' = {}
      BY <2>2, CreateCounts
    <3>3. Cardinality({}) = 0 /\ IsFiniteSet({})
      BY FS_EmptySet
    <3>. QED
      BY <3>1, <3>2, <3>3
  <2>3. ASSUME NEW w \in Workers, CommitOn(w, c) PROVE Counted(c)'
    <3>0. req[w] \in Request /\ req[w].concern = c /\ Sound(req[w])
      BY <2>3 DEF TypeOK, CommitOn, RecordsInv
    <3>1. Exists(c) /\ Kept(c)
      BY <2>3, CommitRecords, ConcernsKeep
    <3>2. owner'[c] = owner[c] /\ visibility'[c] = visibility[c]
      BY <3>1 DEF Kept
    <3>3. CASE UNCHANGED <<supporters, timeline>>
      BY <2>0, <3>2, <3>3 DEF Count
    <3>4. CASE CommitSupport(w) /\ ~UNCHANGED <<supporters, timeline>>
      <4>. DEFINE s == req[w].actor  old == supporters[c]
      <4>1. /\ s \notin old /\ supporters' = [supporters EXCEPT ![c] = @ \cup {s}]
            /\ Record(c, <<"SUPPORTED">>, s)
        BY <3>0, <3>4 DEF CommitSupport
      <4>2. Logs(w) = <<"SUPPORTED">> /\ visibility[c] = "PUBLIC" /\ owner[c] # s
        BY <3>0, <3>4 DEF CommitSupport, Logs, Sound
      <4>3. supporters'[c] = old \cup {s}
        BY <4>1 DEF TypeOK
      <4>. HIDE DEF old
      <4>4. IsFiniteSet(old) /\ owner[c] \notin old /\ Cardinality(Count(c, S)) = Cardinality(old)
        BY <2>0 DEF old
      <4>5. IsFiniteSet(old \cup {s}) /\ Cardinality(old \cup {s}) = Cardinality(old) + 1
        BY <4>1, <4>4, FS_AddElement DEF old
      <4>6. Cardinality(Count(c, S)') = Cardinality(Count(c, S)) + 1
            /\ Count(c, S)' = Count(c, S) \cup {Len(timeline[c]) + 1}
        BY <2>3, <4>1, <4>2, CommitCounts
      <4>7. timeline'[c][Len(timeline[c]) + 1].actor = s
        <5>. DEFINE events == <<"SUPPORTED">>
        <5>1. events \in Seq(Events) /\ 1 \in 1..Len(events) /\ s \in Actors
          BY <2>3, <4>2, CommitRecords
        <5>2. Record(c, events, s)
          BY <4>1
        <5>. HIDE DEF events, s
        <5>3. timeline'[c][Len(timeline[c]) + 1] = [event |-> events[1], actor |-> s]
          BY <5>1, <5>2, RecordAppends
        <5>. QED
          BY <5>3
      <4>8. ASSUME NEW i \in Count(c, S)' PROVE timeline'[c][i].actor \in old \cup {s}
        <5>1. CASE i \in Count(c, S)
          <6>1. i \in DOMAIN timeline[c] /\ timeline[c][i].actor \in old
            BY <2>0, <5>1 DEF Count, old
          <6>. QED
            BY <3>1, <6>1 DEF Kept
        <5>. QED
          BY <4>6, <4>7, <4>8, <5>1
      <4>. HIDE DEF s, S
      <4>9. owner'[c] \notin supporters'[c] /\ visibility'[c] = "PUBLIC"
        BY <3>2, <4>2, <4>3, <4>4 DEF s
      <4>10. IsFiniteSet(supporters'[c]) /\ Cardinality(Count(c, S)') = Cardinality(supporters'[c])
        BY <4>3, <4>4, <4>5, <4>6
      <4>. QED
        BY <4>3, <4>8, <4>9, <4>10
    <3>5. CASE ~CommitSupport(w)
      <4>1. Logs(w)[1] \notin S /\ Record(c, Logs(w), req[w].actor)
        <5>1. req[w].op \in {"updateStatus", "transfer", "resolve", "confirm", "reject"}
          BY <2>3, <3>5 DEF CommitOn, CommitUpdateStatus, CommitTransfer, CommitResolve,
                            CommitConfirm, CommitReject
        <5>. QED
          BY <2>3, <3>0, <5>1, RequestKinds, CommitRecords DEF Logs, StatusRequest
      <4>2. Count(c, S)' = Count(c, S)
        BY <2>3, <4>1, CommitCounts
      <4>3. supporters' = supporters
        BY <2>3, <3>5 DEF CommitOn, CommitUpdateStatus, CommitTransfer, CommitResolve,
                          CommitConfirm, CommitReject, UpdateStatusTx, rows
      <4>4. \A i \in Count(c, S) : timeline'[c][i] = timeline[c][i]
        BY <3>1 DEF Kept, Count
      <4>. QED
        BY <2>0, <3>2, <4>2, <4>3, <4>4
    <3>. QED
      BY <3>3, <3>4, <3>5
  <2>. QED
    BY <2>1, <2>2, <2>3, StepOn
<1>3. Inv => SupportersMatchTimeline
  BY LoggedIsCount DEF SupportersMatchTimeline
<1>. HIDE DEF Inv
<1>. QED
  BY <1>1, <1>2, <1>3, RecordsInvariant, PTL DEF Spec

(* The requests that are to publish a notice of a concern. *)
Pending(c) == {w \in Workers : req[w] = [op |-> "publish", concern |-> c]}

(* How the answer of a worker changes the notices that are pending. *)
LEMMA PendingChange ==
  ASSUME TypeOK, IsFiniteSet(Workers), NEW w \in Workers, Others(w), NEW c \in Concerns
  PROVE  /\ Cardinality(Pending(c)) \in Nat /\ Cardinality(Pending(c)') \in Nat
         /\ Cardinality(Pending(c)') <= Cardinality(Pending(c)) + 1
         /\ req'[w] # [op |-> "publish", concern |-> c] =>
              /\ Cardinality(Pending(c)') <= Cardinality(Pending(c))
              /\ w \in Pending(c) => Cardinality(Pending(c)') = Cardinality(Pending(c)) - 1
<1>. DEFINE P == Pending(c)  Q == Pending(c)'
<1>1. \A v \in Workers \ {w} : v \in Q <=> v \in P
  BY DEF Pending, Others
<1>2. Q \subseteq Workers /\ P \subseteq Workers
  BY DEF Pending
<1>3. req'[w] # [op |-> "publish", concern |-> c] => w \notin Q
  BY DEF Pending
<1>. HIDE DEF P, Q
<1>4. Q = P \cup {w} \/ Q = P \ {w}
  BY <1>1, <1>2
<1>5. IsFiniteSet(P) /\ Cardinality(P) \in Nat /\ Cardinality(Q) \in Nat
  BY <1>2, FS_Subset, FS_CardinalityType
<1>6. Cardinality(P \cup {w}) = IF w \in P THEN Cardinality(P) ELSE Cardinality(P) + 1
  BY <1>5, FS_AddElement
<1>7. Cardinality(P \ {w}) = IF w \in P THEN Cardinality(P) - 1 ELSE Cardinality(P)
  BY <1>5, FS_RemoveElement
<1>8. Cardinality(Q) <= Cardinality(P) + 1
  BY <1>4, <1>5, <1>6, <1>7
<1>9. w \notin Q => Cardinality(Q) = Cardinality(P \ {w})
  <2>1. w \notin Q => Q = P \ {w}
    BY <1>4
  <2>. QED
    BY <2>1
<1>10. w \notin Q => /\ Cardinality(Q) <= Cardinality(P)
                     /\ w \in P => Cardinality(Q) = Cardinality(P) - 1
  BY <1>5, <1>7, <1>9
<1>. QED
  BY <1>3, <1>5, <1>8, <1>10 DEF P, Q

(* Notices are published for committed operations only: a worker that has  *)
(* one to publish stands for an entry of the timeline that nobody has      *)
(* published, and a stopped process loses notices but repeats none         *)
(* (concern.service.ts). The server runs finitely many requests at a time. *)
THEOREM NoticesAreLogged ==
  ASSUME IsFiniteSet(Workers) PROVE Spec => []NoticesAreBacked
<1>. DEFINE Backed(c) == published[c] + Cardinality(Pending(c)) <= Cardinality(Count(c, Noticed))
            Inv == \A c \in Concerns : Backed(c)
<1>1. Init => Inv
  <2>1. Cardinality({}) = 0
    BY FS_EmptySet
  <2>. SUFFICES ASSUME Init, NEW c \in Concerns PROVE Backed(c)
    OBVIOUS
  <2>2. Count(c, Noticed) = {}
    BY DEF Init, Count
  <2>3. Pending(c) = {}
    BY DEF Init, Pending, Idle
  <2>4. published[c] = 0
    BY DEF Init
  <2>. QED
    BY <2>1, <2>2, <2>3, <2>4
<1>2. TypeOK /\ RecordsInv /\ Inv /\ [Next]_vars => Inv'
  <2>. SUFFICES ASSUME TypeOK, RecordsInv, Inv, [Next]_vars, NEW c \in Concerns
                PROVE  Backed(c)'
    OBVIOUS
  <2>. DEFINE notice == [op |-> "publish", concern |-> c]
  <2>0. /\ Backed(c) /\ published[c] \in Nat /\ req \in [Workers -> Request]
        /\ Cardinality(Count(c, Noticed)) \in Nat
    BY CountFinite DEF TypeOK
  <2>. HIDE DEF Inv
  <2>1. ASSUME NEW w \in Workers, Others(w), published'[c] = published[c],
               req'[w] # notice, Count(c, Noticed)' = Count(c, Noticed)
        PROVE  Backed(c)'
    <3>1. /\ Cardinality(Pending(c)) \in Nat /\ Cardinality(Pending(c)') \in Nat
          /\ Cardinality(Pending(c)') <= Cardinality(Pending(c))
      BY <2>1, PendingChange
    <3>. QED
      BY <2>0, <2>1, <3>1
  <2>2. ASSUME NEW w \in Workers, Others(w), published'[c] = published[c],
               Cardinality(Count(c, Noticed)') = Cardinality(Count(c, Noticed)) + 1
        PROVE  Backed(c)'
    <3>1. /\ Cardinality(Pending(c)) \in Nat /\ Cardinality(Pending(c)') \in Nat
          /\ Cardinality(Pending(c)') <= Cardinality(Pending(c)) + 1
      BY <2>2, PendingChange
    <3>. QED
      BY <2>0, <2>2, <3>1
  <2>3. \A w \in Workers : CommitSome(w) \/ Publish(w) \/ Abandon(w) => Others(w)
    BY CommitsAnswer
  <2>4. QuietStep \/ Same(c) => Count(c, Noticed)' = Count(c, Noticed)
    BY DEF QuietStep, Same, Count
  <2>5. CASE UNCHANGED vars
    BY <2>0, <2>5 DEF vars, Count, Pending
  <2>6. ASSUME NEW w \in Workers, AcceptSome(w) PROVE Backed(c)'
    <3>1. Others(w) /\ published' = published /\ req'[w].op # "publish"
      BY <2>0, <2>6
      DEF AcceptSome, AcceptCreate, AcceptUpdateStatus, AcceptTransfer, AcceptResolve,
          AcceptAnswer, AcceptSupport, Accept, Others
    <3>. QED
      BY <2>1, <2>4, <2>6, <3>1, QuietSteps
  <2>7. ASSUME NEW w \in Workers, Abandon(w) \/ \E n \in References : CollideCreate(w, n)
        PROVE  Backed(c)'
    <3>1. published' = published /\ QuietStep /\ Others(w)
      BY <2>3, <2>7, QuietSteps DEF Abandon, CollideCreate, CommitSome
    <3>2. req'[w] # notice
      <4>1. CASE Abandon(w)
        BY <2>0, <4>1 DEF Abandon, Idle
      <4>2. ASSUME NEW n \in References, CollideCreate(w, n) PROVE req'[w] # notice
        <5>1. req[w] \in CreateRequest
          BY <2>0, <4>2, RequestKinds DEF CollideCreate
        <5>2. [req[w] EXCEPT !.attempt = @ + 1].op = "create"
          BY <5>1 DEF CreateRequest
        <5>. QED
          BY <2>0, <4>2, <5>2 DEF CollideCreate, Idle
      <4>. QED
        BY <2>7, <4>1, <4>2
    <3>. QED
      BY <2>1, <2>4, <3>1, <3>2
  <2>8. ASSUME NEW w \in Workers, Publish(w) PROVE Backed(c)'
    <3>1. /\ req[w] \in PublishRequest /\ req'[w] # notice /\ Others(w) /\ QuietStep
          /\ published' = [published EXCEPT ![req[w].concern] = @ + 1]
      BY <2>0, <2>3, <2>8, RequestKinds, QuietSteps DEF Publish, Idle
    <3>2. CASE req[w].concern = c
      <4>1. w \in Pending(c)
        BY <3>1, <3>2 DEF Pending, PublishRequest
      <4>2. published'[c] = published[c] + 1
        BY <3>1, <3>2 DEF TypeOK
      <4>3. /\ Cardinality(Pending(c)) \in Nat
            /\ Cardinality(Pending(c)') = Cardinality(Pending(c)) - 1
        BY <3>1, <4>1, PendingChange
      <4>. QED
        BY <2>0, <2>4, <3>1, <4>2, <4>3
    <3>3. CASE req[w].concern # c
      BY <2>1, <2>4, <3>1, <3>3 DEF TypeOK
    <3>. QED
      BY <3>2, <3>3
  <2>9. ASSUME NEW w \in Workers, NEW d \in Concerns, NEW n \in References, CommitCreate(w, d, n)
        PROVE  Backed(c)'
    <3>1. /\ Others(w) /\ published' = published
          /\ req'[w] = [op |-> "publish", concern |-> d]
      BY <2>0, <2>3, <2>9 DEF CommitSome, CommitCreate, ThenPublish
    <3>2. CASE d = c
      <4>1. Count(c, Noticed) = {} /\ Cardinality(Count(c, Noticed)') = 1
        BY <2>9, <3>2, CreateCounts DEF Noticed
      <4>2. Cardinality({}) = 0
        BY FS_EmptySet
      <4>. QED
        BY <2>2, <3>1, <4>1, <4>2
    <3>3. CASE d # c
      <4>1. timeline'[c] = timeline[c]
        BY <2>9, <3>3 DEF CommitCreate, Record, TypeOK
      <4>2. Count(c, Noticed)' = Count(c, Noticed)
        BY <4>1 DEF Count
      <4>. QED
        BY <2>1, <3>1, <3>3, <4>2
    <3>. QED
      BY <3>2, <3>3
  <2>10. ASSUME NEW w \in Workers,
                \/ CommitUpdateStatus(w) \/ CommitTransfer(w) \/ CommitResolve(w)
                \/ CommitConfirm(w) \/ CommitReject(w) \/ CommitSupport(w)
         PROVE  Backed(c)'
    <3>1. Others(w) /\ published' = published
      BY <2>3, <2>10
      DEF CommitSome, CommitUpdateStatus, CommitTransfer, CommitResolve, CommitConfirm,
          CommitReject, CommitSupport, Respond, ThenPublish
    <3>2. req'[w] = Idle \/ req'[w] = [op |-> "publish", concern |-> req[w].concern]
      BY <2>0, <2>10
      DEF CommitUpdateStatus, CommitTransfer, CommitResolve, CommitConfirm,
          CommitReject, CommitSupport, Respond, ThenPublish
    <3>3. CASE ~CommitOn(w, c)
      <4>1. Same(c) /\ req[w].concern # c
        BY <2>10, <3>3, CommitsAreLocal DEF CommitOn
      <4>2. req'[w] # notice
        BY <3>2, <4>1 DEF Idle
      <4>. QED
        BY <2>1, <2>4, <3>1, <4>1, <4>2
    <3>4. CASE CommitOn(w, c)
      <4>0. req[w] \in Request /\ req[w].concern = c
        BY <2>0, <3>4 DEF CommitOn
      <4>1. CASE Respond(w) /\ timeline' = timeline
        <5>1. req'[w] # notice /\ Count(c, Noticed)' = Count(c, Noticed)
          BY <2>0, <4>1 DEF Respond, Idle, Count
        <5>. QED
          BY <2>1, <3>1, <5>1
      <4>2. CASE CommitUpdateStatus(w) \/ CommitConfirm(w)
        <5>1. /\ Logs(w)[1] \notin Noticed /\ "AWAITING_CONFIRMATION" \notin Noticed
              /\ req[w].op # "support" /\ Respond(w)
          BY <4>0, <4>2, RequestKinds
          DEF CommitUpdateStatus, CommitConfirm, Logs, Noticed, StatusRequest
        <5>2. Count(c, Noticed)' = Count(c, Noticed)
          BY <3>4, <5>1, CommitRecords, CommitCounts
        <5>3. req'[w] # notice
          BY <2>0, <5>1 DEF Respond, Idle
        <5>. QED
          BY <2>1, <3>1, <5>2, <5>3
      <4>3. CASE \/ CommitTransfer(w) \/ CommitResolve(w) \/ CommitReject(w)
                 \/ CommitSupport(w) /\ ~Respond(w)
        <5>1. /\ Logs(w)[1] \in Noticed /\ "AWAITING_CONFIRMATION" \notin Noticed
              /\ Record(c, Logs(w), req[w].actor)
          BY <4>0, <4>3
          DEF CommitTransfer, CommitResolve, CommitReject, CommitSupport, Logs, Noticed
        <5>2. Cardinality(Count(c, Noticed)') = Cardinality(Count(c, Noticed)) + 1
          BY <3>4, <5>1, CommitCounts
        <5>. QED
          BY <2>2, <3>1, <5>2
      <4>4. CommitSupport(w) /\ Respond(w) => timeline' = timeline
        BY <2>0 DEF CommitSupport, Respond, ThenPublish, Idle
      <4>. QED
        BY <2>10, <4>1, <4>2, <4>3, <4>4
    <3>. QED
      BY <3>3, <3>4
  <2>. QED
    BY <2>5, <2>6, <2>7, <2>8, <2>9, <2>10, StepCases
<1>3. Inv => NoticesAreBacked
  <2>1. \A c : Pending(c) = {w \in Workers : req[w] = [op |-> "publish", concern |-> c]}
               /\ Count(c, Noticed) = {i \in DOMAIN timeline[c] : timeline[c][i].event \in Noticed}
    BY DEF Pending, Count
  <2>. QED
    BY <2>1 DEF NoticesAreBacked
<1>. HIDE DEF Inv
<1>. QED
  BY <1>1, <1>2, <1>3, RecordsInvariant, PTL DEF Spec

-----------------------------------------------------------------------------
(***************************************************************************)
(* While the server runs one request at a time, the concern service        *)
(* implements the abstract workflow: what a request saw is what it finds   *)
(* when it commits, so every commit is an indivisible step of              *)
(* ConcernWorkflow.                                                        *)
(***************************************************************************)


OneAtATime == \A v, w \in Workers : v = w

(* A request in progress saw the concern as it is, and only confirmed and  *)
(* closed concerns carry a resolution time.                                *)
UpToDate(r) ==
  r.op \in {"updateStatus", "transfer", "resolve", "confirm", "reject"} =>
    r.concern \in Concerns /\ r.seen = Access(r.concern)
SerialInv ==
  /\ \A w \in Workers : UpToDate(req[w])
  /\ \A c \in Concerns : resolvedAt[c] => status[c] \in {"RESOLVED", "CLOSED"}

Safe == TypeOK /\ RecordsInv /\ CheckedInv /\ SerialInv

(* A request that starts sees the concern as it is. *)
LEMMA AcceptUpToDate ==
  ASSUME TypeOK, NEW w \in Workers, AcceptSome(w)
  PROVE  UpToDate(req[w])'
<1>1. QuietStep
  BY QuietSteps
<1>2. ASSUME NEW r, Accept(w, r), UpToDate(r) PROVE UpToDate(req[w])'
  <2>1. req'[w] = r
    BY <1>2 DEF Accept, TypeOK
  <2>. QED
    BY <1>1, <1>2, <2>1 DEF UpToDate, QuietStep, Access
<1>. QED
  BY <1>2 DEF AcceptSome, AcceptCreate, AcceptUpdateStatus, AcceptTransfer, AcceptResolve,
              AcceptAnswer, AcceptSupport, UpToDate

(* Every step is a step of the workflow, or changes nothing it speaks of.  *)
(* Afterwards only confirmed and closed concerns carry a time.             *)
LEMMA StepImplements ==
  ASSUME Safe, [Next]_vars
  PROVE  [Workflow!Next]_(Workflow!vars)
<1>. USE DEF Safe
<1>0. /\ status \in [Concerns -> Statuses \cup {"NONE"}] /\ target \in [Concerns -> Targets]
      /\ resolvedAt \in [Concerns -> BOOLEAN] /\ req \in [Workers -> Request]
  BY DEF TypeOK
<1>1. CASE UNCHANGED <<status, target, resolvedAt>>
  BY <1>1 DEF Workflow!vars
<1>2. ASSUME NEW w \in Workers,
             req[w].op \in {"updateStatus", "transfer", "resolve", "confirm", "reject"}
      PROVE  LET c == req[w].concern IN
             /\ c \in Concerns /\ status[c] \in Statuses /\ req[w] \in Request
             /\ req[w].seen.status = status[c] /\ req[w].seen.target = target[c]
             /\ resolvedAt[c] => status[c] \in {"RESOLVED", "CLOSED"}
  <2>. DEFINE c == req[w].concern
  <2>1. c \in Concerns /\ req[w].seen = Access(c)
    BY <1>2 DEF SerialInv, UpToDate
  <2>2. req[w].seen.status = status[c] /\ req[w].seen.target = target[c]
    BY <2>1 DEF Access
  <2>3. Exists(c)
    BY <1>2 DEF RecordsInv, Sound
  <2>4. status[c] \in Statuses /\ (resolvedAt[c] => status[c] \in {"RESOLVED", "CLOSED"})
    BY <1>0, <2>1, <2>3 DEF Exists, SerialInv
  <2>. QED
    BY <1>0, <2>1, <2>2, <2>4
<1>3. ASSUME NEW w \in Workers, NEW c \in Concerns, NEW n \in References, CommitCreate(w, c, n)
      PROVE  Workflow!Next
  <2>1. req[w].to \in Targets
    BY <1>0, <1>3, RequestKinds DEF CommitCreate, CreateRequest
  <2>2. Workflow!Submit(c, req[w].to)
    BY <1>0, <1>3 DEF CommitCreate, Workflow!Submit, SetStatus, Exists
  <2>. QED
    BY <2>1, <2>2 DEF Workflow!Next
<1>4. ASSUME NEW c \in Concerns, NEW next \in Statuses \ {"TRANSFERRED"},
             status[c] \in Statuses, Edge(status[c], next),
             SetStatus(c, next), target' = target,
             resolvedAt' = [resolvedAt EXCEPT ![c] =
                              next = "RESOLVED" \/ (next = "CLOSED" /\ resolvedAt[c])]
      PROVE  Workflow!Next
  <2>1. Workflow!Advance(c, next)
    BY <1>4 DEF Workflow!Advance, SetStatus, Edge, Statuses
  <2>. QED
    BY <2>1 DEF Workflow!Next, Statuses
<1>5. ASSUME NEW w \in Workers, CommitUpdateStatus(w) PROVE Workflow!Next
  <2>. DEFINE c == req[w].concern  next == req[w].to
  <2>1. /\ next \in {"UNDER_REVIEW", "IN_PROGRESS", "CLOSED"}
        /\ SetStatus(c, next) /\ target' = target
        /\ resolvedAt' = [resolvedAt EXCEPT ![c] = @ \/ next = "RESOLVED"]
    BY <1>0, <1>5, RequestKinds DEF CommitUpdateStatus, UpdateStatusTx, StatusRequest
  <2>2. /\ c \in Concerns /\ status[c] \in Statuses /\ Edge(status[c], next)
        /\ resolvedAt[c] => status[c] \in {"RESOLVED", "CLOSED"}
    BY <1>2, <1>5 DEF CommitUpdateStatus, CheckedInv, Checked
  <2>. HIDE DEF c, next
  <2>3. resolvedAt[c] /\ next # "CLOSED" => FALSE
    BY <2>1, <2>2 DEF Edge, Workflow!Successors
  <2>4. resolvedAt' = [resolvedAt EXCEPT ![c] = next = "RESOLVED" \/ (next = "CLOSED" /\ resolvedAt[c])]
    <3>1. (resolvedAt[c] \/ next = "RESOLVED")
            = (next = "RESOLVED" \/ (next = "CLOSED" /\ resolvedAt[c]))
      BY <2>3
    <3>. QED
      BY <2>1, <3>1
  <2>. QED
    BY <1>4, <2>1, <2>2, <2>4, EventsTyped
<1>6. ASSUME NEW w \in Workers, CommitConfirm(w) PROVE Workflow!Next
  <2>. DEFINE c == req[w].concern
  <2>1. /\ SetStatus(c, "RESOLVED") /\ target' = target
        /\ resolvedAt' = [resolvedAt EXCEPT ![c] = @ \/ "RESOLVED" = "RESOLVED"]
    BY <1>6 DEF CommitConfirm, UpdateStatusTx
  <2>2. c \in Concerns /\ status[c] \in Statuses /\ Edge(status[c], "RESOLVED")
    BY <1>2, <1>6 DEF CommitConfirm, CheckedInv, Checked
  <2>. HIDE DEF c
  <2>3. resolvedAt' = [resolvedAt EXCEPT ![c] = "RESOLVED" = "RESOLVED"
                                               \/ ("RESOLVED" = "CLOSED" /\ resolvedAt[c])]
    BY <2>1
  <2>. QED
    BY <1>4, <2>1, <2>2, <2>3, EventsTyped
<1>7. ASSUME NEW w \in Workers, CommitResolve(w) \/ CommitReject(w) PROVE Workflow!Next
  <2>. DEFINE c == req[w].concern
  <2>1. PICK next \in {"AWAITING_CONFIRMATION", "REOPENED"} :
          /\ SetStatus(c, next) /\ target' = target
          /\ resolvedAt' = [resolvedAt EXCEPT ![c] = FALSE]
          /\ Edge(status[c], next)
    BY <1>2, <1>7 DEF CommitResolve, CommitReject, CheckedInv, Checked
  <2>2. c \in Concerns /\ status[c] \in Statuses
    BY <1>2, <1>7 DEF CommitResolve, CommitReject
  <2>. HIDE DEF c
  <2>3. resolvedAt' = [resolvedAt EXCEPT ![c] = next = "RESOLVED" \/ (next = "CLOSED" /\ resolvedAt[c])]
    BY <2>1
  <2>4. next \in Statuses \ {"TRANSFERRED"}
    BY <2>1, EventsTyped
  <2>. QED
    BY <1>4, <2>1, <2>2, <2>3, <2>4
<1>8. ASSUME NEW w \in Workers, CommitTransfer(w) PROVE Workflow!Next
  <2>. DEFINE c == req[w].concern  to == req[w].to
  <2>1. to \in Targets /\ to # req[w].seen.target
    BY <1>0, <1>8, RequestKinds DEF CommitTransfer, TransferRequest, RecordsInv, Sound
  <2>2. /\ c \in Concerns /\ status[c] \in Statuses /\ Edge(status[c], "TRANSFERRED")
        /\ req[w].seen.target = target[c]
    BY <1>2, <1>8 DEF CommitTransfer, CheckedInv, Checked
  <2>3. /\ SetStatus(c, "TRANSFERRED") /\ target' = [target EXCEPT ![c] = to]
        /\ resolvedAt' = [resolvedAt EXCEPT ![c] = FALSE]
    BY <1>8 DEF CommitTransfer
  <2>. HIDE DEF c, to
  <2>4. Workflow!Transfer(c, to)
    BY <2>1, <2>2, <2>3 DEF Workflow!Transfer, SetStatus, Edge, Statuses
  <2>. QED
    BY <2>1, <2>2, <2>4 DEF Workflow!Next
<1>9. ASSUME NEW w \in Workers, CommitSupport(w) PROVE UNCHANGED <<status, target, resolvedAt>>
  BY <1>9 DEF CommitSupport
<1>. QED
  BY <1>1, <1>3, <1>5, <1>6, <1>7, <1>8, <1>9, StepCases, QuietSteps DEF vars, QuietStep

(* The workflow itself keeps resolution times to confirmed concerns. *)
LEMMA TimesKept ==
  ASSUME Safe, [Workflow!Next]_(Workflow!vars), NEW c \in Concerns, resolvedAt'[c]
  PROVE  status'[c] \in {"RESOLVED", "CLOSED"}
<1>0. /\ status \in [Concerns -> Statuses \cup {"NONE"}]
      /\ resolvedAt \in [Concerns -> BOOLEAN]
      /\ \A d \in Concerns : resolvedAt[d] => status[d] \in {"RESOLVED", "CLOSED"}
  BY DEF Safe, TypeOK, SerialInv
<1>. QED
  BY <1>0 DEF Workflow!Next, Workflow!Submit, Workflow!Transfer, Workflow!Advance, Workflow!vars

(* One request at a time implements ConcernWorkflow, for any number of     *)
(* concerns, people and targets (modules/concerns).                        *)
THEOREM SerialRequestsImplement ==
  ASSUME OneAtATime PROVE Spec => ImplementsWorkflow
<1>1. Init => SerialInv /\ Workflow!Init
  <2>1. (CHOOSE t \in Targets : TRUE) \in Targets
    OBVIOUS
  <2>2. Init => SerialInv
    BY DEF Init, SerialInv, UpToDate, Idle
  <2>. QED
    BY <2>1, <2>2 DEF Init, Workflow!Init
<1>2. Safe /\ [Next]_vars => SerialInv' /\ [Workflow!Next]_(Workflow!vars)
  <2>. SUFFICES ASSUME Safe, [Next]_vars
                PROVE  SerialInv' /\ [Workflow!Next]_(Workflow!vars)
    OBVIOUS
  <2>1. [Workflow!Next]_(Workflow!vars)
    BY StepImplements
  <2>2. \A c \in Concerns : resolvedAt'[c] => status'[c] \in {"RESOLVED", "CLOSED"}
    BY <2>1, TimesKept
  <2>3. ASSUME NEW w \in Workers PROVE UpToDate(req[w])'
    <3>1. CASE UNCHANGED vars
      BY <3>1 DEF Safe, SerialInv, UpToDate, Access, vars
    <3>2. ASSUME NEW v \in Workers, AcceptSome(v) PROVE UpToDate(req[w])'
      BY <3>2, AcceptUpToDate DEF OneAtATime, Safe
    <3>3. ASSUME NEW v \in Workers, CommitSome(v) \/ Publish(v) \/ Abandon(v)
          PROVE  UpToDate(req[w])'
      <4>1. v = w
        BY DEF OneAtATime
      <4>2. Unchecked(req'[w])
        BY <3>3, <4>1, CommitsAnswer DEF Safe
      <4>. QED
        BY <4>2 DEF Unchecked, UpToDate
    <3>. QED
      BY <3>1, <3>2, <3>3 DEF Next
  <2>. QED
    BY <2>1, <2>2, <2>3 DEF SerialInv
<1>3. Init => CheckedInv
  BY DEF Init, CheckedInv, Checked, Idle
<1>4. Spec => []CheckedInv
  BY <1>3, CheckedInductive, TypeCorrect, PTL DEF Spec
<1>. QED
  BY <1>1, <1>2, <1>4, RecordsInvariant, PTL DEF Spec, Safe, ImplementsWorkflow, Workflow!Spec
=============================================================================
