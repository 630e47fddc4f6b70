# CARES: specifications and proofs

TLA+ models of CARES, the service with which students of a university submit concerns to offices
and departments and book appointments with them: of its backend (`src/backend`) and of the parts of
its web client (`src/frontend`) that keep state of their own. The models are checked with TLC on
small instances; theorems about every one of them, which state all their safety properties, are proved
with TLAPS for all instances. This file says what is modelled, how the definitions correspond to the code, what each run and each
theorem shows, and what is left out.

`PROJECT.json` lists the runs, the lines every definition stands for, the hazards of the code and
the properties that watch them.

## The system

The backend is an Express server in TypeScript over PostgreSQL (Prisma), with Redis for caching
and a BullMQ queue, and a separate notification worker. Nothing is kept in the server's memory
between requests except caches, so what interacts is requests, through rows of the database: every
request runs as an asynchronous handler, and between two of its awaits any other request, of the
same or of another server process, may commit. The client is a React application whose copies of
the server's rows live in a query cache, in component state and, for sessions, in `localStorage`.
Its handlers run to completion, but every call is an await: answers come in any order, and after
the user has gone on.

| component | state | operations | what is hard | what makes it right |
|---|---|---|---|---|
| concern workflow (`modules/concerns`) | `Concern`, `ResolutionReport`, `ReopenRequest`, `ConcernSupport`, `ConcernTransfer`, `ConcernTimeline` rows | create, update status, transfer, resolve, confirm, reject, support | checks run on a row read before the transaction; the transaction writes by id | rows, status and timeline tell one story; only overtaken requests leave the workflow |
| appointments (`modules/appointments`) | `Appointment`, `AppointmentReschedule` rows | create, approve, reject, cancel, complete, reschedule | the same, and a conflict query that races with other bookings | nobody is booked twice; history and marks match the row |
| availability (`modules/appointments/availability`) | `AppointmentAvailability` rows | create, update, delete; list slots, accept a slot | overlap checked without a transaction; slots computed in two places | windows are intervals; offered and accepted slots agree |
| notifications (`modules/notifications`, `workers`) | `Notification` rows, queue jobs, events in memory | publish, enqueue, deliver, retry, read, delete | lost, repeated and concurrent deliveries; crashes | once per recipient; a failure is on record |
| directory cache (`modules/directory`, `shared/utils/cache.ts`) | pages in Redis | read through, invalidate | a fill that races with an invalidation; commands to Redis that fail | a page that differs from the rows has a known cause, and its rows and total are of one moment |
| session cache (`shared/middleware/authenticate.ts`) | users by token, in memory | authenticate | deactivation and role changes while cached | a stale session ends with its first pause, and stays ended |
| accounts (`students`, `faculty`, `users`) and organisation (`offices`, `departments`) | `User`, profiles, `Office`, `Department` rows | create, update, deactivate, delete | unique keys decide between overlapping requests | every account has its profile |
| seed script (`prisma/seed.ts`) | the same rows | upsert each, validate | stopped anywhere, run again over edited rows, next to the service | success means that everything is there; interruptions alone never make it fail |
| attachments (`concern-attachments`) | objects in storage, `ConcernAttachment` rows | upload | object and row are written separately, and the answer of either write may be lost | a row without its image, or an image without its row, has a known cause; no success is told of either |
| client sessions (`features/auth`, `lib/api.ts`, `app/router.tsx`) | token and snapshot in `localStorage`; user, query cache and page of each tab | load, log in, restore, fetch, log out, redirect | late answers; other tabs that change the token | whose session a tab shows, why a session ends, where a load ends |
| student context and forms (`features/student`) | lists, forms, optimistic counts | submit with an image, support, choose a slot | three calls in a row that may each be given up; fetches that cross them; rollbacks | success is told only of what is on record; why a list or count may differ |
| pages of handlers and administrators (`features/staff`, `features/admin`) | a list read earlier, a selection, a form | act on an entry, edit a record | what is offered was read earlier, and by a table of its own | presses are admitted; edits reach their record |
| login, bootstrap, directory reads, middleware, rendering | none | reads | | |

Appointments ask availability whether a time can be booked, concerns and appointments publish
notification events after their commits, and the mutations of offices, departments and faculty
delete cached pages after theirs. Everything else meets in the database. A client's pages meet the
server only in calls, and each other in the query cache.

## Modules

Backend:

- `ConcernWorkflow` is what the concern service promises: the graph of statuses, with transfers,
  as steps that happen one at a time.
- `Concerns` is the service. A request occupies a worker (`req[w]`). `Accept...` is the handler up
  to its last check: it reads the access record (`Access`), checks the actor (`CanHandle`) and the
  status, and keeps what it saw in `seen`. `Commit...` is the repository's transaction, which
  writes by id. `Publish` is the call of `publishNotificationEvent` that follows. `Abandon` is a
  failed transaction or a stopped process. One action stands for one transaction because none of
  them can be seen half done. `CollideCreate` is the retry after a reference number that is taken.
- `Calendar` is what the appointment service promises about time: an appointment claims an interval
  for a student and a target in one indivisible step, only while neither is taken.
- `Appointments` is that service. Bookings and reschedules run a conflict query (`FindFor...`) and
  write later; at READ COMMITTED others commit in between, and the exclusion constraints of
  migration `20260624155000` (`Excluded`) are conditions of the write itself. `marks` stands for
  the columns `rejectionReason`, `cancelledAt` and `completedAt`. `Calendar` is instantiated with
  the active appointments as its bookings.
- `Availability` keeps the schedules. Times of day are minutes from zero, requested times are
  instants of which a minute has `Ticks`, so that what the HH:mm format of `checkAvailability` drops
  is visible. An update checks the row it read with the changed fields (`patch @@ seen`), and writes
  only the changed fields to the row as it is. `overtaken` is a history variable.
- `Inbox` is what the notification service promises its users, without queue, processes and retries:
  an event notifies some of its addressees, then others; it is settled when every active one has been
  notified; what is in an inbox is its user's to read and to delete.
- `Notifications` follows one event from `publishNotificationEvent` to the rows of the recipients:
  the `setImmediate` callback (`Dispatch`), the addition to the queue, which may be reported as
  failed and made nevertheless (`EnqueueFails`), the API's own delivery when the queue is off or
  fails, the steps of `handleNotificationEvent` (`FindHandlers`, `FindActive`, `Insert`), the
  result (`Finish`, `DeliveryFails`), stalled jobs, stopped processes, and the users' inbox.
  BullMQ is modelled from how the code uses it: a job id is added once, a failed job is retried
  until its attempts are used up, a job whose lock runs out is given to another worker although the
  first may still be running, and the result of a worker that no longer holds the job is ignored.
  `Inbox` is instantiated with the rows as each user sees them (`Shown`), and with an event as settled
  once its job is completed, or the API has delivered it without a job.
- `Directory` keeps departments, offices and faculty members with their users, and the cached pages
  of each. A worker (`job[w]`) loads a page (`StartLoad`, `QueryRows`, `QueryTotal` in any order,
  `Store` or `EndLoad`) or invalidates pages after a commit (`Invalidate`, `FailToInvalidate`, once
  for each kind of page). A mutation is one action up to its commit: the checks before it look for
  what the unique and foreign keys decide again. `overtaken` and `missed` are history variables.
- `Sessions` extends it with logins and `authenticate`, over the same rows: the accounts whose roles
  and activity change while they are signed in are the faculty members. `left[t]` is the time for
  which the answer about a token is still kept; `Accept` renews it, for hits as for lookups, as
  `cacheUser` does. A lookup reads the row and lets the request through later.
- `Accounts` has the commits of the API on accounts, profiles and units, and the seed script as a
  program whose position is `script.at`: every upsert is a step (the units are looked for at the same
  time, the accounts one after the other), `Stop` may end it anywhere, `Start` begins it again. The
  unique keys are conditions of the writes. `lacking`, `rekeyed` and `disturbed` are history
  variables: accounts the script may have left without a profile, whether the API has moved a key of
  the script's, and whether it committed beside the present run.

Client:

- `ClientSession` has the tabs of one browser. `Load` is what the application does when a page is
  loaded: it shows the stored snapshot if it is of the stored token, and asks for the bootstrap. A
  call carries the token that was stored when it left (`calls`), and its answer is applied whenever
  it comes (`Restored`, `FailRestore`, `Authenticated`, `ProfileUpdated`, `Fetched`, `Unauthorized`,
  `Fail`). `Redirect` is the effect of the router, which runs after the page of the route has been
  rendered: until then a tab without a user fetches as well (`FetchForNobody`), with whatever token
  another tab has stored. When the query client is cleared the results of its fetches are not wanted
  any more, but nothing aborts their requests (`DropFetches`): they stay under way, and a 401 for one
  of them signs out whomever it finds. `apart` is a history variable: the tabs whose session the code
  lets differ from the stored one, because nothing tells them of a change or because they fetched for
  nobody.
- `Submission` is the form of a concern, the context that sends it (three calls, each given up
  after 15 s while the server goes on), the cached list with its fetches, and `uploadImage`
  on the server with its image and row, where the answer of the upload to the storage and that of the
  row's COMMIT may be lost (`StoreFails`, `AttachFails`). `Feed` is the optimistic support with its rollback and the
  cached pages it patches. `Booking` is the form of an appointment: the target, the day, the slots
  that arrive, the selection. `AdminDirectory` is a table with a selection, a form and one call at a
  time. `ActionPages` has the four pages on which people act on concerns and appointments, with what
  each offers for a status and what the server admits.
- `ClientPages` composes these five: one page is open in a behaviour.

Proofs: `ConcernsProofs`, `AppointmentsProofs`, `AvailabilityProofs`, `NotificationsProofs`,
`SessionsProofs` (also about `Directory`), `AccountsProofs`, `ClientSessionProofs` and
`ClientPagesProofs` (about `Submission`, `Feed`, `Booking`, `AdminDirectory` and `ActionPages`).

`MC...` modules give the constants of the instances. Definitions such as `AllowedBack` or
`GridWithoutLast`, which stand before the definition they vary, are mistakes the code could contain;
`PROJECT.json` pairs each with the property that notices it.

Each module states the properties that hold however requests overlap. Where the code gives no such
guarantee, the property says who is to blame: `OnlyOvertakenLeaveWorkflow`, `OnlyOvertakenMisstep` and
`OnlyOvertakenMisfit` say that a step ends a good state only if the request that makes it was
overtaken by another write since it read the row. They contain the serial correctness of the
service and are stronger than it: they hold for every request that nobody overtakes, also in the
middle of others. In the same way the properties named `...AreExplained` list every cause for which
the code lets a copy differ from what it copies, and state that there is no other.

## Runs

| run | instance | shows |
|---|---|---|
| `concerns_lifecycle` | 1 concern, 2 targets, a student, a handler, an administrator, 2 workers, 5 timeline entries | types, timeline, reports, transfers and reopenings are consistent under overlap; nobody acts on a concern that was never addressed to them; only overtaken requests leave the workflow |
| `concerns_people` | 2 concerns, 2 references, 3 students, 2 workers, 3 timeline entries | supports, notices and references under concurrent creation and support |
| `appointments_calendar` | 2 appointments, 2 students, 2 targets, 3 slots, 2 workers | `ImplementsCalendar` and `NoDoubleBooking` |
| `appointments_lifecycle` | 1 appointment, a student, a professor, a dean, an administrator, 2 slots, 3 reschedules, 2 workers | history under overlap; lifecycle, marks and history are left right by requests nobody overtook |
| `appointments_revive` | 1 appointment, 2 workers | a stale approval revives a closed appointment (violation) |
| `availability_races` | 2 schedules of one target, windows in 2 minutes of 2 ticks, 2 workers | stored windows, agreement of offered and accepted slots, blame for overlaps and windows too short |
| `notifications_delivery` | 1 event, 3 users, 2 workers, 2 attempts, 1 stall | `ImplementsInbox`, which includes that nobody is notified twice at a time; completed means delivered, reads survive redelivery; with fairness, every event ends delivered or on record |
| `notifications_deleted` | 1 event, 2 users, 1 worker | a redelivery brings back a deleted notification (violation) |
| `directory_sessions` | 2 departments, 1 office, 1 member, 2 names, 2 workers, 2 commits, 1 token, 2 lookups, time to live 2 | why a page may be stale; rows and totals agree; stale sessions end and stay ended |
| `accounts_seed` | a script of 2 units, a student and a member of an office; 3 rows of each kind, 3 addresses, 2 numbers, 2 commits of the API, 3 runs | accounts keep their profiles, success is complete, failures have a cause |
| `client_session` | 2 tabs, 2 users, 3 workspaces, 2 tokens, 2 loads, 2 calls under way | whose session a tab shows, whose snapshot is stored, why a session ends; with fairness, where a load ends |
| `client_pages` | 2 submissions; 3 concerns, 2 searches, 2 presses; 2 targets, 2 days, 2 reads of slots, 1 change of them; 3 records; 1 entry | what each page may show and send, next to a server that others use |

The bounds. Two workers suffice for every race between one request's check and one commit; a stale
request may be overtaken any number of times, because the other worker runs one request after the
other. Five timeline entries let a concern be resolved and answered, resolved and reopened, or be
transferred three times with a stale origin. Two appointments suffice for clashes, which relate two,
and the three slots are two adjacent intervals and the one that covers both, so that sharing an end,
sharing a start and being contained all occur. Two minutes of two ticks hold windows of one and of two
slots, windows with a remainder, and instants inside a minute. The code retries a job five times; two
attempts and one stall already give a retry, a last failure, and two workers on one job.
`appointments_calendar` uses a view (`CalendarView`) that leaves out what neither the guards nor the
calendar depend on: the marks, the contents of the history, what requests saw, and the difference
between statuses that allow the same.

`directory_sessions` starts from every database its keys admit, so two commits are mutations of any
reachable content, and two are what overtaking a load and then missing or racing an invalidation
takes. `OneTopic` keeps pages of different kinds, and sessions, out of each other's way: loads and
cached pages of two kinds share only the rows, and sessions read nothing but the members. Two names
let a row change and a name clash; two departments let a member move and one be deleted. With one
token, two lookups of it overlap; what is known about different tokens is independent. A time to
live of 2 distinguishes a pause from requests that follow each other.

`accounts_seed` lets a run be interrupted, the API take over what it wrote, another run be
interrupted over that, and a third one finish; two commits move a key away and give it to another
row. In `client_session` two tokens are two logins, by either user in either tab, and two calls are an
answer that comes after the one it should have preceded. The constraint `OneAtATime` leaves out
states in which two tabs wait for the router, or in which a tab that waits for it has other calls
under way than its restore, its login or, without a user, its fetch; calls other than its own restore
while a tab shows the page of the office head; and the refusal of a second token. A tab that goes back to a page while another one's token is stored, fetches that user's data,
and then logs its own user in is within these bounds. The theorems about
`ClientSession` have no such bound. The three workspaces are the ones of which one's route begins
with the other's (`#office`, `#office-head`) and another. In `client_pages` two submissions overlap
when the first was given up; a feed of three concerns has one of the student's own; the schedules
share a day, a start, both or neither; three records are the one edited, the one selected after it,
and a new one.

Deadlock is checked in all runs except three. In those of `Notifications` a finite set of events comes
to rest when all have been delivered and all users are done; in `accounts_seed` the database comes to
rest when the bounds on runs and commits are used up.

Fairness is assumed in two modules. `Notifications` (`FairSpec`): the event loop runs callbacks and
goes on with deliveries while the process lives, a worker process takes waiting jobs, and BullMQ's
checker notices a lock that ran out. Nothing obliges a process to stop, a query to fail or a user to
act. If the API stops, its events are lost, which the property counts as a recorded outcome `"lost"`:
that loss is what the code accepts by keeping events in memory. `ClientSession`: effects run, which
React does after every change, and a restore ends, with an answer or after the 15 s of `lib/api.ts`
(`Fairness`). Both are weak: a tab that is loaded over and over, or navigated by its user, is not
obliged to settle, but the bound on loads and the router end that.

## What the runs found

- `approveAppointment` revives appointments cancelled, rejected or completed meanwhile:
  `appointments_revive`. When the time has been booked by then, the exclusion constraint refuses the
  write, which keeps the calendar right, but the error is not translated to the documented
  "Time slot not available" as it is in `create` and `reschedule`.
- A notification that its user deleted comes back, unread, when its job is delivered again:
  `notifications_deleted`.

Behaviour that the properties admit, and that a reader should know of:

- `updateConcernStatus` (and every other operation) checks a status that may have changed when the
  transaction writes: work in progress can go back under review. `OnlyOvertakenLeaveWorkflow` says
  that only an overtaken request does this.
- Two overlapping reschedules both store the times before the first as the previous ones; this is a
  case that `OnlyOvertakenMisstep` admits.
- `checkAvailability` accepts a slot moved by the same part of a minute at both ends;
  `OffersAreExact` states exactly how far acceptance goes.
- The directory can stay stale until a page expires: when a load was overtaken by a mutation and
  stores its page after the invalidation, when an invalidation fails, and always after a member's
  edit of their own name, which invalidates nothing. `docs/scalable-architecture.md` says "Mutating
  those resources invalidates the related cache keys"; `PagesAreExplained` lists the exceptions.
- `docs/production-readiness.md` says that every authenticated request verifies "active user state,
  and current role". The lookup is skipped while an answer is kept, and every request keeps it for
  another 30 seconds, so a session that never pauses that long outlives a deactivation until its
  token expires. `PauseEndsStaleSession` states what does hold.
- The seed script moves a profile to another account when its number has been given away
  (`ProfilesAreExplained`), and two units whose searches find the same row leave one unit unwritten
  in a run that reports success (`SuccessIsSeeded`).
- `docs/integration-audit.md` says that session restoration verifies the token with
  `GET /users/me`; the client shows the stored snapshot first and calls `GET /bootstrap`.
- Logging in does not clear the query cache: a tab whose session ended without its being told, or
  whose fetches of the previous session are still to come, goes on showing the former user's data
  until those entries are fetched again. These are the tabs in `apart` of `SessionIsExplained`.
- The router renders the page of the route before its effect sends a tab without a user to the login
  page, and most queries of the pages do not ask whether there is a user. A signed-out tab that goes
  back in its history while another tab is signed in caches that user's data, and keeps it through a
  later login. It is in `apart` from that fetch on.
- A 401 for a call that had left with an old token, or with none, removes the token stored now, also
  when the call is a query that a logout had dropped; `EndsForCause` has it as one of the causes.
- An image is removed after any error of the transaction that writes its row. If the row was committed
  and only the answer was lost, the row stays and refers to nothing, and the student is told that the
  upload failed. `RecordsAreExplained` says that no other row is without its image.
- A refresh after a submission may share a first fetch that the server answered before the concern
  existed; a rollback in the feed puts back counts that other calls have changed since; a support of
  the student's own concern, which the server ignores, is counted until the page is fetched again. `ListIsExplained` and `CountsAreExplained` name
  all of these.
- The edit form of the administrator's table is sent to the record selected when it is saved, not to
  the one it was opened on; `EditsReachTheirRecord` says when they are the same.
- The staff's page offers no decision on a RESCHEDULED appointment, although the server approves
  and rejects it (`appointments-api.md`).

## Proofs

The theorems hold for any values of the constants that satisfy the named assumptions: any numbers of
people, rows, requests and messages, and any bounds. `PROJECT.json` lists them; most state a property
of a run, so that the run shows on a small instance what the theorem says of all.

Types come first: each module has a theorem `TypeCorrect` that its type invariant always holds (in
`AccountsProofs`, `ClientSessionProofs` and `ClientPagesProofs` it is inductive only together with the
other invariants).

- `ConcernsProofs` (assumptions `ActorsAssumption`: the roles are disjoint and handlers have a
  target; `BoundsAssumption`: visibilities, and NULL is no value). `AnsweredConcernsHaveReports`: not
  inductive, since a confirmation in progress was checked on a report that must still exist when it
  commits; the invariant adds that every answer in progress is about a concern with a report.
  `TimelineExplainsStatus`: every write of a status appends the entry for it (`WriteKeepsMatch`), and
  a support is no status event. `WorkflowUnlessOvertaken`: the invariant `CheckedInv` says that every
  request in progress would move along an edge from the status it saw; a commit whose `seen` is still
  the status therefore moves along an edge.
- The second part of `ConcernsProofs`, about the rows and people of a concern. A concern keeps its
  owner, its visibility and its reference, and its logs only grow (`ConcernsKeep`). The invariant `RecordsInv`
  says that ids not on record have no rows (`Fresh`), that transfers form a trail from the first target
  to the one in charge, and that what a request in progress was checked for stays true (`Sound`): the
  target it saw is on the trail, its actor could handle a concern of that target, a supporter is not the
  owner, and an answer follows a resolution. From it follow `ReferencesAreUnique`, `OwnersResolve`,
  `HandlersWereAddressed`, `RowsAreLogged` and `SupportsAreLogged`; the last two relate lengths and
  cardinalities to entries of the timeline (`CountFinite` and the lemmas after it). `NoticesAreLogged`
  counts the notices pending beside those published, and assumes finitely many workers.
- Its third part, `SerialRequestsImplement`: with one request at a time (`OneAtATime`), `Spec`
  implements `ConcernWorkflow`. What a request saw is then what it finds (`SerialInv`), so each commit
  is a step of the workflow and everything else a stutter. No run checks it; `concerns_lifecycle` checks
  the stronger `OnlyOvertakenLeaveWorkflow`, for statuses.
- `AppointmentsProofs` (`PeopleAssumption`, `TimesAssumption`: slots begin before they end).
  `CalendarImplemented`: `Spec` implements `Calendar` under the mapping that takes active appointments
  as bookings. The write is the claim: its own exclusion condition makes it possible in the calendar,
  and a check that ran earlier is not relied on. `NobodyBookedTwice` follows from the abstract
  invariant, carried over. `HistoryExplainsSlot`: the invariant `HistoryInv` adds that the old times a
  reschedule in progress has read are times the appointment had. `MisstepsAreOvertaken`: requests keep
  what they were checked for (`CheckedInv`).
- `AvailabilityProofs` (`InputsAssumption`). `MisfitsAreOvertaken`: the invariant `ScheduleInv` says
  that the checks of a request no write has overtaken are still true. `OffersMeetAcceptance` is
  arithmetic about minutes and ticks (`DivisionFacts`, `MultiplesApart`, `DivisionOfMultiple`), over
  the typed windows.
- `NotificationsProofs` (`EventsAssumption`, `ProcessesAssumption`). `RecipientsNotifiedOnce`
  (`OncePerRecipient`, which `ImplementsInbox` contains) and `CompletedWasDelivered`: the invariant `DeliveryInv` says that a delivery in progress holds every
  recipient that is still active and nobody else, and that a finished one has delivered; it stays true
  when workers stop, jobs stall and a second worker delivers the same event, because a row goes only
  when its user deletes it. `RedeliveryQuiet` is a step property over the types: of the steps of a
  delivery only `Insert` writes rows, and it skips those that exist. `InboxImplemented`: `Spec`
  implements `Inbox`. An insertion is `Notify`, the end of a delivery settles its event if anything counts
  as done by it, and the rest users cannot see. Beside `DeliveryInv` this needs that only published events
  have jobs and deliveries, and that the API delivers an event only while it has not dealt with it
  (`OriginInv`), so that nothing settled is ever unsettled.
- `SessionsProofs` (`RowsAssumption`, and for pages finitely many rows, `FiniteRows`).
  `StalePagesAreExplained`: a load that was not overtaken has read what the rows still are
  (`LoadsAreCurrent`). `PausesEndStaleSessions` and `RefusalsAreFinal`: the time left and the time since
  the last acceptance add up to the time to live at most, accounts keep their rows, an inactive one
  stays inactive, and nothing under way could let an ended token in again (`SessionInv`).
- `ClientSessionProofs` (`SessionAssumption`). `SessionsAreExplained` and `SnapshotsMatchTokens` need
  what is under way in a tab in order to leave it in order: a fetch carries a token of the tab's user,
  or none; a tab without a user waits for no restore and no profile of the stored token; and a login
  finds its tab empty or apart (`ClientInv`). `SessionsEndForCause` is a step property over it: of the
  steps that leave a tab in order without its user, those of other tabs, of a restore and of a login are
  excluded by the invariant, and those that remain are the causes it names. These theorems have no
  counterpart of the run's constraint `OneAtATime`.

- `AccountsProofs`. Assumed are a script whose lines share no key and have a number unless they are of
  office staff (`SeedsAssumption`), which the tables at the head of `prisma/seed.ts` satisfy; finitely
  many profiles and units, because `validateSeedData` counts them (`IdsAssumption`); and that NULL is
  no row (`NoneIsNoRow`). None of the three properties is inductive, since each speaks of one moment
  of the script only. The invariant says of every place in the script what has been established there:
  - `Tables`, whatever the API and the script do: the references and the unique keys of all tables, and
    every account has its profile or is in `lacking`. `ProfilesExplained` follows.
  - `UnitKeysKept` and `AccountKeysKept`, as long as the API has not moved a key of the script: a row
    with a key of a line is the row of that line. The account that the script has just made may have its
    email changed by its owner before it gets its profile; it then has the email of no line.
  - `Alone`, as long as the API commits nothing beside the run: the lines it has passed hold, and the
    line it is at holds by half. The keys of the lines keep a later line from taking the account or the
    profile of an earlier one. `SuccessSeeded` follows.
  - `Undisturbed`, with both: each line finds its own row or none, so no upsert meets a key that is taken.
    `FailsAfterEdit` follows, with `ValidWhenHeld`: lines that hold have distinct rows, so that the counts
    of `validateSeedData` cannot fall short.
- `ClientPagesProofs` (`SubmissionAssumption`, `FeedAssumption`, `BookingAssumption`: at least one read of
  slots and slots that open at a time of the day, `AdminDirectoryAssumption`). The pages share no
  variable (`PageSteps`), so each has an invariant of its own:
  - `SubmissionsExplained`: `FormInv` ties what the form waits for to the submission's record and upload,
    `ImagesInv` an upload to object and row: an upload that was answered as attached has both, and only
    an upload that was refused may have a row and no object. `ListExplained`: `ListInv` says that a fetch which no
    creation has crossed brings what is on record, and that a creation waits for its refresh.
  - `CountsExplained`: every call knows the calls that overlapped it and where it would put back wrong
    counts (`CallsInv`), a fetch has crossed the calls under way and is right about all other concerns
    (`FetchInv`), and a call under way is counted once (`PressedInv`).
  - `SelectionOffered`: what a request has read, and what is shown, is what was offered for the target
    and day of that request, unless slots have changed since (`SlotsInv`).
  - `EditsArrive`: the edit form and the selection differ only if the administrator has turned away since
    (`AdminInv`). `PressesAdmitted`: what the pages offer for a status is among what the server admits
    for it, page by page (`OfferedIsAdmitted`), and a press is current only while the status stays.

Only model-checked: liveness under fairness (`EventuallyOnRecord`, `LoadsArePlaced`), which the installed
provers do not handle. Every invariant and every action property of the passing runs is stated by a
theorem.

## Plan

1. Done: the modules above, with their runs; theorems that state all safety properties; the three
   refinements (`ConcernWorkflow`, `Calendar`, `Inbox`) for all instances.
2. Next: an abstract specification of the seed script (all lines hold, or the run has failed) that
   `Accounts` implements, and one of the cached directory for `Directory`, with their proofs.
3. Then the composition of a client's page with the server's own module in place of the server that
   `ActionPages` and `Booking` contain, which would show which refusals a user can meet.

## What is not modelled

Texts, ids and pagination; the clock (times that passed `validateFutureTimeRange` are constants, and
slots in the past are left out); role checks and validation in front of the handlers, which appear as
the sets of actors and inputs that may start an operation; HTTP answers of the backend beyond what the
client's models need; rate limits and the request timeout, which ends an answer and not the handler; the
notification that appointment operations publish after their commits, which starts a behaviour of
`Notifications`; log output; start-up, configuration and one-off scripts; connections to Redis, one of
which every event opens.

Of `Directory`: references from students, concerns and appointments, which only refuse more deletions,
the email addresses, and searches (one key stands for the pages of a kind). Of `Sessions`: signatures and
the expiry of tokens, which only refuse more; the accounts of students, which are deactivated in the same
way and whose role never changes; and further server processes, each of which keeps answers of its own,
so that a session ends in each with its own pause. Of `Accounts`: the administrator's account of the
script, which has no profile. Of the client: layout, dashboards and read-only pages, which keep no state
that others depend on, the validation of forms, and messages; and, in `Submission`, a student who leaves
the form while it waits, opens it again and sends it, so that two runs of `addConcern` overlap in one tab.
In the model the second begins when the first has ended or been given up.
