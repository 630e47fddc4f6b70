----------------------------- MODULE Submission -----------------------------
(***************************************************************************)
(* A student's submissions: StudentConcernForm, addConcern and the list of *)
(* the student's concerns in StudentDataContext, and what the server does  *)
(* with an image (concern-attachments). addAppointment of the booking form *)
(* is the same without an image.                                           *)
(*                                                                         *)
(* The form waits for three calls, one after the other: the concern is     *)
(* created, its image uploaded, the lists are read again. Each may be      *)
(* refused, and each may be given up after 15 s while the server goes on.  *)
(* The server stores an image under a fresh name, then commits its row;    *)
(* at any error of that it removes the image, which may fail as well.      *)
(*                                                                         *)
(* A submission is the number of times the form has been sent; the row it  *)
(* creates, its image in the storage and the image's row bear that number. *)
(* The query client fetches a query once at a time. An invalidation        *)
(* cancels a fetch that replaces data and waits for one that brings the    *)
(* first; a result that arrives replaces what has been written meanwhile.  *)
(*                                                                         *)
(* Some definitions stand before the one they vary as an error of the code *)
(* would; the properties below notice every such error.                    *)
(***************************************************************************)
EXTENDS Naturals, FiniteSets

CONSTANT MaxSubmissions  \* bound: times the form is sent

ASSUME SubmissionAssumption == MaxSubmissions \in Nat \ {0}

VARIABLES
  form,      \* what the form waits for, for which submission, with an image?
  told,      \* submissions whose success the student was told
  sent,      \* submissions on their way to the server
  rows,      \* concerns on record
  upload,    \* what the server does with the image of each submission
  objects,   \* images in the storage
  attached,  \* images with a row
  list,      \* the list in the query cache: concerns and their total
  read,      \* the fetch of the list under way
  orphaned,  \* history: images whose removal failed, or never came
  behind     \* history: has the list been left to differ from the rows?

serverRows == <<sent, rows>>
images == <<upload, objects, attached, orphaned>>
cached == <<list, read, behind>>
submissionVars == <<form, told, serverRows, images, cached>>

-----------------------------------------------------------------------------
Submissions == 1..MaxSubmissions

Phases == {"editing", "creating", "uploading", "refreshing"}
UploadPhases == {"none", "checked", "stored", "attached", "refused"}

NotLoaded == [loaded |-> FALSE, data |-> {}, total |-> 0]
NoRead == [asked |-> FALSE, served |-> FALSE, counted |-> FALSE, data |-> {}, total |-> 0,
           overtaken |-> FALSE]

SubmissionTypeOK ==
  /\ form \in [phase : Phases, number : 0..MaxSubmissions, image : BOOLEAN]
  /\ told \subseteq Submissions
  /\ sent \subseteq Submissions /\ rows \subseteq Submissions /\ sent \cap rows = {}
  /\ upload \in [Submissions -> UploadPhases]
  /\ objects \subseteq Submissions /\ attached \subseteq rows
  /\ list \in [loaded : BOOLEAN, data : SUBSET rows, total : Nat]
  /\ read \in [asked : BOOLEAN, served : BOOLEAN, counted : BOOLEAN, data : SUBSET rows,
               total : Nat, overtaken : BOOLEAN]
  /\ orphaned \subseteq Submissions
  /\ behind \in BOOLEAN

SubmissionInit ==
  /\ form = [phase |-> "editing", number |-> 0, image |-> FALSE]
  /\ told = {} /\ sent = {} /\ rows = {}
  /\ upload = [n \in Submissions |-> "none"]
  /\ objects = {} /\ attached = {} /\ orphaned = {}
  /\ list = NotLoaded /\ read = NoRead /\ behind = FALSE

-----------------------------------------------------------------------------
(* The list of the query cache (concernsQuery). *)

AskList ==
  /\ ~read.asked
  /\ read' = [NoRead EXCEPT !.asked = TRUE]
  /\ UNCHANGED <<form, told, serverRows, images, list, behind>>

(* getConcerns: the rows and their number are two queries at a time. *)
ServeList ==
  /\ read.asked /\ ~read.served
  /\ read' = [read EXCEPT !.served = TRUE, !.data = rows]
  /\ UNCHANGED <<form, told, serverRows, images, list, behind>>

CountList ==
  /\ read.asked /\ ~read.counted
  /\ read' = [read EXCEPT !.counted = TRUE, !.total = Cardinality(rows)]
  /\ UNCHANGED <<form, told, serverRows, images, list, behind>>

ListArrives ==
  /\ read.served /\ read.counted
  /\ list' = [loaded |-> TRUE, data |-> read.data, total |-> read.total]
  /\ behind' = read.overtaken
  /\ read' = NoRead
  /\ UNCHANGED <<form, told, serverRows, images>>

(* Nothing is tried again, and an invalidation does not tell its caller. *)
ReadFails ==
  /\ read.asked
  /\ behind' = TRUE
  /\ read' = NoRead
  /\ UNCHANGED <<form, told, serverRows, images, list>>

InvalidateUnlessLoaded ==
  read' = IF read.asked \/ list.loaded THEN read ELSE [NoRead EXCEPT !.asked = TRUE]

Invalidate ==
  read' = IF read.asked /\ ~list.loaded
          THEN [read EXCEPT !.overtaken = read.served \/ read.counted]
          ELSE [NoRead EXCEPT !.asked = TRUE]

-----------------------------------------------------------------------------
(* submit and addConcern. *)

Waits(p) == form.phase = p

To(p) == form' = [form EXCEPT !.phase = p]

Submit(image) ==
  /\ Waits("editing") /\ form.number < MaxSubmissions
  /\ form' = [phase |-> "creating", number |-> form.number + 1, image |-> image]
  /\ sent' = sent \cup {form.number + 1}
  /\ UNCHANGED <<told, rows, images, cached>>

(* The server creates the concern; perhaps nobody waits for it any more,   *)
(* and the list is not going to be read again.                             *)
CreateRow(n) ==
  LET awaited == Waits("creating") /\ form.number = n IN
  /\ n \in sent
  /\ sent' = sent \ {n} /\ rows' = rows \cup {n}
  /\ behind' = (behind \/ ~awaited)
  /\ read' = IF read.asked /\ ~awaited THEN [read EXCEPT !.overtaken = TRUE] ELSE read
  /\ UNCHANGED <<form, told, images, list>>

(* The server refuses, or never hears of it. *)
LoseRow(n) ==
  /\ n \in sent
  /\ sent' = sent \ {n}
  /\ UNCHANGED <<form, told, rows, images, cached>>

(* The error of a refusal, or of 15 s without an answer. *)
CreateGivenUp ==
  /\ Waits("creating") /\ To("editing")
  /\ behind' = (behind \/ form.number \in rows)
  /\ read' = IF read.asked /\ form.number \in rows THEN [read EXCEPT !.overtaken = TRUE] ELSE read
  /\ UNCHANGED <<told, serverRows, images, list>>

(* The concern goes to the head of the list, if there is one, once: but it *)
(* is counted also when a fetch has brought it before.                     *)
Prepended(n) ==
  IF list.loaded THEN [list EXCEPT !.data = @ \cup {n}, !.total = @ + 1] ELSE list

RowCreatedThenLeft ==
  /\ Waits("creating") /\ form.number \in rows
  /\ list' = Prepended(form.number)
  /\ told' = told \cup {form.number}
  /\ upload' = IF form.image THEN [upload EXCEPT ![form.number] = "checked"] ELSE upload
  /\ To("refreshing") /\ Invalidate
  /\ UNCHANGED <<serverRows, objects, attached, orphaned, behind>>

RowCreated ==
  /\ Waits("creating") /\ form.number \in rows
  /\ list' = Prepended(form.number)
  /\ IF form.image
     THEN /\ To("uploading")
          /\ upload' = [upload EXCEPT ![form.number] = "checked"]
          /\ UNCHANGED read
     ELSE To("refreshing") /\ Invalidate /\ UNCHANGED upload
  /\ UNCHANGED <<told, serverRows, objects, attached, orphaned, behind>>

(* The form shows an error and can be sent again; the concern stays. *)
UploadGivenUp ==
  /\ Waits("uploading") /\ To("editing")
  /\ behind' = TRUE
  /\ read' = IF read.asked THEN [read EXCEPT !.overtaken = TRUE] ELSE read
  /\ UNCHANGED <<told, serverRows, images, list>>

Uploaded ==
  /\ Waits("uploading") /\ upload[form.number] = "attached"
  /\ To("refreshing") /\ Invalidate
  /\ UNCHANGED <<told, serverRows, images, list, behind>>

(* The fetches of the refresh have ended, one way or the other: the page   *)
(* of the student's concerns is opened.                                    *)
Leave ==
  /\ Waits("refreshing") /\ ~read.asked
  /\ To("editing")
  /\ told' = told \cup {form.number}
  /\ UNCHANGED <<serverRows, images, cached>>

-----------------------------------------------------------------------------
(* uploadImage, from its first check on: the actor is the concern's own    *)
(* student, for whom both checks say the same.                             *)

Becomes(n, p) == upload' = [upload EXCEPT ![n] = p]

StoreImage(n) ==
  /\ upload[n] = "checked" /\ Becomes(n, "stored")
  /\ objects' = objects \cup {n}
  /\ UNCHANGED <<form, told, serverRows, attached, orphaned, cached>>

(* An error of the storage, which may have stored the image all the same. *)
StoreFails(n) ==
  /\ upload[n] = "checked" /\ Becomes(n, "refused")
  /\ \/ UNCHANGED <<objects, orphaned>>
     \/ objects' = objects \cup {n} /\ orphaned' = orphaned \cup {n}
  /\ UNCHANGED <<form, told, serverRows, attached, cached>>

Attach(n) ==
  /\ upload[n] = "stored" /\ Becomes(n, "attached")
  /\ attached' = attached \cup {n}
  /\ UNCHANGED <<form, told, serverRows, objects, orphaned, cached>>

(* An error of the transaction: it was not committed, or it was and the    *)
(* answer of the COMMIT was lost. The image is removed in either case;     *)
(* remove() reports an error in its result, which nobody reads.            *)
AttachFails(n) ==
  /\ upload[n] = "stored" /\ Becomes(n, "refused")
  /\ attached' \in {attached, attached \cup {n}}
  /\ \/ objects' = objects \ {n} /\ UNCHANGED orphaned
     \/ orphaned' = orphaned \cup {n} /\ UNCHANGED objects
  /\ UNCHANGED <<form, told, serverRows, cached>>

(* The process stops: no upload is taken up again. *)
ServerStops ==
  LET underWay == {n \in Submissions : upload[n] \in {"checked", "stored"}} IN
  /\ underWay # {}
  /\ upload' = [n \in Submissions |-> IF n \in underWay THEN "refused" ELSE upload[n]]
  /\ orphaned' = orphaned \cup {n \in underWay : upload[n] = "stored"}
  /\ UNCHANGED <<form, told, serverRows, objects, attached, cached>>

-----------------------------------------------------------------------------
SubmissionNext ==
  \/ AskList \/ ServeList \/ CountList \/ ListArrives \/ ReadFails
  \/ \E image \in BOOLEAN : Submit(image)
  \/ CreateGivenUp \/ RowCreated \/ UploadGivenUp \/ Uploaded \/ Leave
  \/ ServerStops
  \/ \E n \in Submissions : \/ CreateRow(n) \/ LoseRow(n) \/ StoreImage(n)
                            \/ StoreFails(n) \/ Attach(n) \/ AttachFails(n)

-----------------------------------------------------------------------------
(* Properties. *)

(* A row without its image is one whose COMMIT was not answered: the       *)
(* server refused the upload although its row is on record. An image       *)
(* without a row is on its way to one, or its removal failed or was        *)
(* prevented by a stop: the two stores never differ in any other way. A    *)
(* student who was told of success has the concern and, if the form had an *)
(* image when it was sent, both the image's row and the image.             *)
ImagesAreExplained ==
  /\ \A n \in attached \ objects : upload[n] = "refused"
  /\ \A n \in objects \ attached : upload[n] = "stored" \/ n \in orphaned
SuccessIsOnRecord ==
  \A n \in told : n \in rows /\ (upload[n] = "none" \/ n \in attached \cap objects)
RecordsAreExplained == ImagesAreExplained /\ SuccessIsOnRecord

(* When the form rests and no fetch is under way, the list and its total   *)
(* are those of the student's concerns, unless the list was left behind: a *)
(* fetch failed, the form gave up on a concern that was created or on its  *)
(* image, or the refresh waited for a first fetch that had been answered,  *)
(* in part or all, before the concern was created.                         *)
ListIsExplained ==
  Waits("editing") /\ ~read.asked /\ list.loaded /\ ~behind =>
    list.data = rows /\ list.total = Cardinality(rows)
=============================================================================
