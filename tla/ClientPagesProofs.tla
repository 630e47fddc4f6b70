------------------------- MODULE ClientPagesProofs -------------------------
(***************************************************************************)
(* Theorems about ClientPages, for any concerns, searches, targets, times, *)
(* records, entries and bounds: of each page, an inductive invariant (its  *)
(* types, its property, and what ties the fetches and calls under way to   *)
(* what the page shows) and the property. The pages share no variable, so  *)
(* a step of the one that is open leaves the invariants of the others      *)
(* alone.                                                                  *)
(***************************************************************************)
EXTENDS ClientPages, FiniteSetTheorems, WellFoundedInduction, TLAPS

(* A step is one of the open page, and none of the others.                 *)
LEMMA PageSteps ==
  ASSUME [PagesNext]_pagesVars
  PROVE  /\ SubmissionNext \/ UNCHANGED submissionVars
         /\ FeedNext \/ UNCHANGED feedVars
         /\ BookingNext \/ UNCHANGED bookingVars
         /\ AdminNext \/ UNCHANGED adminVars
         /\ ActionNext \/ UNCHANGED deskVars
BY DEF PagesNext, pagesVars

-----------------------------------------------------------------------------
(***************************************************************************)
(* The submission form and the student's list. FormInv ties the form's     *)
(* phase to the submission it waits for; ImagesInv the upload of an image  *)
(* to the concern's record, the image's record and the stored object.      *)
(***************************************************************************)
FormInv ==
  /\ sent \cup rows \subseteq 1..form.number
  /\ told \subseteq 1..form.number
  /\ \A n \in told : upload[n] \in {"none", "attached"}
  /\ form.phase # "editing" => form.number \in Submissions
  /\ form.phase = "creating" => form.number \notin told /\ upload[form.number] = "none"
  /\ form.phase = "uploading" => form.number \in rows /\ form.number \notin told
  /\ form.phase = "refreshing" =>
       form.number \in rows /\ upload[form.number] \in {"none", "attached"}

ImagesInv ==
  /\ \A n \in Submissions : upload[n] # "none" => n \in rows
  /\ \A n \in Submissions : upload[n] = "attached" => n \in attached \cap objects
  /\ \A n \in attached : upload[n] \in {"attached", "refused"}
  /\ \A n \in Submissions : upload[n] = "stored" => n \in objects

SubmissionInv == SubmissionTypeOK /\ FormInv /\ ImagesInv /\ RecordsAreExplained

(* The records of a form are at most its submissions.                      *)
LEMMA FiniteRows ==
  ASSUME SubmissionTypeOK
  PROVE  IsFiniteSet(rows) /\ Cardinality(rows) \in Nat
<1>1. IsFiniteSet(1..MaxSubmissions)
  BY SubmissionAssumption, FS_Interval
<1>2. rows \in SUBSET (1..MaxSubmissions)
  BY DEF SubmissionTypeOK, Submissions
<1>3. IsFiniteSet(rows)
  BY <1>1, <1>2, FS_Subset
<1>. QED
  BY <1>3, FS_CardinalityType

(* The form as it opens.                                                   *)
LEMMA SubmissionStarts == SubmissionInit => SubmissionInv
<1>. SUFFICES ASSUME SubmissionInit PROVE SubmissionInv
  OBVIOUS
<1>1. SubmissionTypeOK
  <2>1. form \in [phase : Phases, number : 0..MaxSubmissions, image : BOOLEAN]
    BY SubmissionAssumption DEF SubmissionInit, Phases
  <2>2. /\ list \in [loaded : BOOLEAN, data : SUBSET rows, total : Nat]
        /\ read \in [asked : BOOLEAN, served : BOOLEAN, counted : BOOLEAN, data : SUBSET rows,
                     total : Nat, overtaken : BOOLEAN]
    BY DEF SubmissionInit, NotLoaded, NoRead
  <2>. QED
    BY <2>1, <2>2 DEF SubmissionInit, SubmissionTypeOK, UploadPhases
<1>2. FormInv /\ ImagesInv
  BY SubmissionAssumption DEF SubmissionInit, FormInv, ImagesInv, Submissions
<1>3. RecordsAreExplained
  BY DEF SubmissionInit, RecordsAreExplained, ImagesAreExplained, SuccessIsOnRecord
<1>. QED
  BY <1>1, <1>2, <1>3 DEF SubmissionInv

(* Reading the list leaves form and server alone.                          *)
LEMMA ListStep ==
  ASSUME SubmissionInv, AskList \/ ServeList \/ CountList \/ ListArrives \/ ReadFails
  PROVE  SubmissionInv'
<1>1. UNCHANGED <<form, told, sent, rows, upload, objects, attached, orphaned>>
  BY DEF AskList, ServeList, CountList, ListArrives, ReadFails, serverRows, images
<1>2. SubmissionTypeOK'
  <2>. USE DEF SubmissionInv, SubmissionTypeOK, NoRead, NotLoaded
  <2>1. CASE AskList
    BY <1>1, <2>1 DEF AskList
  <2>2. CASE ServeList
    BY <1>1, <2>2 DEF ServeList
  <2>3. CASE CountList
    BY <1>1, <2>3, FiniteRows DEF CountList
  <2>4. CASE ListArrives
    BY <1>1, <2>4 DEF ListArrives
  <2>5. CASE ReadFails
    BY <1>1, <2>5 DEF ReadFails
  <2>. QED
    BY <2>1, <2>2, <2>3, <2>4, <2>5
<1>3. FormInv' /\ ImagesInv' /\ RecordsAreExplained'
  BY <1>1 DEF SubmissionInv, FormInv, ImagesInv, RecordsAreExplained, ImagesAreExplained, SuccessIsOnRecord
<1>. QED
  BY <1>2, <1>3 DEF SubmissionInv

(* An invalidation leaves the fetch well formed. *)
LEMMA InvalidateTyped ==
  ASSUME SubmissionTypeOK, Invalidate, UNCHANGED rows
  PROVE  read' \in [asked : BOOLEAN, served : BOOLEAN, counted : BOOLEAN, data : SUBSET rows',
                    total : Nat, overtaken : BOOLEAN]
BY DEF SubmissionTypeOK, Invalidate, NoRead

(* The form and the list; the images stand still. *)
LEMMA FormStep ==
  ASSUME SubmissionInv,
         \/ \E image \in BOOLEAN : Submit(image)
         \/ CreateGivenUp \/ UploadGivenUp \/ Uploaded \/ Leave
         \/ \E n \in Submissions : CreateRow(n) \/ LoseRow(n)
  PROVE  SubmissionInv'
<1>. USE SubmissionAssumption
<1>. USE DEF SubmissionInv, SubmissionTypeOK, FormInv, ImagesInv, RecordsAreExplained,
     ImagesAreExplained, SuccessIsOnRecord, Submissions, Waits, To, serverRows, images, cached
<1>1. ASSUME NEW image \in BOOLEAN, Submit(image) PROVE SubmissionInv'
  <2>. DEFINE m == form.number + 1
  <2>1. /\ form.phase = "editing" /\ form.number \in 0..MaxSubmissions
        /\ m \in 1..MaxSubmissions
        /\ form' = [phase |-> "creating", number |-> m, image |-> image]
        /\ sent' = sent \cup {m}
        /\ UNCHANGED <<told, rows, upload, objects, attached, orphaned, list, read, behind>>
    BY <1>1 DEF Submit
  <2>2. m \in 1..m /\ 1..form.number \subseteq 1..m /\ m \notin 1..form.number
    BY <2>1
  <2>. HIDE DEF m
  <2>3. m \notin sent \cup rows \cup told /\ upload[m] = "none"
    BY <2>1, <2>2
  <2>4. form' \in [phase : Phases, number : 0..MaxSubmissions, image : BOOLEAN]
    BY <2>1 DEF Phases
  <2>5. sent' \subseteq 1..MaxSubmissions /\ sent' \cap rows' = {}
    BY <2>1, <2>3
  <2>6. SubmissionTypeOK'
    BY <2>1, <2>4, <2>5
  <2>7. form'.phase = "creating" /\ form'.number = m
    BY <2>1
  <2>8. FormInv'
    BY <2>1, <2>2, <2>3, <2>7
  <2>. QED
    BY <2>1, <2>6, <2>8
<1>2. ASSUME NEW n \in Submissions, CreateRow(n) PROVE SubmissionInv'
  <2>1. /\ n \in sent /\ sent' = sent \ {n} /\ rows' = rows \cup {n}
        /\ UNCHANGED <<form, told, upload, objects, attached, orphaned, list>>
        /\ behind' \in BOOLEAN
    BY <1>2 DEF CreateRow
  <2>2. read' \in [asked : BOOLEAN, served : BOOLEAN, counted : BOOLEAN, data : SUBSET rows',
                   total : Nat, overtaken : BOOLEAN]
    BY <1>2, <2>1 DEF CreateRow
  <2>3. list' \in [loaded : BOOLEAN, data : SUBSET rows', total : Nat]
    BY <2>1
  <2>4. SubmissionTypeOK'
    BY <2>1, <2>2, <2>3
  <2>5. FormInv'
    BY <2>1
  <2>6. ImagesInv' /\ RecordsAreExplained'
    BY <2>1
  <2>. QED
    BY <2>4, <2>5, <2>6
<1>3. ASSUME NEW n \in Submissions, LoseRow(n) PROVE SubmissionInv'
  <2>1. /\ sent' = sent \ {n}
        /\ UNCHANGED <<form, told, rows, upload, objects, attached, orphaned, list, read, behind>>
    BY <1>3 DEF LoseRow
  <2>2. SubmissionTypeOK'
    BY <2>1
  <2>3. FormInv' /\ ImagesInv' /\ RecordsAreExplained'
    BY <2>1
  <2>. QED
    BY <2>2, <2>3
<1>4. CASE CreateGivenUp
  <2>1. /\ form' = [form EXCEPT !.phase = "editing"]
        /\ behind' \in BOOLEAN
        /\ UNCHANGED <<told, sent, rows, upload, objects, attached, orphaned, list>>
    BY <1>4 DEF CreateGivenUp
  <2>2. read' \in [asked : BOOLEAN, served : BOOLEAN, counted : BOOLEAN, data : SUBSET rows,
                   total : Nat, overtaken : BOOLEAN]
    BY <1>4 DEF CreateGivenUp
  <2>3. SubmissionTypeOK'
    BY <2>1, <2>2 DEF Phases
  <2>4. FormInv' /\ ImagesInv' /\ RecordsAreExplained'
    BY <2>1
  <2>. QED
    BY <2>3, <2>4
<1>5. CASE UploadGivenUp
  <2>1. /\ form' = [form EXCEPT !.phase = "editing"]
        /\ behind' \in BOOLEAN
        /\ UNCHANGED <<told, sent, rows, upload, objects, attached, orphaned, list>>
    BY <1>5 DEF UploadGivenUp
  <2>2. read' \in [asked : BOOLEAN, served : BOOLEAN, counted : BOOLEAN, data : SUBSET rows,
                   total : Nat, overtaken : BOOLEAN]
    BY <1>5 DEF UploadGivenUp
  <2>3. SubmissionTypeOK'
    BY <2>1, <2>2 DEF Phases
  <2>4. FormInv' /\ ImagesInv' /\ RecordsAreExplained'
    BY <2>1
  <2>. QED
    BY <2>3, <2>4
<1>6. CASE Uploaded
  <2>1. /\ form.phase = "uploading" /\ upload[form.number] = "attached"
        /\ form' = [form EXCEPT !.phase = "refreshing"] /\ Invalidate
        /\ UNCHANGED <<told, sent, rows, upload, objects, attached, orphaned, list, behind>>
    BY <1>6 DEF Uploaded
  <2>2. SubmissionTypeOK'
    BY <2>1, InvalidateTyped DEF Phases
  <2>3. FormInv' /\ ImagesInv' /\ RecordsAreExplained'
    BY <2>1
  <2>. QED
    BY <2>2, <2>3
<1>7. CASE Leave
  <2>1. /\ form.phase = "refreshing" /\ form' = [form EXCEPT !.phase = "editing"]
        /\ told' = told \cup {form.number}
        /\ UNCHANGED <<sent, rows, upload, objects, attached, orphaned, list, read, behind>>
    BY <1>7 DEF Leave
  <2>2. SubmissionTypeOK'
    BY <2>1 DEF Phases
  <2>3. FormInv' /\ ImagesInv'
    BY <2>1
  <2>4. RecordsAreExplained'
    BY <2>1
  <2>. QED
    BY <2>2, <2>3, <2>4
<1>. HIDE DEF SubmissionInv
<1>. QED
  BY <1>1, <1>2, <1>3, <1>4, <1>5, <1>6, <1>7

(* The answer that the record is made: the image is next, or the list.     *)
LEMMA RowCreatedStep ==
  ASSUME SubmissionInv, RowCreated
  PROVE  SubmissionInv'
<1>. USE SubmissionAssumption
<1>. USE DEF SubmissionInv, SubmissionTypeOK, FormInv, ImagesInv, Submissions, Waits, To
<1>1. /\ form.phase = "creating" /\ form.number \in rows
      /\ list' = Prepended(form.number)
      /\ UNCHANGED <<told, sent, rows, objects, attached, orphaned, behind>>
  BY DEF RowCreated, serverRows
<1>2. list' \in [loaded : BOOLEAN, data : SUBSET rows, total : Nat]
  <2>1. list.data \cup {form.number} \in SUBSET rows /\ list.total + 1 \in Nat
    BY <1>1
  <2>. QED
    BY <1>1, <2>1 DEF Prepended
<1>3. CASE form.image
  <2>1. /\ form' = [form EXCEPT !.phase = "uploading"]
        /\ upload' = [upload EXCEPT ![form.number] = "checked"] /\ read' = read
    BY <1>3 DEF RowCreated
  <2>2. SubmissionTypeOK'
    BY <1>1, <1>2, <2>1 DEF Phases, UploadPhases
  <2>3. /\ \A n \in 1..MaxSubmissions : upload'[n] = IF n = form.number THEN "checked" ELSE upload[n]
        /\ upload[form.number] = "none" /\ form.number \notin told
    BY <1>1, <2>1
  <2>4. FormInv' /\ ImagesInv'
    BY <1>1, <2>1, <2>3
  <2>5. RecordsAreExplained'
    BY <1>1, <2>1, <2>3 DEF RecordsAreExplained, ImagesAreExplained, SuccessIsOnRecord
  <2>. QED
    BY <2>2, <2>4, <2>5
<1>4. CASE ~form.image
  <2>1. form' = [form EXCEPT !.phase = "refreshing"] /\ Invalidate /\ upload' = upload
    BY <1>4 DEF RowCreated
  <2>2. SubmissionTypeOK'
    BY <1>1, <1>2, <2>1, InvalidateTyped DEF Phases
  <2>3. FormInv' /\ ImagesInv' /\ RecordsAreExplained'
    BY <1>1, <2>1 DEF RecordsAreExplained, ImagesAreExplained, SuccessIsOnRecord
  <2>. QED
    BY <2>2, <2>3
<1>. QED
  BY <1>3, <1>4

(* uploadImage: the form and the list stand still. *)
LEMMA ImageStep ==
  ASSUME SubmissionInv,
         \/ ServerStops
         \/ \E n \in Submissions : StoreImage(n) \/ StoreFails(n) \/ Attach(n) \/ AttachFails(n)
  PROVE  SubmissionInv'
<1>. USE SubmissionAssumption
<1>. USE DEF SubmissionInv, SubmissionTypeOK, FormInv, ImagesInv, RecordsAreExplained,
     ImagesAreExplained, SuccessIsOnRecord, Submissions, UploadPhases, Becomes, serverRows, cached
<1>1. ASSUME NEW n \in Submissions, StoreImage(n) PROVE SubmissionInv'
  <2>1. /\ upload[n] = "checked" /\ upload' = [upload EXCEPT ![n] = "stored"]
        /\ objects' = objects \cup {n}
        /\ UNCHANGED <<form, told, sent, rows, attached, orphaned, list, read, behind>>
    BY <1>1 DEF StoreImage
  <2>2. \A m \in 1..MaxSubmissions : upload'[m] = IF m = n THEN "stored" ELSE upload[m]
    BY <2>1
  <2>3. SubmissionTypeOK'
    BY <2>1
  <2>4. FormInv'
    BY <2>1, <2>2
  <2>5. ImagesInv'
    BY <2>1, <2>2
  <2>6. RecordsAreExplained'
    BY <2>1, <2>2
  <2>. QED
    BY <2>3, <2>4, <2>5, <2>6
<1>2. ASSUME NEW n \in Submissions, StoreFails(n) PROVE SubmissionInv'
  <2>1. /\ upload[n] = "checked" /\ n \notin attached /\ upload' = [upload EXCEPT ![n] = "refused"]
        /\ UNCHANGED <<form, told, sent, rows, attached, list, read, behind>>
        /\ objects \subseteq objects' /\ objects' \subseteq objects \cup {n}
        /\ orphaned \subseteq orphaned' /\ orphaned' \subseteq orphaned \cup {n}
        /\ objects' = objects \/ n \in orphaned'
    BY <1>2 DEF StoreFails
  <2>2. \A m \in 1..MaxSubmissions : upload'[m] = IF m = n THEN "refused" ELSE upload[m]
    BY <2>1
  <2>3. SubmissionTypeOK'
    BY <2>1
  <2>4. FormInv'
    BY <2>1, <2>2
  <2>5. ImagesInv'
    BY <2>1, <2>2
  <2>6. RecordsAreExplained'
    BY <2>1, <2>2
  <2>. QED
    BY <2>3, <2>4, <2>5, <2>6
<1>3. ASSUME NEW n \in Submissions, Attach(n) PROVE SubmissionInv'
  <2>1. /\ upload[n] = "stored" /\ upload' = [upload EXCEPT ![n] = "attached"]
        /\ attached' = attached \cup {n} /\ n \in rows /\ n \in objects
        /\ UNCHANGED <<form, told, sent, rows, objects, orphaned, list, read, behind>>
    BY <1>3 DEF Attach
  <2>2. \A m \in 1..MaxSubmissions : upload'[m] = IF m = n THEN "attached" ELSE upload[m]
    BY <2>1
  <2>3. SubmissionTypeOK'
    BY <2>1
  <2>4. FormInv'
    BY <2>1, <2>2
  <2>5. ImagesInv'
    BY <2>1, <2>2
  <2>6. RecordsAreExplained'
    BY <2>1, <2>2
  <2>. QED
    BY <2>3, <2>4, <2>5, <2>6
<1>4. ASSUME NEW n \in Submissions, AttachFails(n) PROVE SubmissionInv'
  <2>1. /\ upload[n] = "stored" /\ n \in rows /\ upload' = [upload EXCEPT ![n] = "refused"]
        /\ UNCHANGED <<form, told, sent, rows, list, read, behind>>
        /\ attached \subseteq attached' /\ attached' \subseteq attached \cup {n}
        /\ objects' \subseteq objects /\ objects \ {n} \subseteq objects'
        /\ orphaned \subseteq orphaned' /\ orphaned' \subseteq orphaned \cup {n}
        /\ n \notin objects' \/ n \in orphaned'
    BY <1>4 DEF AttachFails
  <2>2. \A m \in 1..MaxSubmissions : upload'[m] = IF m = n THEN "refused" ELSE upload[m]
    BY <2>1
  <2>3. SubmissionTypeOK'
    BY <2>1
  <2>4. FormInv'
    BY <2>1, <2>2
  <2>5. ImagesInv'
    BY <2>1, <2>2
  <2>6. RecordsAreExplained'
    BY <2>1, <2>2
  <2>. QED
    BY <2>3, <2>4, <2>5, <2>6
<1>5. CASE ServerStops
  <2>. DEFINE underWay == {n \in 1..MaxSubmissions : upload[n] \in {"checked", "stored"}}
  <2>1. /\ upload' = [n \in 1..MaxSubmissions |-> IF n \in underWay THEN "refused" ELSE upload[n]]
        /\ orphaned' = orphaned \cup {n \in underWay : upload[n] = "stored"}
        /\ UNCHANGED <<form, told, sent, rows, objects, attached, list, read, behind>>
    BY <1>5 DEF ServerStops
  <2>2. \A m \in 1..MaxSubmissions :
          upload'[m] = IF upload[m] \in {"checked", "stored"} THEN "refused" ELSE upload[m]
    BY <2>1
  <2>3. SubmissionTypeOK'
    BY <2>1
  <2>4. FormInv'
    BY <2>1, <2>2
  <2>5. ImagesInv'
    BY <2>1, <2>2
  <2>6. RecordsAreExplained'
    BY <2>1, <2>2
  <2>. QED
    BY <2>3, <2>4, <2>5, <2>6
<1>. QED
  BY <1>1, <1>2, <1>3, <1>4, <1>5

(* Each step of the page keeps the invariant.                              *)
LEMMA SubmissionStep ==
  ASSUME SubmissionInv, SubmissionNext
  PROVE  SubmissionInv'
BY ListStep, FormStep, RowCreatedStep, ImageStep DEF SubmissionNext

(* A fetch that a creation or an error of the form has not crossed holds   *)
(* what is on record, and so does the list when no fetch is under way,     *)
(* except from the creation the form waits for to the refresh.             *)
Accounted ==
  Waits("editing") \/ Waits("refreshing") \/ (Waits("creating") /\ form.number \notin rows)
ListInv ==
  /\ read.served \/ read.counted => read.asked
  /\ Accounted /\ read.asked /\ ~read.overtaken =>
       /\ read.served => read.data = rows
       /\ read.counted => read.total = Cardinality(rows)
  /\ Accounted /\ ~read.asked /\ list.loaded /\ ~behind =>
       list.data = rows /\ list.total = Cardinality(rows)

(* Before the first fetch.                                                 *)
LEMMA ListInvStarts == SubmissionInit => ListInv
BY DEF SubmissionInit, ListInv, NotLoaded, NoRead

(* After an invalidation a fetch is under way, and it has crossed nothing. *)
LEMMA InvalidateFetches ==
  ASSUME SubmissionTypeOK, Invalidate
  PROVE  /\ read'.asked
         /\ ~read'.overtaken => ~read'.served /\ ~read'.counted
BY DEF SubmissionTypeOK, Invalidate, NoRead

(* Each step of the page keeps the list explained.                         *)
LEMMA ListInvStep ==
  ASSUME SubmissionInv, ListInv, SubmissionNext
  PROVE  ListInv'
<1>. USE DEF SubmissionInv, SubmissionTypeOK, ListInv, Accounted, Waits, To, NoRead, serverRows, images, cached
<1>1. CASE AskList \/ ReadFails
  BY <1>1 DEF AskList, ReadFails
<1>2. CASE ServeList
  BY <1>2 DEF ServeList
<1>3. CASE CountList
  BY <1>3, FiniteRows DEF CountList
<1>4. CASE ListArrives
  BY <1>4 DEF ListArrives
<1>5. ASSUME NEW image \in BOOLEAN, Submit(image) PROVE ListInv'
  BY <1>5 DEF Submit
<1>6. ASSUME NEW n \in Submissions, CreateRow(n) PROVE ListInv'
  <2>1. CASE Waits("creating") /\ form.number = n
    BY <1>6, <2>1 DEF CreateRow
  <2>2. CASE ~(Waits("creating") /\ form.number = n)
    <3>1. behind' /\ read'.asked = read.asked /\ (read.asked => read'.overtaken)
          /\ read'.served = read.served /\ read'.counted = read.counted
      BY <1>6, <2>2 DEF CreateRow
    <3>. QED
      BY <3>1
  <2>. QED
    BY <2>1, <2>2
<1>7. CASE CreateGivenUp
  BY <1>7 DEF CreateGivenUp
<1>8. CASE RowCreated
  <2>1. ~Accounted /\ UNCHANGED rows
    BY <1>8 DEF RowCreated
  <2>2. CASE form.image
    BY <1>8, <2>1, <2>2 DEF RowCreated
  <2>3. CASE ~form.image
    <3>1. Invalidate
      BY <1>8, <2>3 DEF RowCreated
    <3>. QED
      BY <3>1, InvalidateFetches
  <2>. QED
    BY <2>2, <2>3
<1>9. CASE UploadGivenUp
  BY <1>9 DEF UploadGivenUp
<1>10. CASE Uploaded
  <2>1. Invalidate
    BY <1>10 DEF Uploaded
  <2>. QED
    BY <2>1, InvalidateFetches
<1>11. CASE Leave
  BY <1>11 DEF Leave
<1>12. CASE \/ ServerStops
            \/ \E n \in Submissions : LoseRow(n) \/ StoreImage(n) \/ StoreFails(n) \/ Attach(n) \/ AttachFails(n)
  <2>1. UNCHANGED <<form, rows, list, read, behind>>
    BY <1>12 DEF ServerStops, LoseRow, StoreImage, StoreFails, Attach, AttachFails
  <2>. QED
    BY <2>1
<1>. QED
  BY <1>1, <1>2, <1>3, <1>4, <1>5, <1>6, <1>7, <1>8, <1>9, <1>10, <1>11, <1>12 DEF SubmissionNext

-----------------------------------------------------------------------------
(***************************************************************************)
(* The feed. Of the calls under way the invariant says what they know of   *)
(* one another and what they would put back, of a fetch which calls it has *)
(* crossed.                                                                *)
(***************************************************************************)
Support ==
  [concern : Concerns, number : 1..presses, before : [Searches -> Counts],
   doubt : [Searches -> SUBSET Concerns], overlapped : SUBSET Concerns, applied : BOOLEAN]

(* A call knows every other call that has been under way at the same time; *)
(* what it would put back was right where it has no doubt.                 *)
CallsInv ==
  /\ \A j, k \in supports : j # k => j.concern \in k.overlapped
  /\ \A k \in supports : k.applied => k.concern \in supported \cup OwnConcerns
  /\ \A k \in supports, s \in Searches : \A c \in Concerns \ (k.doubt[s] \cup k.overlapped) :
       c # k.concern \/ ~k.applied => k.before[s][c] = Count(supported)[c]

(* A fetch has crossed every call under way, and brings what is on record  *)
(* of the other concerns.                                                  *)
FetchInv ==
  \A s \in Searches :
    /\ fetch[s].served => fetch[s].asked
    /\ fetch[s].asked => InFlight \subseteq fetch[s].crossed
    /\ fetch[s].served => \A c \in Concerns \ fetch[s].crossed : c \in fetch[s].data <=> c \in supported

(* A concern whose call is under way is counted once. *)
PressedInv ==
  \A s \in Searches, k \in supports :
    k.concern \notin off[s] => k.concern \notin OwnConcerns /\ counts[s][k.concern] = 1

FeedInv == FeedTypeOK /\ supports \subseteq Support
             /\ CallsInv /\ FetchInv /\ PressedInv /\ CountsAreExplained

(* What a page counts of a set of supported concerns.                      *)
LEMMA CountIs ==
  ASSUME NEW S, NEW c \in Concerns
  PROVE  Count(S)[c] = IF c \in S THEN 1 ELSE 0
BY DEF Count

(* Such counts are counts.                                                 *)
LEMMA CountTyped == ASSUME NEW S PROVE Count(S) \in Counts
BY DEF Count, Counts

(* The feed as it opens.                                                   *)
LEMMA FeedStarts == FeedInit => FeedInv
<1>. SUFFICES ASSUME FeedInit PROVE FeedInv
  OBVIOUS
<1>1. FeedTypeOK
  BY FeedAssumption, CountTyped DEF FeedInit, FeedTypeOK, NoFetch
<1>2. CallsInv /\ PressedInv /\ supports \subseteq Support
  BY DEF FeedInit, CallsInv, PressedInv
<1>3. FetchInv
  BY DEF FeedInit, FetchInv, InFlight, NoFetch
<1>4. CountsAreExplained
  BY DEF FeedInit, CountsAreExplained
<1>. QED
  BY <1>1, <1>2, <1>3, <1>4 DEF FeedInv

(* A fetch of one page. *)
LEMMA FetchStep ==
  ASSUME FeedInv, NEW s \in Searches,
         FetchFeed(s) \/ ServeFeed(s) \/ FeedArrives(s) \/ FeedFails(s)
  PROVE  FeedInv'
<1>1. UNCHANGED <<supported, pressed, supports, presses>>
  BY DEF FetchFeed, ServeFeed, FeedArrives, FeedFails
<1>2. InFlight \subseteq Concerns /\ InFlight' = InFlight
  BY <1>1 DEF FeedInv, Support, InFlight
<1>3. \A k \in supports : k.concern \in InFlight
  BY DEF InFlight
<1>4. CallsInv' /\ (supports \subseteq Support)'
  BY <1>1 DEF FeedInv, CallsInv, Support, Count
<1>. USE DEF FeedInv, FeedTypeOK
<1>5. CASE ~FeedArrives(s)
  <2>1. UNCHANGED <<counts, off>>
    BY <1>5 DEF FetchFeed, ServeFeed, FeedFails
  <2>2. FeedTypeOK'
    <3>1. fetch' \in [Searches -> [asked : BOOLEAN, served : BOOLEAN, data : SUBSET Concerns,
                                   crossed : SUBSET Concerns]]
      <4>1. CASE FetchFeed(s)
        BY <1>2, <4>1 DEF FetchFeed, NoFetch
      <4>2. CASE ServeFeed(s)
        <5>1. fetch' = [fetch EXCEPT ![s] = [@ EXCEPT !.served = TRUE, !.data = supported]]
          BY <4>2 DEF ServeFeed
        <5>. QED
          BY <5>1
      <4>3. CASE FeedFails(s)
        BY <4>3 DEF FeedFails, NoFetch
      <4>. QED
        BY <1>5, <4>1, <4>2, <4>3
    <3>. QED
      BY <1>1, <2>1, <3>1
  <2>3. FetchInv'
    <3>1. CASE FetchFeed(s)
      BY <1>1, <1>2, <3>1 DEF FetchInv, FetchFeed, NoFetch
    <3>2. CASE ServeFeed(s)
      BY <1>1, <1>2, <3>2 DEF FetchInv, ServeFeed
    <3>3. CASE FeedFails(s)
      BY <1>1, <1>2, <3>3 DEF FetchInv, FeedFails, NoFetch
    <3>. QED
      BY <1>5, <3>1, <3>2, <3>3
  <2>4. PressedInv' /\ CountsAreExplained'
    BY <1>1, <1>2, <2>1 DEF PressedInv, CountsAreExplained, Count
  <2>. QED
    BY <1>4, <2>2, <2>3, <2>4
<1>6. CASE FeedArrives(s)
  <2>1. /\ fetch[s].served
        /\ counts' = [counts EXCEPT ![s] = Count(fetch[s].data)]
        /\ off' = [off EXCEPT ![s] = fetch[s].crossed]
        /\ fetch' = [fetch EXCEPT ![s] = NoFetch]
    BY <1>6 DEF FeedArrives
  <2>2. FeedTypeOK'
    BY <1>1, <2>1, CountTyped DEF NoFetch
  <2>3. FetchInv'
    BY <1>1, <1>2, <2>1 DEF FetchInv, NoFetch
  <2>4. PressedInv'
    BY <1>1, <1>2, <1>3, <2>1 DEF PressedInv, FetchInv
  <2>5. CountsAreExplained'
    <3>. SUFFICES ASSUME NEW q \in Searches, NEW c \in Concerns, c \notin InFlight' \cup off'[q]
                  PROVE  counts'[q][c] = Count(supported')[c]
      BY DEF CountsAreExplained
    <3>1. CASE q = s
      BY <1>1, <2>1, <3>1, CountIs DEF FetchInv
    <3>2. CASE q # s
      BY <1>1, <1>2, <2>1, <3>2 DEF CountsAreExplained
    <3>. QED
      BY <3>1, <3>2
  <2>. QED
    BY <1>4, <2>2, <2>3, <2>4, <2>5
<1>. QED
  BY <1>5, <1>6

(* The server records the support of a call. *)
LEMMA ApplyStep ==
  ASSUME FeedInv, NEW k \in supports, ApplySupport(k)
  PROVE  FeedInv'
<1>. DEFINE d == [k EXCEPT !.applied = TRUE]
<1>1. /\ ~k.applied /\ supports' = (supports \ {k}) \cup {d}
      /\ supported' = supported \cup ({k.concern} \ OwnConcerns)
      /\ UNCHANGED <<pressed, counts, fetch, presses, off>>
  BY DEF ApplySupport
<1>2. /\ k \in Support /\ d \in Support /\ d.applied
      /\ d.concern = k.concern /\ d.overlapped = k.overlapped /\ d.doubt = k.doubt /\ d.before = k.before
  BY DEF FeedInv, Support
<1>. HIDE DEF d
<1>3. k.concern \in Concerns /\ k.concern \in InFlight /\ InFlight' = InFlight
  BY <1>1, <1>2 DEF InFlight, Support
<1>4. /\ FeedTypeOK' /\ (supports \subseteq Support)'
  <2>1. (supports \subseteq Support)'
    BY <1>1, <1>2 DEF FeedInv, Support
  <2>2. \A j \in supports' : j \in Support
    BY <1>1, <1>2 DEF FeedInv
  <2>. QED
    BY <1>1, <1>3, <2>1, <2>2 DEF FeedInv, FeedTypeOK, Support
<1>5. CallsInv'
  <2>1. \A i, j \in supports' : i # j => i.concern \in j.overlapped
    BY <1>1, <1>2 DEF FeedInv, CallsInv
  <2>2. \A j \in supports' : j.applied => j.concern \in supported' \cup OwnConcerns
    BY <1>1, <1>2 DEF FeedInv, CallsInv
  <2>3. ASSUME NEW j \in supports', NEW s \in Searches, NEW c \in Concerns \ (j.doubt[s] \cup j.overlapped),
               c # j.concern \/ ~j.applied
        PROVE  j.before[s][c] = Count(supported')[c]
    <3>1. c # k.concern
      BY <1>1, <1>2, <2>3 DEF FeedInv, CallsInv
    <3>2. j.before[s][c] = Count(supported)[c]
      BY <1>1, <1>2, <2>3, <3>1 DEF FeedInv, CallsInv
    <3>. QED
      BY <1>1, <3>1, <3>2, CountIs
  <2>. QED
    BY <2>1, <2>2, <2>3 DEF CallsInv
<1>6. FetchInv'
  BY <1>1, <1>3 DEF FeedInv, FetchInv
<1>7. PressedInv'
  BY <1>1, <1>2 DEF FeedInv, PressedInv
<1>8. CountsAreExplained'
  BY <1>1, <1>3, CountIs DEF FeedInv, CountsAreExplained
<1>. QED
  BY <1>4, <1>5, <1>6, <1>7, <1>8 DEF FeedInv

(* A call ends. *)
LEMMA EndStep ==
  ASSUME FeedInv, NEW k \in supports, SupportAnswered(k) \/ SupportFails(k)
  PROVE  FeedInv'
<1>1. supports' = supports \ {k} /\ UNCHANGED <<supported, fetch, presses>>
  BY DEF SupportAnswered, SupportFails
<1>2. k \in Support /\ k.concern \in Concerns /\ InFlight' \subseteq InFlight /\ InFlight \subseteq InFlight' \cup {k.concern}
  BY <1>1 DEF FeedInv, Support, InFlight
<1>3. (supports \subseteq Support)' /\ CallsInv' /\ FetchInv'
  <2>1. (supports \subseteq Support)'
    BY <1>1 DEF FeedInv, Support
  <2>2. CallsInv'
    BY <1>1 DEF FeedInv, CallsInv, Count
  <2>3. FetchInv'
    BY <1>1, <1>2 DEF FeedInv, FetchInv
  <2>. QED
    BY <2>1, <2>2, <2>3
<1>4. CASE SupportAnswered(k)
  <2>1. k.applied /\ UNCHANGED <<pressed, counts, off>>
    BY <1>4 DEF SupportAnswered
  <2>2. FeedTypeOK' /\ PressedInv'
    BY <1>1, <2>1 DEF FeedInv, FeedTypeOK, PressedInv
  <2>3. CountsAreExplained'
    <3>. SUFFICES ASSUME NEW s \in Searches, NEW c \in Concerns, c \notin InFlight' \cup off[s]
                  PROVE  counts[s][c] = Count(supported)[c]
      BY <1>1, <2>1 DEF CountsAreExplained
    <3>1. CASE c = k.concern
      <4>1. c \notin OwnConcerns /\ counts[s][c] = 1
        BY <3>1 DEF FeedInv, PressedInv
      <4>2. c \in supported
        BY <2>1, <3>1, <4>1 DEF FeedInv, CallsInv
      <4>. QED
        BY <4>1, <4>2, CountIs
    <3>2. CASE c # k.concern
      BY <1>2, <3>2 DEF FeedInv, CountsAreExplained
    <3>. QED
      BY <3>1, <3>2
  <2>. QED
    BY <1>3, <2>2, <2>3 DEF FeedInv
<1>5. CASE SupportFails(k)
  <2>1. /\ counts' = k.before /\ pressed' = pressed \ {k.concern}
        /\ off' = [s \in Searches |-> k.doubt[s] \cup k.overlapped
                                        \cup (IF k.applied THEN {k.concern} ELSE {})]
    BY <1>5 DEF SupportFails
  <2>2. FeedTypeOK'
    BY <1>1, <1>2, <2>1 DEF FeedInv, FeedTypeOK, Support
  <2>3. \A j \in supports' : j.concern \in k.overlapped
    BY <1>1 DEF FeedInv, CallsInv
  <2>4. PressedInv'
    BY <2>1, <2>3 DEF PressedInv
  <2>5. CountsAreExplained'
    <3>. SUFFICES ASSUME NEW s \in Searches, NEW c \in Concerns, c \notin off'[s]
                  PROVE  counts'[s][c] = Count(supported)[c]
      BY <1>1 DEF CountsAreExplained
    <3>. QED
      BY <2>1 DEF FeedInv, CallsInv
  <2>. QED
    BY <1>3, <2>2, <2>4, <2>5 DEF FeedInv
<1>. QED
  BY <1>4, <1>5

(* A press: every call under way has overlapped with the new one, and the  *)
(* new one with all of them.                                               *)
LEMMA PressStep ==
  ASSUME FeedInv, NEW c \in Concerns, Press(c)
  PROVE  FeedInv'
<1>. DEFINE new == [concern |-> c, number |-> presses + 1, before |-> counts, doubt |-> off,
                    overlapped |-> InFlight, applied |-> FALSE]
            Seen(k) == [k EXCEPT !.overlapped = @ \cup {c}]
<1>1. /\ presses < MaxPresses /\ presses' = presses + 1
      /\ pressed' = pressed \cup {c}
      /\ supports' = {Seen(k) : k \in supports} \cup {new}
      /\ counts' = [s \in Searches |-> [counts[s] EXCEPT ![c] = @ + 1]]
      /\ fetch' = Crossed(c)
      /\ off' = [s \in Searches |-> off[s] \cup ({c} \cap (supported \cup OwnConcerns \cup InFlight))]
      /\ supported' = supported
  BY DEF Press, Recorded, Doubt
<1>2. presses \in Nat /\ 1..presses \subseteq 1..(presses + 1) /\ presses + 1 \in 1..(presses + 1)
  BY FeedAssumption DEF FeedInv, FeedTypeOK
<1>3. \A k \in supports : k \in Support /\ k.concern \in Concerns /\ k.concern \in InFlight
  BY DEF FeedInv, Support, InFlight
<1>4. InFlight \subseteq Concerns
  BY <1>3 DEF InFlight
<1>5. \A k \in supports : /\ Seen(k) \in Support' /\ Seen(k).concern = k.concern
                          /\ Seen(k).before = k.before /\ Seen(k).doubt = k.doubt
                          /\ Seen(k).applied = k.applied
                          /\ Seen(k).overlapped = k.overlapped \cup {c}
  BY <1>1, <1>2, <1>3 DEF Support
<1>6. /\ new \in Support' /\ new.concern = c /\ new.before = counts /\ new.doubt = off
      /\ new.overlapped = InFlight /\ new.applied = FALSE
  BY <1>1, <1>2, <1>4 DEF FeedInv, FeedTypeOK, Support
<1>. HIDE DEF new, Seen
<1>7. InFlight' = InFlight \cup {c}
  BY <1>1, <1>5, <1>6 DEF InFlight
<1>8. FeedTypeOK' /\ (supports \subseteq Support)'
  <2>1. (supports \subseteq Support)'
    BY <1>1, <1>5, <1>6
  <2>2. \A k \in supports' : k \in Support'
    BY <2>1
  <2>3. counts' \in [Searches -> Counts]
    BY <1>1 DEF FeedInv, FeedTypeOK, Counts
  <2>4. fetch' \in [Searches -> [asked : BOOLEAN, served : BOOLEAN, data : SUBSET Concerns,
                                 crossed : SUBSET Concerns]]
    <3>1. \A s \in Searches :
            [fetch[s] EXCEPT !.crossed = @ \cup {c}] \in
              [asked : BOOLEAN, served : BOOLEAN, data : SUBSET Concerns, crossed : SUBSET Concerns]
      BY DEF FeedInv, FeedTypeOK
    <3>. QED
      BY <1>1, <3>1 DEF FeedInv, FeedTypeOK, Crossed
  <2>5. \A k \in supports' : /\ k.concern \in Concerns /\ k.number \in 1..presses'
                             /\ k.before \in [Searches -> Counts] /\ k.applied \in BOOLEAN
                             /\ k.doubt \in [Searches -> SUBSET Concerns]
                             /\ k.overlapped \subseteq Concerns
    BY <2>2 DEF Support
  <2>6. presses' \in 0..MaxPresses
    BY <1>1, FeedAssumption DEF FeedInv, FeedTypeOK
  <2>7. off' \in [Searches -> SUBSET Concerns]
    BY <1>1 DEF FeedInv, FeedTypeOK
  <2>8. pressed' \subseteq Concerns /\ supported' \subseteq Concerns \ OwnConcerns
    BY <1>1 DEF FeedInv, FeedTypeOK
  <2>. QED
    BY <2>1, <2>3, <2>4, <2>5, <2>6, <2>7, <2>8 DEF FeedTypeOK
<1>9. CallsInv'
  <2>1. \A j, k \in supports' : j # k => j.concern \in k.overlapped
    BY <1>1, <1>3, <1>5, <1>6 DEF FeedInv, CallsInv
  <2>2. \A k \in supports' : k.applied => k.concern \in supported' \cup OwnConcerns
    BY <1>1, <1>5, <1>6 DEF FeedInv, CallsInv
  <2>3. ASSUME NEW k \in supports', NEW s \in Searches, NEW o \in Concerns \ (k.doubt[s] \cup k.overlapped),
               o # k.concern \/ ~k.applied
        PROVE  k.before[s][o] = Count(supported)[o]
    <3>1. CASE k = new
      BY <1>6, <2>3, <3>1 DEF FeedInv, CountsAreExplained
    <3>2. ASSUME NEW j \in supports, k = Seen(j) PROVE k.before[s][o] = Count(supported)[o]
      BY <1>5, <2>3, <3>2 DEF FeedInv, CallsInv
    <3>. QED
      BY <1>1, <3>1, <3>2
  <2>. QED
    BY <1>1, <2>1, <2>2, <2>3 DEF CallsInv
<1>10. FetchInv'
  <2>1. \A s \in Searches : /\ fetch'[s].asked = fetch[s].asked /\ fetch'[s].served = fetch[s].served
                            /\ fetch'[s].data = fetch[s].data
                            /\ fetch[s].asked => fetch'[s].crossed = fetch[s].crossed \cup {c}
    BY <1>1 DEF FeedInv, FeedTypeOK, Crossed
  <2>. QED
    BY <1>1, <1>7, <2>1 DEF FeedInv, FetchInv
<1>11. \A s \in Searches : /\ off[s] \subseteq off'[s]
                           /\ c \in supported \cup OwnConcerns \cup InFlight => c \in off'[s]
                           /\ counts'[s][c] = counts[s][c] + 1
                           /\ \A o \in Concerns \ {c} : counts'[s][o] = counts[s][o]
  BY <1>1 DEF FeedInv, FeedTypeOK, Counts
<1>12. PressedInv'
  <2>. SUFFICES ASSUME NEW s \in Searches, NEW o \in InFlight', o \notin off'[s]
                PROVE  o \notin OwnConcerns /\ counts'[s][o] = 1
    BY DEF PressedInv, InFlight
  <2>1. CASE o = c
    <3>1. counts[s][c] = 0
      BY <1>11, <2>1, CountIs DEF FeedInv, CountsAreExplained
    <3>. QED
      BY <1>11, <2>1, <3>1
  <2>2. CASE o # c
    <3>1. PICK k \in supports : k.concern = o
      BY <1>7, <2>2 DEF InFlight
    <3>2. o \in Concerns /\ o \notin off[s]
      BY <1>3, <1>11, <3>1
    <3>3. o \notin OwnConcerns /\ counts[s][o] = 1
      BY <3>1, <3>2 DEF FeedInv, PressedInv
    <3>. QED
      BY <1>11, <2>2, <3>2, <3>3
  <2>. QED
    BY <2>1, <2>2
<1>13. CountsAreExplained'
  BY <1>1, <1>7, <1>11 DEF FeedInv, CountsAreExplained
<1>. QED
  BY <1>8, <1>9, <1>10, <1>12, <1>13 DEF FeedInv

(* Each step of the feed keeps the invariant.                              *)
LEMMA FeedStep ==
  ASSUME FeedInv, FeedNext
  PROVE  FeedInv'
<1>1. CASE Remount
  BY <1>1 DEF Remount, FeedInv, FeedTypeOK, Support, CallsInv, FetchInv, PressedInv, CountsAreExplained,
     InFlight, Count
<1>. QED
  BY <1>1, FetchStep, PressStep, ApplyStep, EndStep DEF FeedNext

-----------------------------------------------------------------------------
(***************************************************************************)
(* The booking form.                                                       *)
(***************************************************************************)
SlotRead == [number : 1..reads, target : Targets, day : Days, outdated : BOOLEAN, served : BOOLEAN,
             data : SUBSET Times]

(* What a request that was answered has read, and what is shown, is what   *)
(* the server offers, if it has not changed since; a selected slot has a   *)
(* time with an end.                                                       *)
SlotsInv ==
  /\ asked \subseteq SlotRead
  /\ time \in [day : Days, from : Nat, to : Nat]
  /\ ~outdated => shown \subseteq OnDay(slots[shownFor.target], shownFor.day)
  /\ \A r \in asked : r.served /\ ~r.outdated => r.data = OnDay(slots[r.target], r.day)
  /\ key # NoKey => time \in Times
  /\ booking # NotSent =>
       booking \in [waits : {TRUE}, target : Targets, time : Times, taken : BOOLEAN]

BookingInv == BookingTypeOK /\ SlotsInv /\ SelectionIsOffered

(* Times are days with a start and an end.                                 *)
LEMMA TimesFields ==
  /\ \A t \in Times : t \in [day : Days, from : Nat, to : Nat] /\ Start(t) \in Starts
  /\ Times \subseteq [day : Days, from : Nat, to : Nat]
<1>1. \A h \in Hours : h \in Nat /\ h + 1 \in Nat
  BY BookingAssumption
<1>. QED
  BY <1>1 DEF Times, Starts

(* A new request is typed and has not been answered.                       *)
LEMMA NewReadTyped ==
  ASSUME NEW n \in Nat, NEW m \in 1..n, NEW x \in Targets, NEW d \in Days
  PROVE  /\ NewRead(m, x, d) \in [number : 1..n, target : Targets, day : Days, outdated : BOOLEAN,
                                  served : BOOLEAN, data : SUBSET Times]
         /\ ~NewRead(m, x, d).served
BY DEF NewRead

(* The form as it opens.                                                   *)
LEMMA BookingStarts == BookingInit => BookingInv
<1>. SUFFICES ASSUME BookingInit PROVE BookingInv
  OBVIOUS
<1>1. Opening \in Times /\ Opening.day \in Days /\ Opening \in [day : Days, from : Nat, to : Nat]
      /\ Schedules \subseteq SUBSET Times /\ 1 \in 0..MaxSlotReads /\ 0 \in 0..MaxSlotEdits
  BY TimesFields, BookingAssumption
<1>2. /\ slots \in [Targets -> Schedules] /\ target \in Targets /\ time = Opening
      /\ key = NoKey /\ shown = {} /\ asked = {NewRead(1, target, Opening.day)}
      /\ booking = NotSent /\ reads = 1 /\ edits = 0
      /\ shownFor = [target |-> target, day |-> Opening.day] /\ outdated = FALSE
  BY DEF BookingInit, Opened
<1>3. asked \subseteq SlotRead /\ \A r \in asked : ~r.served
  BY <1>1, <1>2, NewReadTyped DEF SlotRead
<1>4. SlotsInv
  BY <1>1, <1>2, <1>3 DEF SlotsInv
<1>5. BookingTypeOK
  BY <1>1, <1>2, <1>3 DEF BookingTypeOK, SlotRead
<1>6. SelectionIsOffered
  BY <1>2 DEF SelectionIsOffered
<1>. QED
  BY <1>4, <1>5, <1>6 DEF BookingInv

(* What the effect asks for. *)
LEMMA AskSlotsStep ==
  ASSUME BookingInv, AskSlots, target' \in Targets, time'.day \in Days
  PROVE  /\ reads' \in 0..MaxSlotReads /\ asked \subseteq asked'
         /\ asked' \subseteq SlotRead'
         /\ \A r \in asked' \ asked : ~r.served
<1>1. reads \in 0..MaxSlotReads /\ asked \subseteq SlotRead
  BY DEF BookingInv, BookingTypeOK, SlotsInv
<1>2. CASE UNCHANGED <<asked, reads>>
  BY <1>1, <1>2 DEF SlotRead
<1>3. CASE /\ reads < MaxSlotReads /\ reads' = reads + 1
           /\ asked' = asked \cup {NewRead(reads + 1, target', time'.day)}
  <2>1. reads' \in 0..MaxSlotReads /\ reads' \in Nat /\ reads' \in 1..reads' /\ 1..reads \subseteq 1..reads'
    BY <1>1, <1>3, BookingAssumption
  <2>2. SlotRead \subseteq SlotRead'
    BY <2>1 DEF SlotRead
  <2>3. NewRead(reads', target', time'.day) \in SlotRead' /\ ~NewRead(reads', target', time'.day).served
    BY <2>1, NewReadTyped DEF SlotRead
  <2>. QED
    BY <1>1, <1>3, <2>1, <2>2, <2>3
<1>. QED
  BY <1>2, <1>3 DEF AskSlots

(* The fields. *)
LEMMA FieldStep ==
  ASSUME BookingInv,
         \/ \E x \in Targets : ChooseTarget(x)
         \/ \E d \in Days : ChooseDate(d)
         \/ \E h \in Hours : ChooseStart(h) \/ ChooseEnd(h)
         \/ \E s \in shown : PickSlot(s)
  PROVE  BookingInv'
<1>. USE DEF readHistory
<1>1. UNCHANGED <<slots, shown, booking, edits, shownFor, outdated>>
  BY DEF ChooseTarget, ChooseDate, ChooseStart, ChooseEnd, PickSlot
<1>2. /\ target \in Targets /\ time \in [day : Days, from : Nat, to : Nat] /\ shown \subseteq Times
      /\ reads \in 0..MaxSlotReads /\ asked \subseteq SlotRead
  BY DEF BookingInv, BookingTypeOK, SlotsInv
<1>3. \A h \in Hours : h \in Nat /\ h + 1 \in Nat
  BY BookingAssumption
<1>. DEFINE Moved ==
       /\ target' \in Targets /\ time' \in [day : Days, from : Nat, to : Nat]
       /\ \/ target' = target /\ key' = NoKey
          \/ time' = time /\ key' = key
          \/ target' = target /\ time' \in shown /\ key' = Start(time')
       /\ AskSlots \/ UNCHANGED <<asked, reads>>
<1>4. Moved
  <2>1. ASSUME NEW x \in Targets, ChooseTarget(x) PROVE Moved
    BY <1>2, <2>1 DEF ChooseTarget
  <2>2. ASSUME NEW d \in Days, ChooseDate(d) PROVE Moved
    BY <1>2, <2>2 DEF ChooseDate
  <2>3. ASSUME NEW h \in Hours, ChooseStart(h) \/ ChooseEnd(h) PROVE Moved
    BY <1>2, <1>3, <2>3 DEF ChooseStart, ChooseEnd
  <2>4. ASSUME NEW s \in shown, PickSlot(s) PROVE Moved
    BY <1>2, <2>4, TimesFields DEF PickSlot
  <2>. QED
    BY <2>1, <2>2, <2>3, <2>4
<1>5. /\ reads' \in 0..MaxSlotReads /\ asked' \subseteq SlotRead'
      /\ \A r \in asked' \ asked : ~r.served
  BY <1>2, <1>4, AskSlotsStep DEF SlotRead
<1>6. key' # NoKey => time' \in Times
  BY <1>2, <1>4 DEF BookingInv, SlotsInv
<1>7. key' \in Starts \cup {NoKey}
  BY <1>2, <1>4, TimesFields DEF BookingInv, BookingTypeOK
<1>8. BookingTypeOK'
  BY <1>1, <1>4, <1>5, <1>7 DEF BookingInv, BookingTypeOK, SlotRead
<1>9. SlotsInv'
  BY <1>1, <1>4, <1>5, <1>6 DEF BookingInv, SlotsInv
<1>10. SelectionIsOffered'
  <2>1. key' # NoKey => key' = Start(time') /\ key' \in {Start(s) : s \in shown}
    BY <1>1, <1>4 DEF BookingInv, SelectionIsOffered
  <2>2. ASSUME key' # NoKey, shownFor = Selection', ~outdated
        PROVE  key' \in {Start(s) : s \in slots[target']}
    <3>1. shown \subseteq OnDay(slots[target'], shownFor.day)
      BY <2>2 DEF Selection, BookingInv, SlotsInv
    <3>. QED
      BY <1>1, <2>1, <2>2, <3>1 DEF OnDay
  <2>. QED
    BY <1>1, <2>1, <2>2 DEF SelectionIsOffered
<1>. QED
  BY <1>8, <1>9, <1>10 DEF BookingInv

(* An answer of the server to a request, or its end. *)
LEMMA AnswerStep ==
  ASSUME BookingInv, NEW r \in asked, ServeSlots(r) \/ SlotsArrive(r) \/ SlotsFail(r)
  PROVE  BookingInv'
<1>. USE DEF readHistory
<1>1. r \in SlotRead /\ slots \in [Targets -> SUBSET Times]
  BY DEF BookingInv, BookingTypeOK, SlotsInv
<1>2. CASE ServeSlots(r)
  <2>. DEFINE d == [r EXCEPT !.served = TRUE, !.data = OnDay(slots[r.target], r.day)]
  <2>1. /\ asked' = (asked \ {r}) \cup {d}
        /\ UNCHANGED <<slots, target, time, key, shown, booking, reads, edits, shownFor, outdated>>
    BY <1>2 DEF ServeSlots
  <2>2. OnDay(slots[r.target], r.day) \in SUBSET Times
    BY <1>1 DEF OnDay, SlotRead
  <2>3. d \in SlotRead /\ d.data = OnDay(slots[d.target], d.day)
    BY <1>1, <2>2 DEF SlotRead
  <2>. HIDE DEF d
  <2>4. BookingTypeOK'
    BY <2>1, <2>3 DEF BookingInv, BookingTypeOK, SlotRead
  <2>5. SlotsInv'
    BY <2>1, <2>3 DEF BookingInv, SlotsInv, SlotRead
  <2>. QED
    BY <2>1, <2>4, <2>5 DEF BookingInv, SelectionIsOffered, Selection
<1>3. CASE SlotsArrive(r) \/ SlotsFail(r)
  <2>1. /\ asked' = asked \ {r} /\ shownFor' = [target |-> r.target, day |-> r.day]
        /\ UNCHANGED <<slots, target, time, booking, reads, edits>>
    BY <1>3 DEF SlotsArrive, SlotsFail
  <2>2. /\ shown' \subseteq Times /\ outdated' \in BOOLEAN
        /\ ~outdated' => shown' \subseteq OnDay(slots[r.target], r.day)
    BY <1>1, <1>3 DEF BookingInv, SlotsInv, SlotsArrive, SlotsFail, SlotRead
  <2>3. key' = NoKey \/ (key' = key /\ key' \in {Start(s) : s \in shown'})
    BY <1>3 DEF SlotsArrive, SlotsFail
  <2>4. shownFor' \in [target : Targets, day : Days] /\ shownFor'.target = r.target /\ shownFor'.day = r.day
    BY <1>1, <2>1 DEF SlotRead
  <2>5. BookingTypeOK'
    BY <2>1, <2>2, <2>3, <2>4 DEF BookingInv, BookingTypeOK
  <2>6. SlotsInv'
    BY <2>1, <2>2, <2>3, <2>4 DEF BookingInv, SlotsInv, SlotRead
  <2>7. SelectionIsOffered'
    <3>1. key' # NoKey => key' = Start(time') /\ key' \in {Start(s) : s \in shown'}
      BY <2>1, <2>3 DEF BookingInv, SelectionIsOffered
    <3>2. ASSUME key' # NoKey, shownFor' = Selection', ~outdated'
          PROVE  key' \in {Start(s) : s \in slots[target]}
      <4>1. shown' \subseteq OnDay(slots[target], r.day)
        BY <2>1, <2>2, <2>4, <3>2 DEF Selection
      <4>. QED
        BY <3>1, <3>2, <4>1 DEF OnDay
    <3>. QED
      BY <2>1, <3>1, <3>2 DEF SelectionIsOffered
  <2>. QED
    BY <2>5, <2>6, <2>7 DEF BookingInv
<1>. QED
  BY <1>2, <1>3

(* The slots of a target change; the form keeps what it shows. *)
LEMMA PublishStep ==
  ASSUME BookingInv, NEW x \in Targets, NEW S \in SUBSET Times, Publish(x, S),
         edits' \in 0..MaxSlotEdits,
         booking' = NotSent \/ booking' \in [waits : {TRUE}, target : Targets, time : Times, taken : BOOLEAN],
         UNCHANGED <<target, time, key, shown, reads, shownFor>>
  PROVE  BookingInv'
<1>. DEFINE Marked(r) == IF r.served /\ r.target = x THEN [r EXCEPT !.outdated = TRUE] ELSE r
<1>1. /\ slots' = [slots EXCEPT ![x] = S]
      /\ outdated' = (outdated \/ shownFor.target = x)
      /\ asked' = {Marked(r) : r \in asked}
  BY DEF Publish
<1>2. /\ slots' \in [Targets -> SUBSET Times] /\ slots'[x] = S
      /\ \A y \in Targets \ {x} : slots'[y] = slots[y]
  BY <1>1 DEF BookingInv, BookingTypeOK
<1>3. \A r \in asked : /\ r \in SlotRead /\ Marked(r) \in SlotRead /\ Marked(r).target = r.target
                       /\ Marked(r).day = r.day /\ Marked(r).served = r.served /\ Marked(r).data = r.data
                       /\ (~Marked(r).outdated => ~r.outdated /\ (r.served => r.target # x))
  BY DEF BookingInv, SlotsInv, SlotRead
<1>. HIDE DEF Marked
<1>4. asked' \subseteq SlotRead'
  BY <1>1, <1>3 DEF SlotRead
<1>5. BookingTypeOK'
  <2>1. \A r \in asked' : r.target \in Targets /\ r.day \in Days /\ r.number \in 1..reads'
    BY <1>4 DEF SlotRead
  <2>2. booking' = NotSent \/ (booking'.target \in Targets /\ booking'.time \in Times)
    OBVIOUS
  <2>3. outdated' \in BOOLEAN
    BY <1>1 DEF BookingInv, BookingTypeOK
  <2>. QED
    BY <1>2, <2>1, <2>2, <2>3 DEF BookingInv, BookingTypeOK
<1>6. SlotsInv'
  <2>1. ~outdated' => shown \subseteq OnDay(slots'[shownFor.target], shownFor.day)
    BY <1>1, <1>2 DEF BookingInv, BookingTypeOK, SlotsInv
  <2>2. \A r \in asked' : r.served /\ ~r.outdated => r.data = OnDay(slots'[r.target], r.day)
    BY <1>1, <1>2, <1>3 DEF BookingInv, SlotsInv, SlotRead
  <2>. QED
    BY <1>4, <2>1, <2>2 DEF BookingInv, SlotsInv
<1>7. SelectionIsOffered'
  <2>1. ASSUME shownFor = Selection, ~outdated' PROVE slots'[target] = slots[target] /\ ~outdated
    BY <1>1, <1>2, <2>1 DEF BookingInv, BookingTypeOK, Selection
  <2>. QED
    BY <2>1 DEF BookingInv, SelectionIsOffered, Selection
<1>. QED
  BY <1>5, <1>6, <1>7 DEF BookingInv

(* The form opens again. *)
LEMMA ReopenStep ==
  ASSUME BookingInv, Reopen, UNCHANGED <<slots, edits>>
  PROVE  BookingInv'
<1>1. PICK x \in Targets : /\ target' = x /\ asked' = {NewRead(1, x, Opening.day)}
                           /\ shownFor' = [target |-> x, day |-> Opening.day]
  BY DEF Reopen, Opened
<1>2. /\ time' = Opening /\ reads' = 1 /\ key' = NoKey /\ shown' = {}
      /\ booking' = NotSent /\ outdated' = FALSE
  BY DEF Reopen
<1>3. /\ Opening \in Times /\ Opening.day \in Days /\ Opening \in [day : Days, from : Nat, to : Nat]
      /\ 1 \in 0..MaxSlotReads
  BY TimesFields, BookingAssumption
<1>4. asked' \subseteq SlotRead' /\ \A r \in asked' : ~r.served
  BY <1>1, <1>2, <1>3, NewReadTyped DEF SlotRead
<1>5. SlotsInv'
  BY <1>2, <1>3, <1>4 DEF SlotsInv
<1>6. BookingTypeOK'
  BY <1>1, <1>2, <1>3, <1>4 DEF BookingInv, BookingTypeOK, SlotRead
<1>. QED
  BY <1>2, <1>5, <1>6 DEF BookingInv, SelectionIsOffered

(* Each step of the form keeps the invariant.                              *)
LEMMA BookingStep ==
  ASSUME BookingInv, BookingNext
  PROVE  BookingInv'
<1>. USE DEF readHistory
<1>0. booking # NotSent => booking \in [waits : {TRUE}, target : Targets, time : Times, taken : BOOLEAN]
  BY DEF BookingInv, SlotsInv
<1>1. ASSUME NEW x \in Targets, ChangeSlots(x) PROVE BookingInv'
  <2>1. edits' \in 0..MaxSlotEdits /\ UNCHANGED <<target, time, key, shown, booking, reads, shownFor>>
    BY <1>1, BookingAssumption DEF ChangeSlots, BookingInv, BookingTypeOK
  <2>2. PICK S \in SUBSET Times : Publish(x, S)
    BY <1>1, BookingAssumption DEF ChangeSlots, BookingInv, BookingTypeOK
  <2>. QED
    BY <1>0, <2>1, <2>2, PublishStep
<1>2. CASE Send
  <2>1. /\ booking' = [waits |-> TRUE, target |-> target, time |-> time, taken |-> FALSE]
        /\ key # NoKey
        /\ UNCHANGED <<slots, target, time, key, shown, asked, reads, edits, shownFor, outdated>>
    BY <1>2 DEF Send, CanSubmit
  <2>2. booking' \in [waits : {TRUE}, target : Targets, time : Times, taken : BOOLEAN]
    BY <2>1 DEF BookingInv, BookingTypeOK, SlotsInv
  <2>3. BookingTypeOK'
    BY <2>1, <2>2 DEF BookingInv, BookingTypeOK
  <2>4. SlotsInv'
    BY <2>1, <2>2 DEF BookingInv, SlotsInv, SlotRead
  <2>. QED
    BY <2>1, <2>3, <2>4 DEF BookingInv, SelectionIsOffered, Selection
<1>3. CASE TakeSlot
  <2>1. /\ Publish(booking.target, slots[booking.target] \ {booking.time})
        /\ booking # NotSent /\ booking' = [booking EXCEPT !.taken = TRUE]
        /\ UNCHANGED <<target, time, key, shown, reads, edits, shownFor>>
    BY <1>3 DEF TakeSlot
  <2>2. /\ booking.target \in Targets /\ slots[booking.target] \ {booking.time} \in SUBSET Times
        /\ booking' \in [waits : {TRUE}, target : Targets, time : Times, taken : BOOLEAN]
        /\ edits' \in 0..MaxSlotEdits
    BY <1>0, <2>1 DEF BookingInv, BookingTypeOK
  <2>. QED
    BY <2>1, <2>2, PublishStep
<1>4. CASE Booked \/ Cancel
  BY <1>4, ReopenStep DEF Booked, Cancel
<1>5. CASE NotBooked
  BY <1>5 DEF NotBooked, BookingInv, BookingTypeOK, SlotsInv, SelectionIsOffered, Selection, SlotRead
<1>. QED
  BY <1>1, <1>2, <1>3, <1>4, <1>5, FieldStep, AnswerStep DEF BookingNext

-----------------------------------------------------------------------------
(***************************************************************************)
(* The administrator's directory. The edit form holds the record chosen    *)
(* since it was opened, if it was chosen then and the administrator has    *)
(* not turned away.                                                        *)
(***************************************************************************)
AdminInv ==
  /\ AdminTypeOK /\ EditsReachTheirRecord
  /\ edit # 0 /\ opened /\ ~wandered => chosen = edit

(* A nonempty list has a first record. *)
LEMMA FirstIsListed ==
  ASSUME NEW S \in SUBSET Records, S # {}
  PROVE  First(S) \in S
<1>1. IsWellFoundedOn(OpToRel(<, Nat), Nat)
  BY NatLessThanWellFounded
<1>2. S \subseteq Nat
  BY DEF Records
<1>3. \E r \in S : \A s \in S : ~(<<s, r>> \in OpToRel(<, Nat))
  BY <1>1, <1>2, WFMin
<1>4. \E r \in S : \A s \in S : r <= s
  <2>1. PICK r \in S : \A s \in S : ~(<<s, r>> \in OpToRel(<, Nat))
    BY <1>3
  <2>2. ASSUME NEW s \in S, ~(r <= s) PROVE FALSE
    <3>1. s \in Nat /\ r \in Nat /\ s < r
      BY <1>2, <2>2
    <3>2. <<s, r>> \in OpToRel(<, Nat)
      BY <3>1 DEF OpToRel
    <3>. QED
      BY <2>1, <3>2
  <2>. QED
    BY <2>2
<1>. QED
  BY <1>4 DEF First

(* The selected record is listed, or none is.                              *)
LEMMA SelectedTyped ==
  ASSUME AdminTypeOK
  PROVE  Selected \in page \cup {0}
BY FirstIsListed DEF Selected, AdminTypeOK

(* The page as it opens.                                                   *)
LEMMA AdminStarts == AdminInit => AdminInv
<1>. SUFFICES ASSUME AdminInit PROVE AdminInv
  OBVIOUS
<1>1. Rest \in [op : {"none", "create", "update", "delete", "refresh"},
                id : known \cup {0}, from : known \cup {0}, excused : BOOLEAN]
  BY DEF Rest
<1>2. AdminTypeOK
  BY <1>1 DEF AdminInit, AdminTypeOK
<1>. QED
  BY <1>2 DEF AdminInit, AdminInv, EditsReachTheirRecord, Rest

(* The call under way names records that have existed. *)
Doing == [op : {"none", "create", "update", "delete", "refresh"},
          id : known \cup {0}, from : known \cup {0}, excused : BOOLEAN]

(* Each step of the page keeps the invariant.                              *)
LEMMA AdminStep ==
  ASSUME AdminInv, AdminNext
  PROVE  AdminInv'
<1>0. /\ known \subseteq Records /\ page \subseteq known
      /\ chosen \in known \cup {0} /\ edit \in known \cup {0}
      /\ opened \in BOOLEAN /\ wandered \in BOOLEAN /\ reading \in BOOLEAN
      /\ doing \in Doing
      /\ doing.op = "update" => doing.id = doing.from \/ doing.excused
      /\ edit # 0 /\ opened /\ ~wandered => chosen = edit
  BY DEF AdminInv, AdminTypeOK, EditsReachTheirRecord, Doing
<1>1. /\ known' \subseteq Records /\ known \subseteq known'
      /\ page' \subseteq known'
      /\ chosen' \in known' \cup {0} /\ edit' \in known' \cup {0}
      /\ opened' \in BOOLEAN /\ wandered' \in BOOLEAN /\ reading' \in BOOLEAN
      /\ edit' # 0 /\ opened' /\ ~wandered' => chosen' = edit'
  <2>1. CASE RecordsArrive
    BY <1>0, <2>1 DEF RecordsArrive, editHistory
  <2>10. CASE RecordsFail
    BY <1>0, <2>10 DEF RecordsFail, editHistory
  <2>6. CASE ReadAgain
    BY <1>0, <2>6 DEF ReadAgain, editHistory
  <2>7. CASE OthersCreate
    BY <1>0, <2>7 DEF OthersCreate, editHistory
  <2>2. CASE \E r \in Records : Choose(r)
    BY <1>0, <2>2 DEF Choose
  <2>3. CASE BeginEdit \/ CancelEdit
    BY <1>0, <2>3, SelectedTyped DEF BeginEdit, CancelEdit, editHistory, AdminInv
  <2>4. CASE Create \/ Remove \/ Update
    BY <1>0, <2>4 DEF Create, Remove, Update, Begin, editHistory
  <2>5. CASE Created
    BY <1>0, <2>5 DEF Created, Refresh, editHistory
  <2>8. CASE Removed
    BY <1>0, <2>8 DEF Removed, Refresh, editHistory
  <2>9. CASE Updated
    BY <1>0, <2>9 DEF Updated, Refresh, editHistory
  <2>11. CASE Refused
    BY <1>0, <2>11 DEF Refused, editHistory
  <2>. QED
    BY <2>1, <2>2, <2>3, <2>4, <2>5, <2>6, <2>7, <2>8, <2>9, <2>10, <2>11 DEF AdminNext
<1>2. doing' \in Doing' /\ EditsReachTheirRecord'
  <2>1. doing \in Doing'
    BY <1>0, <1>1 DEF Doing
  <2>2. Rest \in Doing' /\ [Rest EXCEPT !.op = "refresh"] \in Doing'
    BY DEF Rest, Doing
  <2>3. CASE doing' = doing \/ doing' = Rest \/ doing' = [Rest EXCEPT !.op = "refresh"]
    <3>1. Rest.op # "update" /\ [Rest EXCEPT !.op = "refresh"].op # "update"
      BY DEF Rest
    <3>. QED
      BY <1>0, <2>1, <2>2, <2>3, <3>1 DEF EditsReachTheirRecord
  <2>4. CASE Create \/ Remove \/ Update
    <3>1. Selected \in known' \cup {0} /\ edit \in known' \cup {0} /\ Excused \in BOOLEAN
      BY <1>0, <1>1, SelectedTyped DEF Excused, AdminInv
    <3>2. ASSUME NEW op \in {"create", "delete", "update"}, Begin(op),
                 op = "update" => edit # 0 /\ Selected # 0
          PROVE  doing' \in Doing' /\ EditsReachTheirRecord'
      <4>1. doing' \in Doing'
        BY <3>1, <3>2 DEF Begin, Doing
      <4>2. op = "update" => edit = Selected \/ Excused
        BY <1>0, <3>2 DEF Excused, Selected
      <4>3. doing'.op = op /\ (op = "update" => doing'.id = Selected /\ doing'.from = edit)
            /\ doing'.excused = Excused
        BY <3>2 DEF Begin
      <4>. QED
        BY <4>1, <4>2, <4>3 DEF EditsReachTheirRecord
    <3>. QED
      BY <2>4, <3>2 DEF Create, Remove, Update
  <2>. QED
    BY <1>0, <2>3, <2>4 DEF AdminNext, RecordsArrive, RecordsFail, Refreshed, ReadAgain, OthersCreate,
       Choose, BeginEdit, CancelEdit, Created, Removed, Updated, Refused, Refresh
<1>. QED
  BY <1>1, <1>2 DEF AdminInv, AdminTypeOK, Doing

-----------------------------------------------------------------------------
(***************************************************************************)
(* The pages that act on concerns and appointments.                        *)
(***************************************************************************)
Reading ==
  {NotRead, [NotRead EXCEPT !.asked = TRUE]}
    \cup [asked : {TRUE}, served : {TRUE}, data : [Entries -> DeskStatuses \cup {"UNLISTED"}]]
OpNames == {"status", "transfer", "resolve", "confirm", "rejectResolution",
            "approve", "reject", "cancel", "reschedule", "complete"}
Sent == [phase : {"sent"}, entry : Entries, op : [name : OpNames, to : DeskStatuses], current : BOOLEAN]
Done == [phase : {"done"}, entry : Entries, status : DeskStatuses]

ActionInv ==
  /\ ActionTypeOK /\ PressesAreAdmitted
  /\ deskRead \in Reading
  /\ action \in {NoAction} \cup Sent \cup Done

(* What the pages offer for a status the server admits for it, and it      *)
(* leads to a status of the same table.                                    *)
LEMMA OfferedIsAdmitted ==
  ASSUME desk \in Desks, NEW s \in DeskStatuses
  PROVE  /\ Offered(s) \subseteq Admitted(s)
         /\ \A op \in Admitted(s) : op \in [name : OpNames, to : DeskStatuses]
<1>. DEFINE Typed(S) == \A op \in S : op \in [name : OpNames, to : DeskStatuses]
<1>1. ASSUME NEW name \in OpNames, NEW tos \in SUBSET DeskStatuses PROVE Typed(Ops(name, tos))
  BY DEF Ops, Op
<1>2. CASE desk \in {"staffConcerns", "studentConcerns"}
  <2>1. DeskStatuses = ConcernStatuses
    BY <1>2 DEF DeskStatuses
  <2>2. Offered(s) \subseteq Admitted(s)
    <3>1. CASE desk = "staffConcerns"
      BY <3>1 DEF Offered, Admitted, NextConcernStatuses
    <3>2. CASE desk = "studentConcerns"
      BY <3>2 DEF Offered, Admitted
    <3>. QED
      BY <1>2, <3>1, <3>2
  <2>3. NextConcernStatuses(s) \in SUBSET DeskStatuses
    BY <2>1 DEF NextConcernStatuses, ConcernStatuses
  <2>4. /\ Typed(Ops("status", NextConcernStatuses(s)))
        /\ Typed(Ops("transfer", {"TRANSFERRED"}))
        /\ Typed(Ops("resolve", {"AWAITING_CONFIRMATION"}))
        /\ Typed(Ops("confirm", {"RESOLVED"}))
        /\ Typed(Ops("rejectResolution", {"REOPENED"}))
    <3>1. /\ {"TRANSFERRED"} \in SUBSET DeskStatuses
          /\ {"AWAITING_CONFIRMATION"} \in SUBSET DeskStatuses
          /\ {"RESOLVED"} \in SUBSET DeskStatuses
          /\ {"REOPENED"} \in SUBSET DeskStatuses
      BY <2>1 DEF ConcernStatuses
    <3>2. {"status", "transfer", "resolve", "confirm", "rejectResolution"} \subseteq OpNames
      BY DEF OpNames
    <3>. HIDE DEF Typed
    <3>. QED
      BY <1>1, <2>3, <3>1, <3>2
  <2>5. ASSUME NEW op \in Admitted(s)
        PROVE  \/ op \in Ops("status", NextConcernStatuses(s))
               \/ op \in Ops("transfer", {"TRANSFERRED"})
               \/ op \in Ops("resolve", {"AWAITING_CONFIRMATION"})
               \/ op \in Ops("confirm", {"RESOLVED"})
               \/ op \in Ops("rejectResolution", {"REOPENED"})
    BY <1>2, <2>5 DEF Admitted, NextConcernStatuses
  <2>. QED
    BY <2>2, <2>4, <2>5
<1>3. CASE desk \in {"staffAppointments", "studentAppointments"}
  <2>1. DeskStatuses = AppointmentStatuses
    BY <1>3 DEF DeskStatuses
  <2>2. Offered(s) \subseteq Admitted(s)
    <3>1. CASE desk = "staffAppointments"
      BY <3>1 DEF Offered, Admitted
    <3>2. CASE desk = "studentAppointments"
      BY <3>2 DEF Offered, Admitted
    <3>. QED
      BY <1>3, <3>1, <3>2
  <2>4. /\ Typed(Ops("approve", {"APPROVED"}))
        /\ Typed(Ops("reject", {"REJECTED"}))
        /\ Typed(Ops("cancel", {"CANCELLED"}))
        /\ Typed(Ops("reschedule", {"RESCHEDULED"}))
        /\ Typed(Ops("complete", {"COMPLETED"}))
    <3>1. /\ {"APPROVED"} \in SUBSET DeskStatuses
          /\ {"REJECTED"} \in SUBSET DeskStatuses
          /\ {"CANCELLED"} \in SUBSET DeskStatuses
          /\ {"RESCHEDULED"} \in SUBSET DeskStatuses
          /\ {"COMPLETED"} \in SUBSET DeskStatuses
      BY <2>1 DEF AppointmentStatuses
    <3>2. {"approve", "reject", "cancel", "reschedule", "complete"} \subseteq OpNames
      BY DEF OpNames
    <3>. HIDE DEF Typed
    <3>. QED
      BY <1>1, <3>1, <3>2
  <2>5. ASSUME NEW op \in Admitted(s)
        PROVE  \/ op \in Ops("approve", {"APPROVED"})
               \/ op \in Ops("reject", {"REJECTED"})
               \/ op \in Ops("cancel", {"CANCELLED"})
               \/ op \in Ops("reschedule", {"RESCHEDULED"})
               \/ op \in Ops("complete", {"COMPLETED"})
    BY <1>3, <2>5 DEF Admitted
  <2>. QED
    BY <2>2, <2>4, <2>5
<1>. QED
  BY <1>2, <1>3 DEF Desks

(* The page with its list.                                                 *)
LEMMA ActionStarts == ActionInit => ActionInv
BY DEF ActionInit, ActionInv, ActionTypeOK, PressesAreAdmitted, Reading, NoAction

(* Each step of the page keeps the invariant.                              *)
LEMMA ActionStep ==
  ASSUME ActionInv, ActionNext
  PROVE  ActionInv'
<1>1. CASE ReadDesk \/ ServeDesk \/ DeskArrives \/ DeskFails
  <2>1. UNCHANGED <<desk, standing, inCharge, action>>
    BY <1>1 DEF ReadDesk, ServeDesk, DeskArrives, DeskFails
  <2>2. DeskStatuses' = DeskStatuses
    BY <2>1 DEF DeskStatuses
  <2>3. deskRead' \in Reading /\ desked' \in [Entries -> DeskStatuses \cup {"UNLISTED"}]
    <3>1. deskRead \in Reading /\ desked \in [Entries -> DeskStatuses \cup {"UNLISTED"}]
          /\ standing \in [Entries -> DeskStatuses]
      BY DEF ActionInv, ActionTypeOK
    <3>2. CASE ReadDesk
      BY <3>1, <3>2 DEF ReadDesk, Reading, NotRead
    <3>3. CASE ServeDesk
      BY <3>1, <3>3 DEF ServeDesk, Reading, NotRead
    <3>4. CASE DeskArrives
      <4>1. deskRead # NotRead /\ deskRead # [NotRead EXCEPT !.asked = TRUE]
        BY <3>4 DEF DeskArrives, NotRead
      <4>2. deskRead.data \in [Entries -> DeskStatuses \cup {"UNLISTED"}]
        BY <3>1, <4>1 DEF Reading
      <4>3. NotRead \in Reading
        BY DEF Reading
      <4>. QED
        BY <3>4, <4>2, <4>3 DEF DeskArrives
    <3>5. CASE DeskFails
      BY <3>1, <3>5 DEF DeskFails, Reading, NotRead
    <3>. QED
      BY <1>1, <3>2, <3>3, <3>4, <3>5
  <2>. QED
    BY <2>1, <2>2, <2>3 DEF ActionInv, ActionTypeOK, PressesAreAdmitted, Admits, Admitted, Reading, Sent, Done, NotRead
<1>2. ASSUME NEW e \in Entries, PressAction(e) PROVE ActionInv'
  <2>1. UNCHANGED <<desk, standing, inCharge, desked, deskRead>> /\ DeskStatuses' = DeskStatuses
    BY <1>2 DEF PressAction, DeskStatuses
  <2>2. PICK op \in Offered(desked[e]) :
          action' = [phase |-> "sent", entry |-> e, op |-> op, current |-> Current(e)]
    BY <1>2 DEF PressAction
  <2>3. desked[e] \in DeskStatuses
    BY <1>2 DEF PressAction, ActionInv, ActionTypeOK
  <2>4. op \in Admitted(desked[e]) /\ op \in [name : OpNames, to : DeskStatuses]
    BY <2>3, OfferedIsAdmitted DEF ActionInv, ActionTypeOK
  <2>5. action' \in Sent /\ action'.phase = "sent" /\ action'.entry = e
    BY <2>2, <2>4 DEF Sent, Current
  <2>6. PressesAreAdmitted'
    BY <2>1, <2>2, <2>4 DEF PressesAreAdmitted, Admits, Admitted, Current
  <2>. QED
    BY <2>1, <2>5, <2>6 DEF ActionInv, ActionTypeOK, Reading, Sent, Done
<1>3. CASE Perform
  <2>. DEFINE e == action.entry
  <2>1. /\ action.phase = "sent" /\ Admits(e, action.op)
        /\ action' = [phase |-> "done", entry |-> e, status |-> standing'[e]]
        /\ \/ standing' = [standing EXCEPT ![e] = action.op.to]
           \/ UNCHANGED standing
        /\ inCharge' \subseteq inCharge
        /\ UNCHANGED <<desk, desked, deskRead>> /\ DeskStatuses' = DeskStatuses
    BY <1>3 DEF Perform, DeskStatuses
  <2>2. e \in Entries /\ action.op \in [name : OpNames, to : DeskStatuses]
    BY <2>1 DEF ActionInv, NoAction, Sent, Done
  <2>3. standing' \in [Entries -> DeskStatuses]
    BY <2>1, <2>2 DEF ActionInv, ActionTypeOK
  <2>4. action' \in Done /\ action'.phase = "done" /\ action'.entry = e
    BY <2>1, <2>2, <2>3 DEF Done
  <2>. QED
    BY <2>1, <2>2, <2>3, <2>4 DEF ActionInv, ActionTypeOK, PressesAreAdmitted, Reading, Sent, Done
<1>4. CASE PutAnswer
  <2>1. action.phase = "done" /\ action' = NoAction /\ UNCHANGED <<desk, standing, inCharge>>
        /\ DeskStatuses' = DeskStatuses
    BY <1>4 DEF PutAnswer, DeskStatuses
  <2>2. action \in Done
    BY <2>1 DEF ActionInv, NoAction, Sent
  <2>3. deskRead' \in Reading /\ desked' \in [Entries -> DeskStatuses \cup {"UNLISTED"}]
    BY <1>4, <2>2 DEF PutAnswer, ActionInv, ActionTypeOK, Reading, Done
  <2>. QED
    BY <2>1, <2>3 DEF ActionInv, ActionTypeOK, PressesAreAdmitted, Reading, Sent, Done, NotRead
<1>5. CASE ActionFails
  <2>1. action' = NoAction /\ UNCHANGED <<desk, standing, inCharge, desked, deskRead>> /\ DeskStatuses' = DeskStatuses
    BY <1>5 DEF ActionFails, DeskStatuses
  <2>. QED
    BY <2>1 DEF ActionInv, ActionTypeOK, PressesAreAdmitted, Reading, Sent, Done
<1>6. ASSUME NEW e \in Entries, OthersAct(e) PROVE ActionInv'
  <2>1. /\ standing' \in [Entries -> DeskStatuses] /\ inCharge' \subseteq Entries
        /\ \A i \in Entries \ {e} : standing'[i] = standing[i] /\ (i \in inCharge' <=> i \in inCharge)
        /\ UNCHANGED <<desk, desked, deskRead>> /\ DeskStatuses' = DeskStatuses
    BY <1>6 DEF OthersAct, DeskStatuses, ActionInv, ActionTypeOK
  <2>2. CASE action # NoAction /\ action.phase = "sent" /\ action.entry = e
    <3>1. action' = [action EXCEPT !.current = FALSE]
      BY <1>6, <2>2 DEF OthersAct
    <3>2. action \in Sent
      BY <2>2 DEF ActionInv, Done
    <3>3. action' \in Sent /\ action'.phase = "sent" /\ action'.entry = e /\ ~action'.current
      BY <2>2, <3>1, <3>2 DEF Sent
    <3>. QED
      BY <2>1, <3>3 DEF ActionInv, ActionTypeOK, PressesAreAdmitted, Reading, Sent, Done
  <2>3. CASE ~(action # NoAction /\ action.phase = "sent" /\ action.entry = e)
    <3>1. action' = action
      BY <1>6, <2>3 DEF OthersAct
    <3>2. PressesAreAdmitted'
      BY <2>1, <2>3, <3>1 DEF ActionInv, ActionTypeOK, PressesAreAdmitted, Admits, Admitted
    <3>. QED
      BY <2>1, <3>1, <3>2 DEF ActionInv, ActionTypeOK, Reading, Sent, Done
  <2>. QED
    BY <2>2, <2>3
<1>. QED
  BY <1>1, <1>2, <1>3, <1>4, <1>5, <1>6 DEF ActionNext

-----------------------------------------------------------------------------
(***************************************************************************)
(* The theorems.                                                           *)
(***************************************************************************)
SubmissionPage == SubmissionInv /\ ListInv

(* The invariant of the submission page holds in every behaviour.          *)
LEMMA SubmissionPageHolds == Spec => []SubmissionPage
<1>1. PagesInit => SubmissionPage
  BY SubmissionStarts, ListInvStarts DEF PagesInit, SubmissionPage
<1>2. ASSUME SubmissionPage, [PagesNext]_pagesVars PROVE SubmissionPage'
  <2>1. CASE SubmissionNext
    BY <1>2, <2>1, SubmissionStep, ListInvStep DEF SubmissionPage
  <2>2. CASE UNCHANGED submissionVars
    <3>1. UNCHANGED <<form, told, sent, rows, upload, objects, attached, list, read, orphaned, behind>>
      BY <2>2 DEF submissionVars, serverRows, images, cached
    <3>. QED
      BY <1>2, <3>1 DEF SubmissionPage, SubmissionInv, SubmissionTypeOK, FormInv, ImagesInv,
         RecordsAreExplained, ImagesAreExplained, SuccessIsOnRecord, ListInv, Accounted, Waits
  <2>. QED
    BY <1>2, <2>1, <2>2, PageSteps
<1>. QED
  BY <1>1, <1>2, PTL DEF Spec

(* The same of the feed.                                                   *)
LEMMA FeedPageHolds == Spec => []FeedInv
<1>1. PagesInit => FeedInv
  BY FeedStarts DEF PagesInit
<1>2. ASSUME FeedInv, [PagesNext]_pagesVars PROVE FeedInv'
  <2>1. CASE FeedNext
    BY <1>2, <2>1, FeedStep
  <2>2. CASE UNCHANGED feedVars
    BY <1>2, <2>2 DEF feedVars, FeedInv, FeedTypeOK, Support, CallsInv, FetchInv, PressedInv,
       CountsAreExplained, InFlight
  <2>. QED
    BY <1>2, <2>1, <2>2, PageSteps
<1>. QED
  BY <1>1, <1>2, PTL DEF Spec

(* The same of the booking form.                                           *)
LEMMA BookingPageHolds == Spec => []BookingInv
<1>1. PagesInit => BookingInv
  BY BookingStarts DEF PagesInit
<1>2. ASSUME BookingInv, [PagesNext]_pagesVars PROVE BookingInv'
  <2>1. CASE BookingNext
    BY <1>2, <2>1, BookingStep
  <2>2. CASE UNCHANGED bookingVars
    BY <1>2, <2>2 DEF bookingVars, readHistory, BookingInv, BookingTypeOK, SlotsInv, SlotRead,
       SelectionIsOffered, Selection
  <2>. QED
    BY <1>2, <2>1, <2>2, PageSteps
<1>. QED
  BY <1>1, <1>2, PTL DEF Spec

(* The same of the directory.                                              *)
LEMMA AdminPageHolds == Spec => []AdminInv
<1>1. PagesInit => AdminInv
  BY AdminStarts DEF PagesInit
<1>2. ASSUME AdminInv, [PagesNext]_pagesVars PROVE AdminInv'
  <2>1. CASE AdminNext
    BY <1>2, <2>1, AdminStep
  <2>2. CASE UNCHANGED adminVars
    BY <1>2, <2>2 DEF adminVars, editHistory, AdminInv, AdminTypeOK, EditsReachTheirRecord
  <2>. QED
    BY <1>2, <2>1, <2>2, PageSteps
<1>. QED
  BY <1>1, <1>2, PTL DEF Spec

(* The same of the pages that act.                                         *)
LEMMA ActionPageHolds == Spec => []ActionInv
<1>1. PagesInit => ActionInv
  BY ActionStarts DEF PagesInit
<1>2. ASSUME ActionInv, [PagesNext]_pagesVars PROVE ActionInv'
  <2>1. CASE ActionNext
    BY <1>2, <2>1, ActionStep
  <2>2. CASE UNCHANGED deskVars
    BY <1>2, <2>2 DEF deskVars, ActionInv, ActionTypeOK, Reading, Sent, Done, DeskStatuses,
       PressesAreAdmitted, Admits, Admitted
  <2>. QED
    BY <1>2, <2>1, <2>2, PageSteps
<1>. QED
  BY <1>1, <1>2, PTL DEF Spec

(* Every variable of every page keeps its type. *)
THEOREM TypeCorrect == Spec => []PagesTypeOK
<1>1. SubmissionPage /\ FeedInv /\ BookingInv /\ AdminInv /\ ActionInv => PagesTypeOK
  BY DEF SubmissionPage, SubmissionInv, FeedInv, BookingInv, AdminInv, ActionInv, PagesTypeOK
<1>. QED
  BY <1>1, SubmissionPageHolds, FeedPageHolds, BookingPageHolds, AdminPageHolds, ActionPageHolds, PTL

(* The submission form: a student who was told of success has the concern  *)
(* and the image on record, and the two stores of an image differ only by  *)
(* an object on its way to its row or left behind by a failed removal or a *)
(* stop of the server, wherever the form, the server and the network give  *)
(* up.                                                                     *)
THEOREM SubmissionsExplained == Spec => []RecordsAreExplained
<1>1. SubmissionPage => RecordsAreExplained
  BY DEF SubmissionPage, SubmissionInv
<1>. QED
  BY <1>1, SubmissionPageHolds, PTL

(* The student's list: when the form rests and no fetch is under way, the  *)
(* list and its total are those on record, or the list was left behind in  *)
(* one of the ways ListIsExplained names.                                  *)
THEOREM ListExplained == Spec => []ListIsExplained
<1>1. SubmissionPage => ListIsExplained
  BY DEF SubmissionPage, ListInv, ListIsExplained, Accounted, Waits
<1>. QED
  BY <1>1, SubmissionPageHolds, PTL

(* The feed: however presses, calls, their failures and fetches overlap,   *)
(* a page counts the student's support of a concern as the server has it   *)
(* once no call for it is under way, or was left to miscount it in one of  *)
(* the ways CountsAreExplained names.                                      *)
THEOREM CountsExplained == Spec => []CountsAreExplained
<1>1. FeedInv => CountsAreExplained
  BY DEF FeedInv
<1>. QED
  BY <1>1, FeedPageHolds, PTL

(* The booking form: what can be sent names a slot on offer, whatever      *)
(* order the answers to its requests come in, unless an answer is still to *)
(* come or the slots have changed since they were read.                    *)
THEOREM SelectionOffered == Spec => []SelectionIsOffered
<1>1. BookingInv => SelectionIsOffered
  BY DEF BookingInv
<1>. QED
  BY <1>1, BookingPageHolds, PTL

(* The directory: values are saved in the record they were edited from, if *)
(* the administrator chose it before, kept to it and it is listed.         *)
THEOREM EditsArrive == Spec => []EditsReachTheirRecord
<1>1. AdminInv => EditsReachTheirRecord
  BY DEF AdminInv
<1>. QED
  BY <1>1, AdminPageHolds, PTL

(* The pages of handlers and students: an operation offered for an entry   *)
(* whose status the page has right, and that nobody else has acted on      *)
(* since, is one the server admits. The two tables agree where they meet.  *)
THEOREM PressesAdmitted == Spec => []PressesAreAdmitted
<1>1. ActionInv => PressesAreAdmitted
  BY DEF ActionInv
<1>. QED
  BY <1>1, ActionPageHolds, PTL
=============================================================================
