---------------------------- MODULE ClientPages ----------------------------
(***************************************************************************)
(* The pages of the client that keep state of their own beside the         *)
(* server's: the submission form and the student's list, the community     *)
(* feed, the booking form, the administrator's directory, and the pages on *)
(* which people act on concerns and appointments. One is open in a         *)
(* behaviour; the router of module ClientSession shows one at a time. What *)
(* a page does to the lists of another, which is to have them read again,  *)
(* the fetches of that one allow at any time.                              *)
(***************************************************************************)
EXTENDS Submission, Feed, Booking, AdminDirectory, ActionPages

VARIABLE open  \* the page the behaviour is about

Pages == {"submission", "feed", "booking", "admin", "actions"}

(* Of the pages that stay closed one initial state is enough. *)
PagesInit ==
  /\ open \in Pages
  /\ SubmissionInit /\ FeedInit /\ BookingInit /\ AdminInit /\ ActionInit
  /\ open # "feed" => supported = {}
  /\ open # "booking" => slots = [x \in Targets |-> CHOOSE S \in Schedules : TRUE]
  /\ open # "admin" => known = {}
  /\ open # "actions" => desk = "staffConcerns" /\ standing = [e \in Entries |-> "SUBMITTED"]

PagesNext ==
  /\ UNCHANGED open
  /\ \/ open = "submission" /\ SubmissionNext /\ UNCHANGED <<feedVars, bookingVars, adminVars, deskVars>>
     \/ open = "feed" /\ FeedNext /\ UNCHANGED <<submissionVars, bookingVars, adminVars, deskVars>>
     \/ open = "booking" /\ BookingNext /\ UNCHANGED <<submissionVars, feedVars, adminVars, deskVars>>
     \/ open = "admin" /\ AdminNext /\ UNCHANGED <<submissionVars, feedVars, bookingVars, deskVars>>
     \/ open = "actions" /\ ActionNext /\ UNCHANGED <<submissionVars, feedVars, bookingVars, adminVars>>

pagesVars == <<open, submissionVars, feedVars, bookingVars, adminVars, deskVars>>

Spec == PagesInit /\ [][PagesNext]_pagesVars

-----------------------------------------------------------------------------
(* Every page's variables keep their types. *)
PagesTypeOK == SubmissionTypeOK /\ FeedTypeOK /\ BookingTypeOK /\ AdminTypeOK /\ ActionTypeOK
=============================================================================
