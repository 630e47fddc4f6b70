-------------------------------- MODULE Feed --------------------------------
(***************************************************************************)
(* The community feed: StudentFeed (and upConcern of StudentDataContext),  *)
(* the cached pages of public concerns it patches, one for each search,    *)
(* and concernService.addSupport.                                          *)
(*                                                                         *)
(* A press counts a support at once in every cached page and keeps what    *)
(* the pages were; an error puts back all of it. A success reads nothing   *)
(* again. The concerns pressed are forgotten when the page is left, the    *)
(* cached pages and the calls are not.                                     *)
(*                                                                         *)
(* Of a count only the part is modelled that stands for this student.      *)
(*                                                                         *)
(* Some definitions stand before the one they vary as an error of the code *)
(* would; the properties below notice every such error.                    *)
(***************************************************************************)
EXTENDS Naturals, FiniteSets

CONSTANTS Concerns,    \* public concerns
          OwnConcerns, \* those the student has submitted
          Searches,    \* searches of the feed, each with a page of its own
          MaxPresses   \* bound: presses

ASSUME FeedAssumption == OwnConcerns \subseteq Concerns /\ MaxPresses \in Nat

VARIABLES
  supported,  \* concerns the server has a support of the student for
  pressed,    \* supportedConcernIds of the page
  counts,     \* supports of the student counted in each cached page
  supports,   \* calls under way, with what the pages were at the press
  fetch,      \* the fetch of each page under way
  presses,    \* number of presses
  off         \* history: concerns a page may count wrongly

feedVars == <<supported, pressed, counts, supports, fetch, presses, off>>

-----------------------------------------------------------------------------
Counts == [Concerns -> Nat]
Count(S) == [c \in Concerns |-> IF c \in S THEN 1 ELSE 0]

NoFetch == [asked |-> FALSE, served |-> FALSE, data |-> {}, crossed |-> {}]

FeedTypeOK ==
  /\ supported \subseteq Concerns \ OwnConcerns
  /\ pressed \subseteq Concerns
  /\ counts \in [Searches -> Counts]
  /\ \A k \in supports : /\ k.concern \in Concerns /\ k.number \in 1..presses
                         /\ k.before \in [Searches -> Counts] /\ k.applied \in BOOLEAN
                         /\ k.doubt \in [Searches -> SUBSET Concerns]
                         /\ k.overlapped \subseteq Concerns
  /\ fetch \in [Searches -> [asked : BOOLEAN, served : BOOLEAN,
                             data : SUBSET Concerns, crossed : SUBSET Concerns]]
  /\ presses \in 0..MaxPresses
  /\ off \in [Searches -> SUBSET Concerns]

(* Both pages are cached; some concerns have been supported before. *)
FeedInit ==
  /\ supported \in SUBSET (Concerns \ OwnConcerns)
  /\ pressed = {}
  /\ counts = [s \in Searches |-> Count(supported)]
  /\ supports = {}
  /\ fetch = [s \in Searches |-> NoFetch]
  /\ presses = 0
  /\ off = [s \in Searches |-> {}]

-----------------------------------------------------------------------------
(* A fetch of a page. *)

InFlight == {k.concern : k \in supports}

FetchFeed(s) ==
  /\ ~fetch[s].asked
  /\ fetch' = [fetch EXCEPT ![s] = [NoFetch EXCEPT !.asked = TRUE, !.crossed = InFlight]]
  /\ UNCHANGED <<supported, pressed, counts, supports, presses, off>>

ServeFeed(s) ==
  /\ fetch[s].asked /\ ~fetch[s].served
  /\ fetch' = [fetch EXCEPT ![s].served = TRUE, ![s].data = supported]
  /\ UNCHANGED <<supported, pressed, counts, supports, presses, off>>

FeedArrives(s) ==
  /\ fetch[s].served
  /\ counts' = [counts EXCEPT ![s] = Count(fetch[s].data)]
  /\ off' = [off EXCEPT ![s] = fetch[s].crossed]
  /\ fetch' = [fetch EXCEPT ![s] = NoFetch]
  /\ UNCHANGED <<supported, pressed, supports, presses>>

FeedFails(s) ==
  /\ fetch[s].asked
  /\ fetch' = [fetch EXCEPT ![s] = NoFetch]
  /\ UNCHANGED <<supported, pressed, counts, supports, presses, off>>

-----------------------------------------------------------------------------
(* support of StudentFeed. The button of a concern is disabled while its   *)
(* call runs and once it is supported, as far as this page remembers.      *)

Doubt(S) == off' = [s \in Searches |-> off[s] \cup S]

Recorded(c) ==
  {[k EXCEPT !.overlapped = @ \cup {c}] : k \in supports}
    \cup {[concern |-> c, number |-> presses + 1, before |-> counts, doubt |-> off,
            overlapped |-> InFlight, applied |-> FALSE]}

Crossed(c) == [s \in Searches |-> IF fetch[s].asked THEN [fetch[s] EXCEPT !.crossed = @ \cup {c}]
                                                   ELSE fetch[s]]

(* A concern that the server knows as supported, or as the student's own,  *)
(* is counted once more, and so is one whose call an earlier visit to the  *)
(* page has left running.                                                  *)
Press(c) ==
  /\ c \notin pressed
  /\ presses < MaxPresses /\ presses' = presses + 1
  /\ pressed' = pressed \cup {c}
  /\ supports' = Recorded(c)
  /\ counts' = [s \in Searches |-> [counts[s] EXCEPT ![c] = @ + 1]]
  /\ fetch' = Crossed(c)
  /\ Doubt({c} \cap (supported \cup OwnConcerns \cup InFlight))
  /\ UNCHANGED supported

ApplyOwnSupport(k) ==
  /\ k \in supports /\ ~k.applied
  /\ supported' = supported \cup {k.concern}
  /\ supports' = (supports \ {k}) \cup {[k EXCEPT !.applied = TRUE]}
  /\ UNCHANGED <<pressed, counts, fetch, presses, off>>

(* addSupport: a support of the student's own concern, or a second one,    *)
(* changes nothing and succeeds.                                           *)
ApplySupport(k) ==
  /\ k \in supports /\ ~k.applied
  /\ supported' = supported \cup ({k.concern} \ OwnConcerns)
  /\ supports' = (supports \ {k}) \cup {[k EXCEPT !.applied = TRUE]}
  /\ UNCHANGED <<pressed, counts, fetch, presses, off>>

SupportAnswered(k) ==
  /\ k \in supports /\ k.applied
  /\ supports' = supports \ {k}
  /\ UNCHANGED <<supported, pressed, counts, fetch, presses, off>>

FailWithoutRollback(k) ==
  /\ k \in supports
  /\ supports' = supports \ {k}
  /\ pressed' = pressed \ {k.concern}
  /\ UNCHANGED <<supported, counts, fetch, presses, off>>

(* An error, perhaps after the support was recorded. The pages are again   *)
(* what they were at the press: with the support of a call that was under  *)
(* way then and has failed since, without that of one that began since.    *)
SupportFails(k) ==
  /\ k \in supports
  /\ supports' = supports \ {k}
  /\ counts' = k.before
  /\ pressed' = pressed \ {k.concern}
  /\ off' = [s \in Searches |-> k.doubt[s] \cup k.overlapped
                                \cup (IF k.applied THEN {k.concern} ELSE {})]
  /\ UNCHANGED <<supported, fetch, presses>>

(* The page is left and opened again. *)
Remount ==
  /\ pressed # {} /\ pressed' = {}
  /\ UNCHANGED <<supported, counts, supports, fetch, presses, off>>

FeedNext ==
  \/ \E s \in Searches : FetchFeed(s) \/ ServeFeed(s) \/ FeedArrives(s) \/ FeedFails(s)
  \/ \E c \in Concerns : Press(c)
  \/ \E k \in supports : ApplySupport(k) \/ SupportAnswered(k) \/ SupportFails(k)
  \/ Remount

-----------------------------------------------------------------------------
(* Properties. *)

(* Every cached page counts the student's support of a concern exactly     *)
(* when the server has it, once no call for the concern is under way,      *)
(* unless the page was left to count it wrongly: it was pressed although   *)
(* it was supported, or the student's own; a call failed after the server  *)
(* had recorded the support; the pages were put back to what they were     *)
(* before, or during, another call; or a fetch of the page had crossed a   *)
(* call. A fetch that crosses no call mends it.                            *)
CountsAreExplained ==
  \A s \in Searches, c \in Concerns :
    c \notin InFlight \cup off[s] => counts[s][c] = Count(supported)[c]
=============================================================================
