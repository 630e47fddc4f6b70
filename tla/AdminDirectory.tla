-------------------------- MODULE AdminDirectory ---------------------------
(***************************************************************************)
(* A page of the administrator's directory (AdminDirectoryPage): the list  *)
(* of offices, departments, faculty members or students, the selected      *)
(* record, the form that edits it, and the calls to create, change or      *)
(* remove a record, one at a time, each followed by reading the list again.*)
(*                                                                         *)
(* The selected record is the one chosen, or the first of the list while   *)
(* none is chosen or the one chosen is not listed. The edit form holds the *)
(* values of the record it was opened on, but is sent to the one selected  *)
(* when it is saved. List and form stay enabled while a call runs.         *)
(*                                                                         *)
(* What the server answers is the subject of modules Directory and         *)
(* Accounts; here it accepts or refuses, and lists any of the records that *)
(* have existed (its pages may be old). Records are numbered in the order  *)
(* of the list.                                                            *)
(*                                                                         *)
(* A definition stands before the one it varies as an error of the code    *)
(* would; the property below notices it.                                   *)
(***************************************************************************)
EXTENDS Naturals

CONSTANT MaxRecords  \* bound: records that ever exist

ASSUME AdminDirectoryAssumption == MaxRecords \in Nat \ {0}

VARIABLES
  known,     \* records that have existed
  page,      \* records listed
  chosen,    \* selectedId, or 0
  edit,      \* the record the edit form was opened on, or 0
  opened,    \* history: was that record the one chosen, then?
  wandered,  \* history: has the administrator chosen or removed since?
  doing,     \* the call under way: what, for which record
  reading    \* is the list being read?

editHistory == <<opened, wandered>>
adminVars == <<known, page, chosen, edit, editHistory, doing, reading>>

-----------------------------------------------------------------------------
Records == 1..MaxRecords

Rest == [op |-> "none", id |-> 0, from |-> 0, excused |-> FALSE]

First(S) == CHOOSE r \in S : \A s \in S : r <= s
Selected == IF chosen \in page THEN chosen ELSE IF page = {} THEN 0 ELSE First(page)

(* The edit form has no claim on the selected record: the administrator    *)
(* never chose the one it was opened on, or has turned to another or       *)
(* removed one since, or the list has lost it.                             *)
Excused == ~opened \/ wandered \/ edit \notin page

AdminTypeOK ==
  /\ known \subseteq Records /\ page \subseteq known
  /\ {chosen, edit} \subseteq known \cup {0}
  /\ {opened, wandered, reading} \subseteq BOOLEAN
  /\ doing \in [op : {"none", "create", "update", "delete", "refresh"},
                id : known \cup {0}, from : known \cup {0}, excused : BOOLEAN]

(* The page as it opens; the list is still to come. *)
AdminInit ==
  /\ known \in SUBSET Records
  /\ page = {} /\ chosen = 0 /\ edit = 0
  /\ opened = FALSE /\ wandered = FALSE
  /\ doing = Rest /\ reading = TRUE

-----------------------------------------------------------------------------
(* The list. A refresh is over when its fetch is. *)

Refreshed == doing' = IF doing.op = "refresh" THEN Rest ELSE doing

RecordsArrive ==
  /\ reading /\ reading' = FALSE
  /\ page' \in SUBSET known
  /\ Refreshed
  /\ UNCHANGED <<known, chosen, edit, editHistory>>

RecordsFail ==
  /\ reading /\ reading' = FALSE
  /\ Refreshed
  /\ UNCHANGED <<known, page, chosen, edit, editHistory>>

(* The network is back. *)
ReadAgain ==
  /\ ~reading /\ reading' = TRUE
  /\ UNCHANGED <<known, page, chosen, edit, editHistory, doing>>

(* Another administrator, a registration, or the seed. *)
OthersCreate ==
  /\ \E r \in Records \ known : known' = known \cup {r}
  /\ UNCHANGED <<page, chosen, edit, editHistory, doing, reading>>

-----------------------------------------------------------------------------
(* The administrator. *)

Choose(r) ==
  /\ r \in page /\ chosen' = r
  /\ wandered' = (wandered \/ r # edit)
  /\ UNCHANGED <<known, page, edit, opened, doing, reading>>

BeginEdit ==
  /\ edit = 0 /\ Selected # 0
  /\ edit' = Selected
  /\ opened' = (chosen = Selected) /\ wandered' = FALSE
  /\ UNCHANGED <<known, page, chosen, doing, reading>>

CancelEdit ==
  /\ edit # 0 /\ edit' = 0
  /\ UNCHANGED <<known, page, chosen, editHistory, doing, reading>>

Begin(op) ==
  /\ doing = Rest
  /\ doing' = [op |-> op, id |-> IF op = "create" THEN 0 ELSE Selected,
               from |-> IF op = "update" THEN edit ELSE 0, excused |-> Excused]
  /\ UNCHANGED <<known, page, chosen, edit, editHistory, reading>>

Create == Begin("create")
Remove == Selected # 0 /\ Begin("delete")
Update == Selected # 0 /\ edit # 0 /\ Begin("update")

(* Success: a removal forgets the choice, but not the edit form; and an    *)
(* update closes the form, whatever it holds by then.                      *)
Refresh ==
  /\ doing' = [Rest EXCEPT !.op = "refresh"]
  /\ reading' = TRUE

CreatedAndForgotten ==
  /\ doing.op = "create"
  /\ \E r \in Records \ known : known' = known \cup {r}
  /\ chosen' = 0
  /\ Refresh
  /\ UNCHANGED <<page, edit, editHistory>>

Created ==
  /\ doing.op = "create"
  /\ \E r \in Records \ known : known' = known \cup {r}
  /\ Refresh
  /\ UNCHANGED <<page, chosen, edit, editHistory>>

Removed ==
  /\ doing.op = "delete"
  /\ chosen' = 0 /\ wandered' = TRUE
  /\ Refresh
  /\ UNCHANGED <<known, page, edit, opened>>

Updated ==
  /\ doing.op = "update"
  /\ edit' = 0
  /\ Refresh
  /\ UNCHANGED <<known, page, chosen, editHistory>>

(* An error, or 15 s without an answer: nothing but the message changes. *)
Refused ==
  /\ doing.op \in {"create", "update", "delete"}
  /\ doing' = Rest
  /\ UNCHANGED <<known, page, chosen, edit, editHistory, reading>>

AdminNext ==
  \/ RecordsArrive \/ RecordsFail \/ ReadAgain \/ OthersCreate
  \/ \E r \in Records : Choose(r)
  \/ BeginEdit \/ CancelEdit \/ Create \/ Remove \/ Update
  \/ Created \/ Removed \/ Updated \/ Refused

-----------------------------------------------------------------------------
(* Properties. *)

(* What is saved goes to the record whose values were edited, whatever is  *)
(* created, read or refused meanwhile, if the administrator had chosen     *)
(* that record and has neither turned to another nor removed one since,    *)
(* and it is listed. In the other cases the edited values are sent to      *)
(* another record, and only the unique names, addresses and numbers among  *)
(* them keep the server from storing them there.                           *)
EditsReachTheirRecord ==
  doing.op = "update" => doing.id = doing.from \/ doing.excused
=============================================================================
