------------------------------ MODULE Accounts ------------------------------
(***************************************************************************)
(* Accounts and their profiles (modules/students, faculty and users), the  *)
(* units they belong to (modules/departments and offices), and the seed    *)
(* script that writes all of them (prisma/seed.ts).                        *)
(*                                                                         *)
(* The API writes an account and its profile in one transaction. The seed  *)
(* script is no transaction: it awaits one upsert after the other, looks   *)
(* for all its units at the same time, may be stopped anywhere and is      *)
(* started again, and an operator may run it beside the API.               *)
(*                                                                         *)
(* One table stands for StudentProfile, FacultyProfile and                 *)
(* OfficeStaffProfile, and one for Department and Office. A role is that   *)
(* of the kind of profile; Directory has the positions of faculty members. *)
(* The administrator's account, which has no profile and is the first one  *)
(* the script writes, is left out.                                         *)
(* Checks that come before a commit are not steps: the keys of the         *)
(* database decide again at the commit.                                    *)
(*                                                                         *)
(* Some definitions stand before the one they vary as an error of the code *)
(* would; the properties below notice every such error.                    *)
(***************************************************************************)
EXTENDS Naturals, Sequences, FiniteSets

CONSTANTS Users, Profiles, Units,     \* ids of rows
          Emails, Numbers,            \* of accounts; studentId and employeeId
          Names, UnitEmails,          \* of departments and offices
          UnitSeeds,                  \* departments and offices of the script
          AccountSeeds,               \* its accounts, in order
          MaxWrites, MaxRuns,         \* bounds: commits of the API, runs of the script
          None                        \* SQL NULL, and no row

Roles == {"OFFICE_STAFF", "FACULTY", "STUDENT"}

(* The lines of the script share no key; only office staff has no number. *)
ASSUME SeedsAssumption ==
  /\ UnitSeeds \in Seq([name : Names, email : UnitEmails])
  /\ \A i, j \in DOMAIN UnitSeeds :
       UnitSeeds[i].name = UnitSeeds[j].name \/ UnitSeeds[i].email = UnitSeeds[j].email => i = j
  /\ AccountSeeds \in Seq([role : Roles, email : Emails, number : Numbers \cup {None},
                           unit : DOMAIN UnitSeeds])
  /\ \A i, j \in DOMAIN AccountSeeds :
       \/ AccountSeeds[i].email = AccountSeeds[j].email
       \/ /\ AccountSeeds[i].role = AccountSeeds[j].role
          /\ AccountSeeds[i].number = AccountSeeds[j].number /\ AccountSeeds[i].number # None
       => i = j
  /\ \A i \in DOMAIN AccountSeeds :
       AccountSeeds[i].number = None <=> AccountSeeds[i].role = "OFFICE_STAFF"

ASSUME IdsAssumption ==
  /\ IsFiniteSet(Profiles) /\ IsFiniteSet(Units)
  /\ MaxWrites \in Nat /\ MaxRuns \in Nat
  /\ None \notin Users \cup Profiles \cup Units \cup UnitEmails \cup Numbers
  /\ {"unread", "absent"} \cap Units = {}

VARIABLES
  unit,      \* Department and Office rows
  user,      \* User rows
  profile,   \* the profiles of users
  script,    \* where the script is, and what it has read
  writes, runs,
  lacking,   \* history: accounts whose profile the script has not yet
             \* written, has moved to another account, or whose role it changed
  rekeyed,   \* history: the API has written names, emails or numbers of the
             \* script into other rows
  disturbed  \* history: the API has committed since the script was started

vars == <<unit, user, profile, script, writes, runs, lacking, rekeyed, disturbed>>

-----------------------------------------------------------------------------
UnitRow == [name : Names, email : UnitEmails \cup {None}]
UserRow == [email : Emails, role : Roles, active : BOOLEAN, password : {"own", "seeded"}]
ProfileRow == [role : Roles, user : Users, number : Numbers \cup {None}, unit : Units]

ASSUME NoneIsNoRow == None \notin UnitRow \cup UserRow \cup ProfileRow

Stopped == [at |-> "stopped"]
Lookups == [DOMAIN UnitSeeds -> Units \cup {"unread", "absent"}]
Found == [DOMAIN UnitSeeds -> Units \cup {None}]
Script ==
  [at : {"stopped", "failed"}]
    \cup [at : {"units"}, seen : Lookups, row : Found]
    \cup [at : {"user"}, line : DOMAIN AccountSeeds, row : Found]
    \cup [at : {"profile"}, line : DOMAIN AccountSeeds, row : Found, user : Users]
    \cup [at : {"validate", "done"}, row : Found]

(* Types of every variable. *)
AccountsTypeOK ==
  /\ unit \in [Units -> UnitRow \cup {None}]
  /\ user \in [Users -> UserRow \cup {None}]
  /\ profile \in [Profiles -> ProfileRow \cup {None}]
  /\ script \in Script
  /\ writes \in 0..MaxWrites /\ runs \in 0..MaxRuns
  /\ lacking \subseteq Users
  /\ rekeyed \in BOOLEAN /\ disturbed \in BOOLEAN

(* A migrated database without rows. *)
Init ==
  /\ unit = [d \in Units |-> None]
  /\ user = [u \in Users |-> None]
  /\ profile = [p \in Profiles |-> None]
  /\ script = Stopped
  /\ writes = 0 /\ runs = 0
  /\ lacking = {}
  /\ rekeyed = FALSE /\ disturbed = FALSE

-----------------------------------------------------------------------------
(* The keys of the tables. *)
Rows(table) == {x \in DOMAIN table : table[x] # None}

WithEmail(e) == {u \in Rows(user) : user[u].email = e}
Numbered(r, n) == {p \in Rows(profile) : profile[p].role = r /\ profile[p].number = n}
Held(r, u) == {p \in Rows(profile) : profile[p].role = r /\ profile[p].user = u}

UnitFree(d, row) ==
  \A o \in Rows(unit) \ {d} :
    unit[o].name # row.name /\ (row.email = None \/ unit[o].email # row.email)
EmailFree(u, e) == WithEmail(e) \subseteq {u}
ProfileFree(p, row) ==
  /\ Held(row.role, row.user) \subseteq {p}
  /\ row.number = None \/ Numbered(row.role, row.number) \subseteq {p}

(* A profile refers to a user and a unit. *)
Refers(row) == user[row.user] # None /\ unit[row.unit] # None

-----------------------------------------------------------------------------
(* The API. *)

Write ==
  /\ writes < MaxWrites
  /\ writes' = writes + 1
  /\ disturbed' = TRUE
  /\ UNCHANGED <<script, runs, lacking>>

SeededKeys(row) ==
  \E i \in DOMAIN UnitSeeds : row.name = UnitSeeds[i].name \/ row.email = UnitSeeds[i].email
SeededNumber(e, r, n) ==
  \E i \in DOMAIN AccountSeeds :
    AccountSeeds[i].email = e \/ (AccountSeeds[i].role = r /\ AccountSeeds[i].number = n)

(* createDepartment, createOffice, updateDepartment, updateOffice.         *)
WriteUnit(d, row) ==
  /\ UnitFree(d, row) /\ unit[d] # row
  /\ unit' = [unit EXCEPT ![d] = row]
  /\ rekeyed' = (rekeyed \/ SeededKeys(row))
  /\ Write
  /\ UNCHANGED <<user, profile>>

(* deleteDepartment, deleteOffice: refused while a profile refers to it.   *)
DeleteUnit(d) ==
  /\ unit[d] # None
  /\ \A p \in Rows(profile) : profile[p].unit # d
  /\ unit' = [unit EXCEPT ![d] = None]
  /\ Write
  /\ UNCHANGED <<user, profile, rekeyed>>

CreateUserOnly(u, p, r, e, n, d) ==
  /\ user[u] = None /\ profile[p] = None /\ unit[d] # None
  /\ EmailFree(u, e) /\ Numbered(r, n) = {}
  /\ user' = [user EXCEPT ![u] = [email |-> e, role |-> r, active |-> TRUE, password |-> "own"]]
  /\ rekeyed' = (rekeyed \/ SeededNumber(e, r, n))
  /\ Write
  /\ UNCHANGED <<unit, profile>>

(* createStudent, also on registration, and createFaculty: the account and *)
(* its profile in one transaction.                                         *)
CreateAccount(u, p, r, e, n, d) ==
  /\ user[u] = None /\ profile[p] = None /\ unit[d] # None
  /\ EmailFree(u, e) /\ Numbered(r, n) = {}
  /\ user' = [user EXCEPT ![u] = [email |-> e, role |-> r, active |-> TRUE, password |-> "own"]]
  /\ profile' = [profile EXCEPT ![p] = [role |-> r, user |-> u, number |-> n, unit |-> d]]
  /\ rekeyed' = (rekeyed \/ SeededNumber(e, r, n))
  /\ Write
  /\ UNCHANGED unit

(* updateStudent, updateFaculty: the account by its profile. A faculty     *)
(* member's role follows the position, if the update has one; otherwise,   *)
(* and for a student, it is left alone. Updates of other fields than the   *)
(* keys and the role are those of Directory.                               *)
UpdateAccount(p, e, n, position) ==
  LET u == profile[p].user
      r == profile[p].role IN
  /\ profile[p] # None /\ r \in {"STUDENT", "FACULTY"}
  /\ EmailFree(u, e) /\ Numbered(r, n) \subseteq {p}
  /\ user[u].email # e \/ profile[p].number # n \/ (r = "FACULTY" /\ position /\ user[u].role # r)
  /\ user' = [user EXCEPT ![u].email = e, ![u].role = IF r = "FACULTY" /\ position THEN r ELSE @]
  /\ profile' = [profile EXCEPT ![p].number = n]
  /\ rekeyed' = (rekeyed \/ SeededNumber(e, r, n))
  /\ Write
  /\ UNCHANGED unit

(* deleteStudent, deleteFaculty: the account becomes inactive.             *)
DeactivateAccount(p) ==
  /\ profile[p] # None /\ profile[p].role \in {"STUDENT", "FACULTY"}
  /\ user' = [user EXCEPT ![profile[p].user].active = FALSE]
  /\ Write
  /\ UNCHANGED <<unit, profile, rekeyed>>

(* updateCurrentUser: any account changes its own email.                   *)
UpdateCurrentUser(u, e) ==
  /\ user[u] # None /\ EmailFree(u, e) /\ user[u].email # e
  /\ user' = [user EXCEPT ![u].email = e]
  /\ rekeyed' = (rekeyed \/ \E i \in DOMAIN AccountSeeds : AccountSeeds[i].email = e)
  /\ Write
  /\ UNCHANGED <<unit, profile>>

-----------------------------------------------------------------------------
(* The script. *)

Running == script.at \in {"units", "user", "profile", "validate"}
Step(s) == script' = s /\ UNCHANGED <<writes, runs, rekeyed, disturbed>>

Start ==
  /\ ~Running /\ runs < MaxRuns
  /\ script' = [at |-> "units", seen |-> [i \in DOMAIN UnitSeeds |-> "unread"],
                row |-> [i \in DOMAIN UnitSeeds |-> None]]
  /\ runs' = runs + 1
  /\ disturbed' = FALSE
  /\ UNCHANGED <<unit, user, profile, writes, lacking, rekeyed>>

(* The process is stopped. *)
Stop ==
  /\ Running
  /\ Step(Stopped)
  /\ UNCHANGED <<unit, user, profile, lacking>>

Fail == Step([at |-> "failed"]) /\ UNCHANGED <<unit, user, profile, lacking>>

(* upsertDepartment, upsertOffice: every line first looks for a row of its *)
(* name or its email, findFirst, and then writes; the lines of a table run *)
(* at the same time.                                                       *)
Alike(i) == {d \in Rows(unit) : unit[d].name = UnitSeeds[i].name \/ unit[d].email = UnitSeeds[i].email}

FindUnit(i, d) ==
  /\ script.at = "units" /\ script.seen[i] = "unread"
  /\ IF Alike(i) = {} THEN d = "absent" ELSE d \in Alike(i)
  /\ Step([script EXCEPT !.seen[i] = d])
  /\ UNCHANGED <<unit, user, profile, lacking>>

UpsertUnit(i, d) ==
  /\ script.at = "units" /\ script.row[i] = None /\ script.seen[i] \in {d, "absent"}
  /\ (script.seen[i] = d) = (unit[d] # None)
  /\ UnitFree(d, UnitSeeds[i])
  /\ unit' = [unit EXCEPT ![d] = UnitSeeds[i]]
  /\ Step([script EXCEPT !.row[i] = d])
  /\ UNCHANGED <<user, profile, lacking>>

(* A key is taken, or the row that was found is gone. *)
FailUnit(i) ==
  /\ script.at = "units" /\ script.row[i] = None
  /\ \/ script.seen[i] = "absent" /\ Alike(i) # {}
     \/ /\ script.seen[i] \in Units
        /\ unit[script.seen[i]] = None \/ ~UnitFree(script.seen[i], UnitSeeds[i])
  /\ Fail

Line(i, found) == IF i \in DOMAIN AccountSeeds THEN [at |-> "user", line |-> i, row |-> found]
                                               ELSE [at |-> "validate", row |-> found]

UnitsDone ==
  /\ script.at = "units" /\ None \notin {script.row[i] : i \in DOMAIN UnitSeeds}
  /\ Step(Line(1, script.row))
  /\ UNCHANGED <<unit, user, profile, lacking>>

UpsertUserOnce(u) ==
  LET s == AccountSeeds[script.line] IN
  /\ script.at = "user"
  /\ IF WithEmail(s.email) = {} THEN user[u] = None ELSE u \in WithEmail(s.email)
  /\ user' = [user EXCEPT ![u] =
       IF @ # None THEN [@ EXCEPT !.role = s.role]
       ELSE [email |-> s.email, role |-> s.role, active |-> TRUE, password |-> "seeded"]]
  /\ lacking' = IF user[u] = None \/ user[u].role # s.role THEN lacking \cup {u} ELSE lacking
  /\ Step([at |-> "profile", line |-> script.line, row |-> script.row, user |-> u])
  /\ UNCHANGED <<unit, profile>>

(* upsertUser: the account of that email is made, or made over. *)
UpsertUser(u) ==
  LET s == AccountSeeds[script.line] IN
  /\ script.at = "user"
  /\ IF WithEmail(s.email) = {} THEN user[u] = None ELSE u \in WithEmail(s.email)
  /\ user' = [user EXCEPT ![u] =
       [email |-> s.email, role |-> s.role, active |-> TRUE, password |-> "seeded"]]
  /\ lacking' = IF user[u] = None \/ user[u].role # s.role THEN lacking \cup {u} ELSE lacking
  /\ Step([at |-> "profile", line |-> script.line, row |-> script.row, user |-> u])
  /\ UNCHANGED <<unit, profile>>

(* The profile is found by its number, that of office staff by its user,   *)
(* and given to the account.                                               *)
Seeded == LET s == AccountSeeds[script.line] IN
  [role |-> s.role, user |-> script.user, number |-> s.number, unit |-> script.row[s.unit]]
Match == IF Seeded.role = "OFFICE_STAFF" THEN Held(Seeded.role, Seeded.user)
                                         ELSE Numbered(Seeded.role, Seeded.number)

UpsertProfile(p) ==
  /\ script.at = "profile"
  /\ IF Match = {} THEN profile[p] = None ELSE p \in Match
  /\ ProfileFree(p, Seeded) /\ Refers(Seeded)
  /\ profile' = [profile EXCEPT ![p] = Seeded]
  /\ lacking' = (lacking \cup {u \in Rows(user) : p \in Held(user[u].role, u)}) \ {script.user}
  /\ Step(Line(script.line + 1, script.row))
  /\ UNCHANGED <<unit, user>>

FailWhenFound ==
  /\ script.at = "profile" /\ Match # {}
  /\ Fail

FailProfile ==
  /\ script.at = "profile"
  /\ \/ ~Refers(Seeded)
     \/ Match = {} /\ Held(Seeded.role, Seeded.user) # {}
     \/ \E p \in Match : ~ProfileFree(p, Seeded)
  /\ Fail

(* validateSeedData counts roles, profiles and units.                      *)
Valid ==
  /\ \A i \in DOMAIN AccountSeeds : \E u \in Rows(user) : user[u].role = AccountSeeds[i].role
  /\ \A r \in Roles :
       Cardinality({p \in Rows(profile) : profile[p].role = r})
         >= Cardinality({i \in DOMAIN AccountSeeds : AccountSeeds[i].role = r})
  /\ Cardinality(Rows(unit)) >= Len(UnitSeeds)
Validate ==
  /\ script.at = "validate"
  /\ Step(IF Valid THEN [at |-> "done", row |-> script.row] ELSE [at |-> "failed"])
  /\ UNCHANGED <<unit, user, profile, lacking>>

-----------------------------------------------------------------------------
Api ==
  \/ \E d \in Units, row \in UnitRow : WriteUnit(d, row)
  \/ \E d \in Units : DeleteUnit(d)
  \/ \E u \in Users, p \in Profiles, r \in {"STUDENT", "FACULTY"}, e \in Emails, n \in Numbers, d \in Units :
       CreateAccount(u, p, r, e, n, d)
  \/ \E p \in Profiles, e \in Emails, n \in Numbers, position \in BOOLEAN :
       UpdateAccount(p, e, n, position)
  \/ \E p \in Profiles : DeactivateAccount(p)
  \/ \E u \in Users, e \in Emails : UpdateCurrentUser(u, e)

Seed ==
  \/ Start \/ Stop
  \/ \E i \in DOMAIN UnitSeeds :
       \/ \E d \in Units \cup {"absent"} : FindUnit(i, d)
       \/ \E d \in Units : UpsertUnit(i, d)
       \/ FailUnit(i)
  \/ UnitsDone
  \/ \E u \in Users : UpsertUser(u)
  \/ \E p \in Profiles : UpsertProfile(p)
  \/ FailProfile \/ Validate

Next == Api \/ Seed

Spec == Init /\ [][Next]_vars
-----------------------------------------------------------------------------
(* Properties. *)

(* An account has a profile of its role, whatever the API did and wherever *)
(* the script was stopped, unless the script is the reason: it has made or *)
(* made over the account and has not come to its profile, or it has given  *)
(* the profile's number to the account of another email.                   *)
ProfilesAreExplained ==
  \A u \in Rows(user) \ lacking : Held(user[u].role, u) # {}

(* A run of the script that reports success, and beside which the API      *)
(* committed nothing, has established every line, from whatever earlier    *)
(* runs, their interruptions and the API had left: accounts are active,    *)
(* with the seeded role and password and with their profile. Only the      *)
(* lines of two units that both found the same row may leave one missing.  *)
AccountHolds(s, row) ==
  \E u \in Users :
    /\ user[u] = [email |-> s.email, role |-> s.role, active |-> TRUE, password |-> "seeded"]
    /\ \E p \in Profiles :
         profile[p] = [role |-> s.role, user |-> u, number |-> s.number, unit |-> row[s.unit]]
SuccessIsSeeded ==
  script.at = "done" /\ ~disturbed =>
    /\ \A i \in DOMAIN AccountSeeds : AccountHolds(AccountSeeds[i], script.row)
    /\ \A i \in DOMAIN UnitSeeds :
         \/ unit[script.row[i]] = UnitSeeds[i]
         \/ \E j \in DOMAIN UnitSeeds \ {i} : script.row[j] = script.row[i]

(* Interruptions alone never keep the script from being run again: it      *)
(* fails only when the API has given a key of the script to another row,   *)
(* has taken it from its own, or commits while the script runs.            *)
FailsOnlyAfterEdit == script.at = "failed" => rekeyed \/ disturbed
=============================================================================
