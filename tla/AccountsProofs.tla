--------------------------- MODULE AccountsProofs ---------------------------
(***************************************************************************)
(* Theorems about Accounts, for any rows, keys and numbers of commits and  *)
(* runs, and for any lines of the script that share no key. The inductive  *)
(* invariant has four parts: what the keys of the tables and the history   *)
(* of the script say of the rows (Tables); what the API leaves of the      *)
(* script's keys while it writes none of them (UnitKeysKept and            *)
(* AccountKeysKept); what a run beside which the API commits nothing has   *)
(* established so far (Alone); and why such a run does not fail either     *)
(* (Undisturbed).                                                          *)
(***************************************************************************)
EXTENDS Accounts, FiniteSetTheorems, SequenceTheorems, TLAPS

-----------------------------------------------------------------------------
(* All units are written, and the script knows their rows. *)
HasRows == script.at \in {"user", "profile", "validate", "done"}

(* The types, and no unit is missing once the units are done. *)
TypeInv ==
  /\ AccountsTypeOK
  /\ HasRows => script.row \in [DOMAIN UnitSeeds -> Units]

(* Foreign keys: no profile refers to a row that is gone, and accounts are *)
(* never deleted.                                                          *)
Referred ==
  /\ \A p \in Profiles : profile[p] # None => Refers(profile[p])
  /\ script.at = "profile" => user[script.user] # None

(* Unique keys of units: the name, and the email where there is one. *)
UnitKeys ==
  \A d, o \in Units : unit[d] # None /\ unit[o] # None /\ d # o =>
    unit[d].name # unit[o].name /\ (unit[d].email = None \/ unit[d].email # unit[o].email)

(* Unique keys of profiles: the user, and the number where there is one. *)
ProfileKeys ==
  \A p, q \in Profiles :
    profile[p] # None /\ profile[q] # None /\ p # q /\ profile[p].role = profile[q].role =>
      /\ profile[p].user # profile[q].user
      /\ profile[p].number = None \/ profile[p].number # profile[q].number

(* The account has a profile of its role. *)
HasProfile(u) ==
  \E p \in Profiles : profile[p] # None /\ profile[p].role = user[u].role /\ profile[p].user = u

(* ProfilesAreExplained, and the account that the script is about to give  *)
(* a profile is the only one it may still owe a role.                      *)
Explained ==
  /\ \A u \in Users : user[u] # None => u \in lacking \/ HasProfile(u)
  /\ script.at = "profile" =>
       user[script.user].role = AccountSeeds[script.line].role \/ HasProfile(script.user)

(* An account of the script has the email. *)
IsSeeded(e) == \E i \in DOMAIN AccountSeeds : AccountSeeds[i].email = e

(* Until the API writes a key of the script, a unit with the name or the   *)
(* email of a line is the one that the line wrote, ...                     *)
UnitKeysKept ==
  ~rekeyed => \A d \in Units, i \in DOMAIN UnitSeeds :
    /\ unit[d] # None
    /\ unit[d].name = UnitSeeds[i].name \/ unit[d].email = UnitSeeds[i].email
    => unit[d] = UnitSeeds[i]

(* ... an account with the email of a line has no profile but that of the  *)
(* line, and the account that the script has found or made has the email   *)
(* of its line. An account whose email the API has changed since has none  *)
(* of a line.                                                              *)
AccountKeysKept ==
  ~rekeyed =>
    /\ \A p \in Profiles, i \in DOMAIN AccountSeeds :
         profile[p] # None /\ user[profile[p].user].email = AccountSeeds[i].email =>
           profile[p].role = AccountSeeds[i].role /\ profile[p].number = AccountSeeds[i].number
    /\ script.at = "profile" =>
         \/ user[script.user].email = AccountSeeds[script.line].email
         \/ ~IsSeeded(user[script.user].email)

(* The account that a line writes. *)
SeededUser(s) == [email |-> s.email, role |-> s.role, active |-> TRUE, password |-> "seeded"]

(* Of the run: a unit it wrote stands as its line says, or another line    *)
(* has written the same row after it.                                      *)
SeededUnits ==
  HasRows \/ script.at = "units" => \A i \in DOMAIN UnitSeeds :
    \/ script.row[i] = None \/ unit[script.row[i]] = UnitSeeds[i]
    \/ \E j \in DOMAIN UnitSeeds \ {i} : script.row[j] = script.row[i]

(* The lines of accounts that the run has passed hold, and so does the     *)
(* half of the line that it is at.                                         *)
SeededAccounts ==
  /\ script.at \in {"user", "profile"} =>
       \A i \in DOMAIN AccountSeeds : i < script.line => AccountHolds(AccountSeeds[i], script.row)
  /\ script.at = "profile" => user[script.user] = SeededUser(AccountSeeds[script.line])
  /\ script.at \in {"validate", "done"} =>
       \A i \in DOMAIN AccountSeeds : AccountHolds(AccountSeeds[i], script.row)

(* With every key in its place a line of units finds its own row or none,  *)
(* and no other line writes that one.                                      *)
OwnUnits ==
  /\ HasRows \/ script.at = "units" => \A i \in DOMAIN UnitSeeds :
       script.row[i] = None \/ unit[script.row[i]] = UnitSeeds[i]
  /\ script.at = "units" => \A i \in DOMAIN UnitSeeds : script.row[i] = None =>
       /\ script.seen[i] = "absent" => Alike(i) = {}
       /\ script.seen[i] \in Units => unit[script.seen[i]] = UnitSeeds[i]

(* What the run has established, while the API commits nothing. *)
Alone == ~disturbed => SeededUnits /\ SeededAccounts

(* Why the run does not fail, while the API has moved no key. *)
Undisturbed == ~rekeyed /\ ~disturbed => OwnUnits /\ script.at # "failed"

(* What holds of the tables whatever the API and the script do. *)
Tables == TypeInv /\ Referred /\ UnitKeys /\ ProfileKeys /\ Explained

(* The inductive invariant. *)
Inv == Tables /\ UnitKeysKept /\ AccountKeysKept /\ Alone /\ Undisturbed

-----------------------------------------------------------------------------
(* A line of units is a row. *)
LEMMA UnitSeedTyped ==
  ASSUME NEW i \in DOMAIN UnitSeeds
  PROVE  /\ UnitSeeds[i] \in [name : Names, email : UnitEmails]
         /\ UnitSeeds[i] \in UnitRow /\ UnitSeeds[i] # None /\ UnitSeeds[i].email # None
<1>1. UnitSeeds[i] \in [name : Names, email : UnitEmails]
  <2>1. UnitSeeds \in Seq([name : Names, email : UnitEmails])
    BY SeedsAssumption
  <2>. QED
    BY <2>1, ElementOfSeq, LenProperties
<1>2. UnitSeeds[i] \in UnitRow
  BY <1>1 DEF UnitRow
<1>. QED
  BY <1>1, <1>2, NoneIsNoRow, IdsAssumption

(* The parts of a line of accounts. *)
LEMMA AccountSeedTyped ==
  ASSUME NEW i \in DOMAIN AccountSeeds
  PROVE  /\ AccountSeeds[i].role \in Roles /\ AccountSeeds[i].email \in Emails
         /\ AccountSeeds[i].number \in Numbers \cup {None} /\ AccountSeeds[i].unit \in DOMAIN UnitSeeds
<1>1. AccountSeeds \in Seq([role : Roles, email : Emails, number : Numbers \cup {None},
                           unit : DOMAIN UnitSeeds])
  BY SeedsAssumption
<1>2. AccountSeeds[i] \in [role : Roles, email : Emails, number : Numbers \cup {None},
                          unit : DOMAIN UnitSeeds]
  BY <1>1, ElementOfSeq, LenProperties
<1>. QED
  BY <1>2

(* The parts of a row, and that a row is one. *)
LEMMA RowTyped ==
  /\ \A r \in UnitRow : r # None /\ r.name \in Names /\ r.email \in UnitEmails \cup {None}
  /\ \A r \in UserRow : r # None /\ r.email \in Emails /\ r.role \in Roles
  /\ \A r \in ProfileRow : /\ r # None /\ r.role \in Roles /\ r.user \in Users
                           /\ r.number \in Numbers \cup {None} /\ r.unit \in Units
BY NoneIsNoRow DEF UnitRow, UserRow, ProfileRow

(* What the script remembers, at each place. *)
LEMMA ScriptTyped ==
  ASSUME AccountsTypeOK
  PROVE  /\ script.at \in {"stopped", "failed", "units", "user", "profile", "validate", "done"}
         /\ script.at = "units" =>
              script.seen \in Lookups /\ script.row \in Found
              /\ script = [at |-> "units", seen |-> script.seen, row |-> script.row]
         /\ script.at \in {"user", "profile"} => script.line \in DOMAIN AccountSeeds
         /\ script.at = "profile" => script.user \in Users
BY DEF AccountsTypeOK, Script

(* The place of the script before line i, or after the last one. *)
LEMMA LineTyped ==
  ASSUME NEW i \in Nat, NEW found \in [DOMAIN UnitSeeds -> Units]
  PROVE  /\ Line(i, found) \in Script /\ Line(i, found).row = found
         /\ Line(i, found).at \in {"user", "validate"}
         /\ Line(i, found).at = "user" => i \in DOMAIN AccountSeeds /\ Line(i, found).line = i
         /\ Line(i, found).at = "validate" => i \notin DOMAIN AccountSeeds
<1>1. found \in Found
  BY DEF Found
<1>2. CASE i \in DOMAIN AccountSeeds
  BY <1>1, <1>2 DEF Line, Script
<1>3. CASE i \notin DOMAIN AccountSeeds
  BY <1>1, <1>3 DEF Line, Script
<1>. QED
  BY <1>2, <1>3

(* The migrated database satisfies the invariant. *)
LEMMA Starts == Init => Inv
<1>. SUFFICES ASSUME Init PROVE Inv
  OBVIOUS
<1>1. script \in Script
  BY DEF Init, Stopped, Script
<1>2. /\ script.at = "stopped" /\ ~disturbed /\ ~rekeyed
      /\ \A d \in Units : unit[d] = None
      /\ \A u \in Users : user[u] = None
      /\ \A p \in Profiles : profile[p] = None
  BY DEF Init, Stopped
<1>3. TypeInv
  <2>1. /\ unit \in [Units -> UnitRow \cup {None}]
        /\ user \in [Users -> UserRow \cup {None}]
        /\ profile \in [Profiles -> ProfileRow \cup {None}]
    BY DEF Init
  <2>2. writes \in 0..MaxWrites /\ runs \in 0..MaxRuns
    BY IdsAssumption DEF Init
  <2>3. lacking \subseteq Users /\ rekeyed \in BOOLEAN /\ disturbed \in BOOLEAN
    BY DEF Init
  <2>. QED
    BY <1>1, <1>2, <2>1, <2>2, <2>3 DEF TypeInv, AccountsTypeOK, HasRows
<1>4. Referred /\ UnitKeys /\ ProfileKeys /\ Explained
  BY <1>2 DEF Referred, UnitKeys, ProfileKeys, Explained
<1>5. UnitKeysKept /\ AccountKeysKept /\ Alone /\ Undisturbed
  BY <1>2 DEF UnitKeysKept, AccountKeysKept, Alone, Undisturbed, SeededUnits, SeededAccounts, OwnUnits, HasRows
<1>. QED
  BY <1>3, <1>4, <1>5 DEF Inv, Tables

-----------------------------------------------------------------------------
(***************************************************************************)
(* The API.                                                                *)
(***************************************************************************)
(* A commit of the API leaves the script where it is, and from then on     *)
(* nothing is promised of its run.                                         *)
LEMMA WriteFrame ==
  ASSUME Inv, Write
  PROVE  /\ writes' \in 0..MaxWrites /\ runs' \in 0..MaxRuns
         /\ UNCHANGED <<script, lacking>>
         /\ script' \in Script /\ lacking' \subseteq Users /\ disturbed' \in BOOLEAN
         /\ (HasRows => script.row \in [DOMAIN UnitSeeds -> Units])'
         /\ Alone' /\ Undisturbed'
<1>1. /\ writes < MaxWrites /\ writes' = writes + 1 /\ disturbed' = TRUE
      /\ UNCHANGED <<script, runs, lacking>>
  BY DEF Write
<1>2. writes' \in 0..MaxWrites
  BY <1>1, IdsAssumption DEF Inv, Tables, TypeInv, AccountsTypeOK
<1>3. /\ runs \in 0..MaxRuns /\ script \in Script /\ lacking \subseteq Users
      /\ HasRows => script.row \in [DOMAIN UnitSeeds -> Units]
  BY DEF Inv, Tables, TypeInv, AccountsTypeOK
<1>4. Alone' /\ Undisturbed'
  BY <1>1 DEF Alone, Undisturbed
<1>. QED
  BY <1>1, <1>2, <1>3, <1>4 DEF HasRows

(* A unit is written with free keys: any other one keeps its own. If it is *)
(* one of a line, rekeyed is set.                                          *)
LEMMA WriteUnitStep ==
  ASSUME Inv, NEW d \in Units, NEW row \in UnitRow, WriteUnit(d, row)
  PROVE  Inv'
<1>1. /\ UnitFree(d, row) /\ unit' = [unit EXCEPT ![d] = row]
      /\ rekeyed' = (rekeyed \/ SeededKeys(row)) /\ Write
      /\ UNCHANGED <<user, profile>>
  BY DEF WriteUnit
<1>2. /\ unit \in [Units -> UnitRow \cup {None}]
      /\ user \in [Users -> UserRow \cup {None}]
      /\ profile \in [Profiles -> ProfileRow \cup {None}]
  BY DEF Inv, Tables, TypeInv, AccountsTypeOK
<1>3. /\ \A o \in Units : unit'[o] = IF o = d THEN row ELSE unit[o]
      /\ row # None
  BY <1>1, <1>2, RowTyped
<1>4. UNCHANGED script
  BY <1>1, WriteFrame
<1>5. TypeInv'
  <2>1. unit' \in [Units -> UnitRow \cup {None}]
    BY <1>1, <1>2
  <2>2. rekeyed' \in BOOLEAN
    BY <1>1
  <2>. QED
    BY <1>1, <1>2, <2>1, <2>2, WriteFrame DEF TypeInv, AccountsTypeOK
<1>6. Referred'
  <2>1. \A p \in Profiles : profile[p] # None => profile[p].unit \in Units
    BY <1>2, RowTyped
  <2>. QED
    BY <1>1, <1>3, <1>4, <2>1 DEF Inv, Tables, Referred, Refers
<1>7. UnitKeys'
  <2>1. \A o \in Units \ {d} : unit[o] # None =>
          unit[o].name # row.name /\ (row.email = None \/ unit[o].email # row.email)
    BY <1>1, <1>2 DEF UnitFree, Rows
  <2>. QED
    BY <1>3, <2>1 DEF Inv, Tables, UnitKeys
<1>8. ProfileKeys' /\ Explained'
  BY <1>1, <1>4, WriteFrame DEF Inv, Tables, ProfileKeys, Explained, HasProfile
<1>9. UnitKeysKept'
  <2>. SUFFICES ASSUME ~rekeyed' PROVE UnitKeysKept'
    BY DEF UnitKeysKept
  <2>1. ~rekeyed /\ ~SeededKeys(row)
    BY <1>1
  <2>2. \A i \in DOMAIN UnitSeeds : row.name # UnitSeeds[i].name /\ row.email # UnitSeeds[i].email
    BY <2>1 DEF SeededKeys
  <2>. QED
    BY <1>3, <2>1, <2>2 DEF Inv, UnitKeysKept
<1>10. AccountKeysKept'
  BY <1>1, <1>4 DEF Inv, AccountKeysKept
<1>. QED
  BY <1>1, <1>5, <1>6, <1>7, <1>8, <1>9, <1>10, WriteFrame DEF Inv, Tables

(* A unit that no profile refers to is deleted. *)
LEMMA DeleteUnitStep ==
  ASSUME Inv, NEW d \in Units, DeleteUnit(d)
  PROVE  Inv'
<1>1. /\ \A p \in Rows(profile) : profile[p].unit # d
      /\ unit' = [unit EXCEPT ![d] = None] /\ Write
      /\ UNCHANGED <<user, profile, rekeyed>>
  BY DEF DeleteUnit
<1>2. /\ unit \in [Units -> UnitRow \cup {None}]
      /\ user \in [Users -> UserRow \cup {None}]
      /\ profile \in [Profiles -> ProfileRow \cup {None}] /\ rekeyed \in BOOLEAN
  BY DEF Inv, Tables, TypeInv, AccountsTypeOK
<1>3. \A o \in Units : unit'[o] = IF o = d THEN None ELSE unit[o]
  BY <1>1, <1>2
<1>4. UNCHANGED script
  BY <1>1, WriteFrame
<1>5. TypeInv'
  <2>1. unit' \in [Units -> UnitRow \cup {None}]
    BY <1>1, <1>2
  <2>. QED
    BY <1>1, <1>2, <2>1, WriteFrame DEF TypeInv, AccountsTypeOK
<1>6. Referred'
  <2>1. \A p \in Profiles : profile[p] # None => profile[p].unit \in Units \ {d}
    BY <1>1, <1>2, RowTyped DEF Rows
  <2>. QED
    BY <1>1, <1>3, <1>4, <2>1 DEF Inv, Tables, Referred, Refers
<1>7. UnitKeys'
  BY <1>3 DEF Inv, Tables, UnitKeys
<1>8. ProfileKeys' /\ Explained'
  BY <1>1, <1>4, WriteFrame DEF Inv, Tables, ProfileKeys, Explained, HasProfile
<1>9. UnitKeysKept'
  BY <1>1, <1>3 DEF Inv, UnitKeysKept
<1>10. AccountKeysKept'
  BY <1>1, <1>4 DEF Inv, AccountKeysKept
<1>. QED
  BY <1>1, <1>5, <1>6, <1>7, <1>8, <1>9, <1>10, WriteFrame DEF Inv, Tables

(* An account that the API writes: its role has a profile, and under       *)
(* ~rekeyed neither its email nor its number is one of the script's.       *)
LEMMA CreateAccountStep ==
  ASSUME Inv, NEW u \in Users, NEW p \in Profiles, NEW r \in {"STUDENT", "FACULTY"},
         NEW e \in Emails, NEW n \in Numbers, NEW d \in Units,
         CreateAccount(u, p, r, e, n, d)
  PROVE  Inv'
<1>. DEFINE who == [email |-> e, role |-> r, active |-> TRUE, password |-> "own"]
            what == [role |-> r, user |-> u, number |-> n, unit |-> d]
<1>1. /\ user[u] = None /\ profile[p] = None /\ unit[d] # None
      /\ Numbered(r, n) = {}
      /\ user' = [user EXCEPT ![u] = who] /\ profile' = [profile EXCEPT ![p] = what]
      /\ rekeyed' = (rekeyed \/ SeededNumber(e, r, n)) /\ Write
      /\ UNCHANGED unit
  BY DEF CreateAccount
<1>2. /\ unit \in [Units -> UnitRow \cup {None}]
      /\ user \in [Users -> UserRow \cup {None}]
      /\ profile \in [Profiles -> ProfileRow \cup {None}]
  BY DEF Inv, Tables, TypeInv, AccountsTypeOK
<1>3. /\ who \in UserRow /\ who.email = e /\ who.role = r
      /\ what \in ProfileRow /\ what.role = r /\ what.user = u /\ what.number = n /\ what.unit = d
  BY DEF UserRow, ProfileRow, Roles
<1>. HIDE DEF who, what
<1>4. /\ \A v \in Users : user'[v] = IF v = u THEN who ELSE user[v]
      /\ \A q \in Profiles : profile'[q] = IF q = p THEN what ELSE profile[q]
      /\ who # None /\ what # None
  BY <1>1, <1>2, <1>3, RowTyped
<1>5. UNCHANGED <<script, lacking>>
  BY <1>1, WriteFrame
<1>6. TypeInv'
  <2>1. user' \in [Users -> UserRow \cup {None}] /\ profile' \in [Profiles -> ProfileRow \cup {None}]
    BY <1>1, <1>2, <1>3
  <2>2. rekeyed' \in BOOLEAN
    BY <1>1
  <2>. QED
    BY <1>1, <1>2, <2>1, <2>2, WriteFrame DEF TypeInv, AccountsTypeOK
<1>7. \A q \in Profiles : profile[q] # None =>
         /\ profile[q].user \in Users \ {u} /\ profile[q].unit \in Units
         /\ user'[profile[q].user] = user[profile[q].user]
  BY <1>1, <1>2, <1>4, RowTyped DEF Inv, Tables, Referred, Refers
<1>8. script.at = "profile" => script.user \in Users \ {u} /\ user'[script.user] = user[script.user]
  BY <1>1, <1>4, ScriptTyped DEF Inv, Tables, TypeInv, Referred
<1>9. Referred'
  BY <1>1, <1>3, <1>4, <1>5, <1>7, <1>8 DEF Inv, Tables, Referred, Refers
<1>10. UnitKeys' /\ UnitKeysKept'
  BY <1>1 DEF Inv, Tables, UnitKeys, UnitKeysKept
<1>11. ProfileKeys'
  <2>1. \A q \in Profiles : profile[q] # None /\ profile[q].role = r => profile[q].number # n
    BY <1>1, <1>2 DEF Numbered, Rows
  <2>. QED
    BY <1>3, <1>4, <1>7, <2>1 DEF Inv, Tables, ProfileKeys
<1>12. Explained'
  <2>1. \A v \in Users : v # u /\ HasProfile(v) => HasProfile(v)'
    BY <1>1, <1>4 DEF HasProfile
  <2>2. HasProfile(u)'
    BY <1>3, <1>4 DEF HasProfile
  <2>. QED
    BY <1>4, <1>5, <1>8, <2>1, <2>2 DEF Inv, Tables, Explained
<1>13. AccountKeysKept'
  <2>. SUFFICES ASSUME ~rekeyed' PROVE AccountKeysKept'
    BY DEF AccountKeysKept
  <2>1. ~rekeyed /\ ~IsSeeded(e)
    BY <1>1 DEF SeededNumber, IsSeeded
  <2>2. ASSUME NEW q \in Profiles, NEW i \in DOMAIN AccountSeeds, profile'[q] # None,
               user'[profile'[q].user].email = AccountSeeds[i].email
        PROVE  profile'[q].role = AccountSeeds[i].role /\ profile'[q].number = AccountSeeds[i].number
    <3>1. q # p
      BY <1>3, <1>4, <2>1, <2>2 DEF IsSeeded
    <3>. QED
      BY <1>4, <1>7, <2>1, <2>2, <3>1 DEF Inv, AccountKeysKept
  <2>3. script'.at = "profile" =>
          \/ user'[script'.user].email = AccountSeeds[script'.line].email
          \/ ~IsSeeded(user'[script'.user].email)
    BY <1>5, <1>8, <2>1 DEF Inv, AccountKeysKept
  <2>. QED
    BY <2>2, <2>3 DEF AccountKeysKept, IsSeeded
<1>. QED
  BY <1>1, <1>6, <1>9, <1>10, <1>11, <1>12, <1>13, WriteFrame DEF Inv, Tables

(* The email and the number of an account change, of a faculty member also *)
(* the role.                                                               *)
LEMMA UpdateAccountStep ==
  ASSUME Inv, NEW p \in Profiles, NEW e \in Emails, NEW n \in Numbers,
         NEW position \in BOOLEAN, UpdateAccount(p, e, n, position)
  PROVE  Inv'
<1>0. PICK u \in Users, r \in Roles : profile[p].user = u /\ profile[p].role = r
  BY RowTyped DEF UpdateAccount, Inv, Tables, TypeInv, AccountsTypeOK
<1>. DEFINE who == [user[u] EXCEPT !.email = e, !.role = IF r = "FACULTY" /\ position THEN r ELSE @]
            what == [profile[p] EXCEPT !.number = n]
<1>1. /\ profile[p] # None /\ Numbered(r, n) \subseteq {p}
      /\ user' = [user EXCEPT ![u].email = e, ![u].role = IF r = "FACULTY" /\ position THEN r ELSE @]
      /\ profile' = [profile EXCEPT ![p].number = n]
      /\ rekeyed' = (rekeyed \/ SeededNumber(e, r, n)) /\ Write
      /\ UNCHANGED unit
  BY <1>0 DEF UpdateAccount
<1>2. /\ unit \in [Units -> UnitRow \cup {None}]
      /\ user \in [Users -> UserRow \cup {None}]
      /\ profile \in [Profiles -> ProfileRow \cup {None}]
  BY DEF Inv, Tables, TypeInv, AccountsTypeOK
<1>3. /\ profile[p] \in ProfileRow
      /\ user[u] # None /\ user[u] \in UserRow
  BY <1>0, <1>1, <1>2, RowTyped DEF Inv, Tables, Referred, Refers
<1>4. /\ who \in UserRow /\ who.email = e
      /\ r = "FACULTY" /\ position => who.role = r
      /\ r # "FACULTY" \/ ~position => who.role = user[u].role
  BY <1>3 DEF UserRow
<1>5. /\ what \in ProfileRow /\ what.role = r /\ what.user = u
      /\ what.number = n /\ what.unit = profile[p].unit
  BY <1>0, <1>3 DEF ProfileRow
<1>6. user' = [user EXCEPT ![u] = who] /\ profile' = [profile EXCEPT ![p] = what]
  BY <1>1, <1>2, <1>3
<1>. HIDE DEF who, what
<1>7. /\ \A v \in Users : user'[v] = IF v = u THEN who ELSE user[v]
      /\ \A q \in Profiles : profile'[q] = IF q = p THEN what ELSE profile[q]
      /\ who # None /\ what # None
  BY <1>2, <1>3, <1>4, <1>5, <1>6, RowTyped
<1>8. UNCHANGED <<script, lacking>>
  BY <1>1, WriteFrame
<1>9. TypeInv'
  <2>1. user' \in [Users -> UserRow \cup {None}] /\ profile' \in [Profiles -> ProfileRow \cup {None}]
    BY <1>2, <1>4, <1>5, <1>6
  <2>2. rekeyed' \in BOOLEAN
    BY <1>1
  <2>. QED
    BY <1>1, <1>2, <2>1, <2>2, WriteFrame DEF TypeInv, AccountsTypeOK
<1>10. \A q \in Profiles : profile[q] # None =>
         /\ profile[q].user \in Users /\ profile[q].unit \in Units
         /\ user[profile[q].user] # None /\ unit[profile[q].unit] # None
  BY <1>2, RowTyped DEF Inv, Tables, Referred, Refers
<1>11. script.at = "profile" => script.user \in Users /\ user[script.user] # None
  BY ScriptTyped DEF Inv, Tables, TypeInv, Referred
<1>12. Referred'
  <2>1. \A q \in Profiles : profile'[q] # None =>
          user'[profile'[q].user] # None /\ unit'[profile'[q].unit] # None
    <3>1. \A v \in Users : user[v] # None => user'[v] # None
      BY <1>7
    <3>2. profile'[p].user = u /\ profile'[p].unit = profile[p].unit
      BY <1>5, <1>7
    <3>3. ASSUME NEW q \in Profiles, profile'[q] # None
          PROVE  user'[profile'[q].user] # None /\ unit'[profile'[q].unit] # None
      <4>1. CASE q = p
        BY <1>0, <1>1, <1>3, <1>10, <3>1, <3>2, <4>1
      <4>2. CASE q # p
        BY <1>1, <1>7, <1>10, <3>1, <3>3, <4>2
      <4>. QED
        BY <4>1, <4>2
    <3>. QED
      BY <3>3
  <2>2. script'.at = "profile" => user'[script'.user] # None
    BY <1>7, <1>8, <1>11
  <2>. QED
    BY <2>1, <2>2 DEF Referred, Refers
<1>13. UnitKeys' /\ UnitKeysKept'
  BY <1>1 DEF Inv, Tables, UnitKeys, UnitKeysKept
<1>14. ProfileKeys'
  <2>1. \A q \in Profiles \ {p} : profile[q] # None /\ profile[q].role = r => profile[q].number # n
    BY <1>1, <1>2 DEF Numbered, Rows
  <2>. QED
    BY <1>0, <1>1, <1>5, <1>7, <2>1 DEF Inv, Tables, ProfileKeys
<1>15. Explained'
  <2>1. \A v \in Users \ {u} : HasProfile(v) => HasProfile(v)'
    BY <1>0, <1>1, <1>5, <1>7 DEF HasProfile
  <2>2. r = "FACULTY" /\ position => HasProfile(u)'
    BY <1>3, <1>4, <1>5, <1>7 DEF HasProfile
  <2>3. r # "FACULTY" \/ ~position => user'[u].role = user[u].role /\ (HasProfile(u) => HasProfile(u)')
    <3>1. r # "FACULTY" \/ ~position => user'[u].role = user[u].role
      BY <1>4, <1>7
    <3>2. \A q \in Profiles : profile[q] # None =>
            /\ profile'[q] # None /\ profile'[q].role = profile[q].role
            /\ profile'[q].user = profile[q].user
      BY <1>0, <1>5, <1>7
    <3>. QED
      BY <3>1, <3>2 DEF HasProfile
  <2>4. \A v \in Users : \/ HasProfile(v)'
                         \/ user'[v].role = user[v].role /\ ~HasProfile(v)
    BY <1>7, <2>1, <2>2, <2>3
  <2>5. \A v \in Users : user'[v] # None => user[v] # None
    BY <1>3, <1>7
  <2>. QED
    BY <1>8, <1>11, <2>4, <2>5 DEF Inv, Tables, Explained
<1>16. AccountKeysKept'
  <2>. SUFFICES ASSUME ~rekeyed' PROVE AccountKeysKept'
    BY DEF AccountKeysKept
  <2>1. ~rekeyed /\ ~IsSeeded(e)
    BY <1>1 DEF SeededNumber, IsSeeded
  <2>2. ASSUME NEW q \in Profiles, NEW i \in DOMAIN AccountSeeds, profile'[q] # None,
               user'[profile'[q].user].email = AccountSeeds[i].email
        PROVE  profile'[q].role = AccountSeeds[i].role /\ profile'[q].number = AccountSeeds[i].number
    <3>1. profile'[q].user # u
      BY <1>3, <1>4, <1>7, <2>1, <2>2 DEF IsSeeded
    <3>2. q # p /\ profile'[q] = profile[q]
      BY <1>5, <1>7, <3>1
    <3>3. user'[profile[q].user] = user[profile[q].user]
      BY <1>7, <1>10, <2>2, <3>1, <3>2
    <3>. QED
      BY <2>1, <2>2, <3>2, <3>3 DEF Inv, AccountKeysKept
  <2>3. script'.at = "profile" =>
          \/ user'[script'.user].email = AccountSeeds[script'.line].email
          \/ ~IsSeeded(user'[script'.user].email)
    BY <1>4, <1>7, <1>8, <1>11, <2>1 DEF Inv, AccountKeysKept
  <2>. QED
    BY <2>2, <2>3 DEF AccountKeysKept, IsSeeded
<1>. QED
  BY <1>1, <1>9, <1>12, <1>13, <1>14, <1>15, <1>16, WriteFrame DEF Inv, Tables

(* Any other change of an account keeps its role.                          *)
LEMMA UserChangeStep ==
  ASSUME Inv, NEW u \in Users, user[u] # None, NEW who \in UserRow, who.role = user[u].role,
         user' = [user EXCEPT ![u] = who], Write, UNCHANGED <<unit, profile>>,
         rekeyed' \in BOOLEAN,
         ~rekeyed' => ~rekeyed /\ (who.email = user[u].email \/ ~IsSeeded(who.email))
  PROVE  Inv'
<1>2. /\ unit \in [Units -> UnitRow \cup {None}]
      /\ user \in [Users -> UserRow \cup {None}]
      /\ profile \in [Profiles -> ProfileRow \cup {None}]
  BY DEF Inv, Tables, TypeInv, AccountsTypeOK
<1>3. /\ \A v \in Users : user'[v] = IF v = u THEN who ELSE user[v]
      /\ who # None
  BY <1>2, RowTyped
<1>4. UNCHANGED <<script, lacking>>
  BY WriteFrame
<1>5. TypeInv'
  <2>1. user' \in [Users -> UserRow \cup {None}]
    BY <1>2
  <2>. QED
    BY <1>2, <2>1, WriteFrame DEF TypeInv, AccountsTypeOK
<1>6. \A q \in Profiles : profile[q] # None =>
         /\ profile[q].user \in Users /\ profile[q].unit \in Units
         /\ user[profile[q].user] # None /\ unit[profile[q].unit] # None
  BY <1>2, RowTyped DEF Inv, Tables, Referred, Refers
<1>7. script.at = "profile" => script.user \in Users /\ user[script.user] # None
  BY ScriptTyped DEF Inv, Tables, TypeInv, Referred
<1>8. Referred'
  BY <1>3, <1>4, <1>6, <1>7 DEF Referred, Refers
<1>9. UnitKeys' /\ UnitKeysKept' /\ ProfileKeys'
  BY DEF Inv, Tables, UnitKeys, UnitKeysKept, ProfileKeys
<1>10. Explained'
  <2>1. \A v \in Users : user'[v].role = user[v].role /\ (HasProfile(v) => HasProfile(v)')
    BY <1>3 DEF HasProfile
  <2>2. \A v \in Users : user'[v] # None => user[v] # None
    BY <1>3
  <2>. QED
    BY <1>4, <1>7, <2>1, <2>2 DEF Inv, Tables, Explained
<1>11. AccountKeysKept'
  <2>. SUFFICES ASSUME ~rekeyed' PROVE AccountKeysKept'
    BY DEF AccountKeysKept
  <2>1. ~rekeyed /\ (who.email = user[u].email \/ ~IsSeeded(who.email))
    OBVIOUS
  <2>2. \A v \in Users : user'[v].email = user[v].email \/ ~IsSeeded(user'[v].email)
    BY <1>3, <2>1
  <2>. QED
    BY <1>4, <1>6, <1>7, <2>1, <2>2 DEF Inv, AccountKeysKept, IsSeeded
<1>. QED
  BY <1>5, <1>8, <1>9, <1>10, <1>11, WriteFrame DEF Inv, Tables

(* Every commit of the API keeps the invariant. *)
LEMMA ApiStep ==
  ASSUME Inv, Api
  PROVE  Inv'
<1>0. /\ user \in [Users -> UserRow \cup {None}] /\ rekeyed \in BOOLEAN
      /\ profile \in [Profiles -> ProfileRow \cup {None}]
  BY DEF Inv, Tables, TypeInv, AccountsTypeOK
<1>1. ASSUME NEW p \in Profiles, DeactivateAccount(p) PROVE Inv'
  <2>. DEFINE u == profile[p].user
              who == [user[u] EXCEPT !.active = FALSE]
  <2>1. /\ profile[p] # None /\ Write /\ UNCHANGED <<unit, profile, rekeyed>>
        /\ user' = [user EXCEPT ![u].active = FALSE]
    BY <1>1 DEF DeactivateAccount
  <2>2. u \in Users /\ user[u] # None /\ user[u] \in UserRow
    BY <1>0, <2>1, RowTyped DEF Inv, Tables, Referred, Refers
  <2>3. who \in UserRow /\ who.email = user[u].email /\ who.role = user[u].role
    BY <2>2 DEF UserRow
  <2>4. user' = [user EXCEPT ![u] = who]
    BY <1>0, <2>1, <2>2
  <2>. HIDE DEF u, who
  <2>. QED
    BY <1>0, <2>1, <2>2, <2>3, <2>4, UserChangeStep
<1>2. ASSUME NEW u \in Users, NEW e \in Emails, UpdateCurrentUser(u, e) PROVE Inv'
  <2>. DEFINE who == [user[u] EXCEPT !.email = e]
  <2>1. /\ user[u] # None /\ Write /\ UNCHANGED <<unit, profile>>
        /\ user' = [user EXCEPT ![u].email = e]
        /\ rekeyed' = (rekeyed \/ \E i \in DOMAIN AccountSeeds : AccountSeeds[i].email = e)
    BY <1>2 DEF UpdateCurrentUser
  <2>2. user[u] \in UserRow
    BY <1>0, <2>1
  <2>3. who \in UserRow /\ who.email = e /\ who.role = user[u].role
    BY <2>2 DEF UserRow
  <2>4. user' = [user EXCEPT ![u] = who]
    BY <1>0, <2>1, <2>2
  <2>5. rekeyed' \in BOOLEAN /\ (~rekeyed' => ~rekeyed /\ ~IsSeeded(e))
    BY <2>1 DEF IsSeeded
  <2>. HIDE DEF who
  <2>. QED
    BY <2>1, <2>3, <2>4, <2>5, UserChangeStep
<1>. QED
  BY <1>1, <1>2, WriteUnitStep, DeleteUnitStep, CreateAccountStep, UpdateAccountStep DEF Api

-----------------------------------------------------------------------------
(***************************************************************************)
(* The script.                                                             *)
(***************************************************************************)
(* Steps of the script that write no row. *)
LEMMA QuietStep ==
  ASSUME Inv, UNCHANGED <<unit, user, profile, lacking, writes, rekeyed>>,
         script' \in Script, runs' \in 0..MaxRuns, disturbed' \in BOOLEAN,
         (HasRows => script.row \in [DOMAIN UnitSeeds -> Units])',
         script'.at # "profile",
         Alone' /\ Undisturbed'
  PROVE  Inv'
<1>1. TypeInv'
  BY DEF Inv, Tables, TypeInv, AccountsTypeOK
<1>2. Referred' /\ UnitKeys' /\ ProfileKeys'
  BY DEF Inv, Tables, Referred, Refers, UnitKeys, ProfileKeys
<1>3. Explained'
  BY DEF Inv, Tables, Explained, HasProfile
<1>4. UnitKeysKept' /\ AccountKeysKept'
  BY DEF Inv, UnitKeysKept, AccountKeysKept
<1>. QED
  BY <1>1, <1>2, <1>3, <1>4 DEF Inv, Tables

(* Where nothing is remembered, nothing is promised. *)
LEMMA NothingPromised ==
  ASSUME script'.at = "stopped" \/ (script'.at = "failed" /\ (rekeyed' \/ disturbed'))
  PROVE  Alone' /\ Undisturbed'
BY DEF Alone, Undisturbed, SeededUnits, SeededAccounts, OwnUnits, HasRows

(* A run starts with nothing read and nothing written. *)
LEMMA StartStep ==
  ASSUME Inv, Start
  PROVE  Inv'
<1>1. /\ script' = [at |-> "units", seen |-> [i \in DOMAIN UnitSeeds |-> "unread"],
                    row |-> [i \in DOMAIN UnitSeeds |-> None]]
      /\ runs < MaxRuns /\ runs' = runs + 1 /\ disturbed' = FALSE
      /\ UNCHANGED <<unit, user, profile, writes, lacking, rekeyed>>
  BY DEF Start
<1>2. script' \in Script
  BY <1>1 DEF Script, Lookups, Found
<1>3. runs' \in 0..MaxRuns /\ disturbed' \in BOOLEAN
  <2>1. runs \in 0..MaxRuns
    BY DEF Inv, Tables, TypeInv, AccountsTypeOK
  <2>2. runs < MaxRuns /\ runs' = runs + 1 /\ disturbed' = FALSE
    BY <1>1
  <2>3. MaxRuns \in Nat
    BY IdsAssumption
  <2>4. runs' \in 0..MaxRuns
    BY <2>1, <2>2, <2>3
  <2>. QED
    BY <2>2, <2>4
<1>4. /\ script'.at = "units"
      /\ \A i \in DOMAIN UnitSeeds : script'.row[i] = None /\ script'.seen[i] = "unread"
  BY <1>1
<1>5. Alone'
  BY <1>4 DEF Alone, SeededUnits, SeededAccounts, HasRows
<1>6. Undisturbed'
  BY <1>4, IdsAssumption DEF Undisturbed, OwnUnits, HasRows
<1>. QED
  BY <1>1, <1>2, <1>3, <1>4, <1>5, <1>6, QuietStep DEF HasRows

(* The process is stopped. *)
LEMMA StopStep ==
  ASSUME Inv, Stop
  PROVE  Inv'
<1>1. /\ script' = Stopped /\ script'.at = "stopped"
      /\ UNCHANGED <<unit, user, profile, lacking, writes, runs, rekeyed, disturbed>>
  BY DEF Stop, Step, Stopped
<1>2. script' \in Script /\ runs' \in 0..MaxRuns /\ disturbed' \in BOOLEAN
  BY <1>1 DEF Stopped, Script, Inv, Tables, TypeInv, AccountsTypeOK
<1>. QED
  BY <1>1, <1>2, QuietStep, NothingPromised DEF HasRows

(* Failing takes a key of the script written by the API, or a commit since *)
(* the script was started.                                                 *)
LEMMA FailStep ==
  ASSUME Inv, Fail, rekeyed \/ disturbed
  PROVE  Inv'
<1>1. /\ script' = [at |-> "failed"] /\ script'.at = "failed"
      /\ UNCHANGED <<unit, user, profile, lacking, writes, runs, rekeyed, disturbed>>
  BY DEF Fail, Step
<1>2. script' \in Script /\ runs' \in 0..MaxRuns /\ disturbed' \in BOOLEAN
  BY <1>1 DEF Script, Inv, Tables, TypeInv, AccountsTypeOK
<1>. QED
  BY <1>1, <1>2, QuietStep, NothingPromised DEF HasRows

(* findFirst of a line of units: with every key in its place it finds the  *)
(* row that the line wrote in an earlier run, or none.                     *)
LEMMA FindUnitStep ==
  ASSUME Inv, NEW i \in DOMAIN UnitSeeds, NEW d \in Units \cup {"absent"}, FindUnit(i, d)
  PROVE  Inv'
<1>1. /\ script.at = "units" /\ script.seen[i] = "unread"
      /\ Alike(i) = {} => d = "absent"
      /\ Alike(i) # {} => d \in Alike(i)
      /\ script' = [script EXCEPT !.seen[i] = d]
      /\ UNCHANGED <<unit, user, profile, lacking, writes, runs, rekeyed, disturbed>>
  BY DEF FindUnit, Step
<1>2. /\ script.seen \in Lookups /\ script.row \in Found
      /\ script = [at |-> "units", seen |-> script.seen, row |-> script.row]
      /\ unit \in [Units -> UnitRow \cup {None}]
  BY <1>1, ScriptTyped DEF Inv, Tables, TypeInv, AccountsTypeOK
<1>3. /\ script'.at = "units" /\ script'.row = script.row
      /\ script'.seen = [script.seen EXCEPT ![i] = d]
      /\ script' = [at |-> "units", seen |-> script'.seen, row |-> script'.row]
  BY <1>1, <1>2
<1>4. script'.seen \in Lookups /\ \A j \in DOMAIN UnitSeeds \ {i} : script'.seen[j] = script.seen[j]
  BY <1>2, <1>3 DEF Lookups
<1>5. script'.seen[i] = d
  BY <1>2, <1>3 DEF Lookups
<1>6. script' \in Script /\ runs' \in 0..MaxRuns /\ disturbed' \in BOOLEAN
  BY <1>1, <1>2, <1>3, <1>4 DEF Script, Inv, Tables, TypeInv, AccountsTypeOK
<1>7. Alone'
  BY <1>1, <1>3 DEF Inv, Alone, SeededUnits, SeededAccounts, HasRows
<1>8. Undisturbed'
  <2>. SUFFICES ASSUME ~rekeyed', ~disturbed' PROVE OwnUnits'
    BY <1>3 DEF Undisturbed
  <2>1. OwnUnits /\ UnitKeysKept /\ ~rekeyed
    BY <1>1 DEF Inv, Undisturbed
  <2>2. \A j \in DOMAIN UnitSeeds : Alike(j)' = Alike(j)
    BY <1>1 DEF Alike, Rows
  <2>3. d \in Units => unit[d] = UnitSeeds[i]
    <3>1. ASSUME d \in Units PROVE d \in Alike(i)
      BY <1>1, <3>1, IdsAssumption
    <3>2. d \in Alike(i) => unit[d] # None /\ (unit[d].name = UnitSeeds[i].name \/ unit[d].email = UnitSeeds[i].email)
      BY DEF Alike, Rows
    <3>. QED
      BY <2>1, <3>1, <3>2 DEF UnitKeysKept
  <2>4. d = "absent" => Alike(i) = {}
    BY <1>1, <1>2, IdsAssumption DEF Alike, Rows
  <2>. QED
    BY <1>1, <1>3, <1>4, <1>5, <2>1, <2>2, <2>3, <2>4 DEF OwnUnits, HasRows
<1>. QED
  BY <1>1, <1>3, <1>6, <1>7, <1>8, QuietStep DEF HasRows

(* A line of units fails only where the API has moved a key or commits     *)
(* beside it.                                                              *)
LEMMA FailUnitStep ==
  ASSUME Inv, NEW i \in DOMAIN UnitSeeds, FailUnit(i)
  PROVE  Inv'
<1>1. /\ script.at = "units" /\ script.row[i] = None /\ Fail
      /\ \/ script.seen[i] = "absent" /\ Alike(i) # {}
         \/ /\ script.seen[i] \in Units
            /\ unit[script.seen[i]] = None \/ ~UnitFree(script.seen[i], UnitSeeds[i])
  BY DEF FailUnit
<1>2. ASSUME ~rekeyed, ~disturbed PROVE FALSE
  <2>1. /\ script.seen[i] = "absent" => Alike(i) = {}
        /\ script.seen[i] \in Units => unit[script.seen[i]] = UnitSeeds[i]
    BY <1>1, <1>2 DEF Inv, Undisturbed, OwnUnits
  <2>2. PICK d \in Units : unit[d] = UnitSeeds[i] /\ ~UnitFree(d, UnitSeeds[i])
    BY <1>1, <2>1, UnitSeedTyped
  <2>3. PICK o \in Units : /\ unit[o] # None /\ o # d
                           /\ unit[o].name = UnitSeeds[i].name \/ unit[o].email = UnitSeeds[i].email
    BY <2>2, UnitSeedTyped DEF UnitFree, Rows, Inv, Tables, TypeInv, AccountsTypeOK
  <2>4. UnitKeysKept /\ UnitKeys
    BY DEF Inv, Tables
  <2>5. unit[o] = UnitSeeds[i]
    BY <1>2, <2>3, <2>4 DEF UnitKeysKept
  <2>6. UnitSeeds[i] # None
    BY UnitSeedTyped
  <2>. QED
    BY <2>2, <2>3, <2>4, <2>5, <2>6 DEF UnitKeys
<1>. QED
  BY <1>1, <1>2, FailStep

(* All lines of units have a row. *)
LEMMA UnitsDoneStep ==
  ASSUME Inv, UnitsDone
  PROVE  Inv'
<1>1. /\ script.at = "units" /\ None \notin {script.row[i] : i \in DOMAIN UnitSeeds}
      /\ script' = Line(1, script.row)
      /\ UNCHANGED <<unit, user, profile, lacking, writes, runs, rekeyed, disturbed>>
  BY DEF UnitsDone, Step
<1>2. script.row \in [DOMAIN UnitSeeds -> Units]
  <2>1. script.row \in Found
    BY <1>1, ScriptTyped DEF Inv, Tables, TypeInv
  <2>. QED
    BY <1>1, <2>1 DEF Found
<1>3. /\ script' \in Script /\ script'.row = script.row /\ script'.at \in {"user", "validate"}
      /\ script'.at = "user" => script'.line = 1
      /\ script'.at = "validate" => 1 \notin DOMAIN AccountSeeds
  BY <1>1, <1>2, LineTyped
<1>4. DOMAIN AccountSeeds = 1..Len(AccountSeeds) /\ Len(AccountSeeds) \in Nat
  BY SeedsAssumption, LenProperties
<1>5. Alone'
  <2>. SUFFICES ASSUME ~disturbed' PROVE (SeededUnits /\ SeededAccounts)'
    BY DEF Alone
  <2>1. SeededUnits
    BY <1>1 DEF Inv, Alone
  <2>2. SeededUnits'
    BY <1>1, <1>3, <2>1 DEF SeededUnits
  <2>3. SeededAccounts'
    BY <1>3, <1>4 DEF SeededAccounts
  <2>. QED
    BY <2>2, <2>3
<1>6. Undisturbed'
  BY <1>1, <1>3 DEF Inv, Undisturbed, OwnUnits, HasRows
<1>7. runs' \in 0..MaxRuns /\ disturbed' \in BOOLEAN
  BY <1>1 DEF Inv, Tables, TypeInv, AccountsTypeOK
<1>. QED
  BY <1>1, <1>2, <1>3, <1>5, <1>6, <1>7, QuietStep DEF HasRows

(* Two lines of units share no key. *)
LEMMA UnitSeedsDiffer ==
  ASSUME NEW i \in DOMAIN UnitSeeds, NEW j \in DOMAIN UnitSeeds, i # j
  PROVE  /\ UnitSeeds[i].name # UnitSeeds[j].name /\ UnitSeeds[i].email # UnitSeeds[j].email
         /\ UnitSeeds[i] # UnitSeeds[j]
BY SeedsAssumption

(* A line of units writes its row. The lines beside it keep what they have *)
(* read, for they share no key with it.                                    *)
LEMMA UpsertUnitStep ==
  ASSUME Inv, NEW i \in DOMAIN UnitSeeds, NEW d \in Units, UpsertUnit(i, d)
  PROVE  Inv'
<1>1. /\ script.at = "units" /\ script.row[i] = None
      /\ unit[d] # None => script.seen[i] = d
      /\ UnitFree(d, UnitSeeds[i])
      /\ unit' = [unit EXCEPT ![d] = UnitSeeds[i]]
      /\ script' = [script EXCEPT !.row[i] = d]
      /\ UNCHANGED <<user, profile, lacking, writes, runs, rekeyed, disturbed>>
  BY DEF UpsertUnit, Step
<1>2. /\ script.seen \in Lookups /\ script.row \in Found
      /\ script = [at |-> "units", seen |-> script.seen, row |-> script.row]
  BY <1>1, ScriptTyped DEF Inv, Tables, TypeInv
<1>3. /\ unit \in [Units -> UnitRow \cup {None}]
      /\ user \in [Users -> UserRow \cup {None}]
      /\ profile \in [Profiles -> ProfileRow \cup {None}]
  BY DEF Inv, Tables, TypeInv, AccountsTypeOK
<1>4. /\ script'.at = "units" /\ script'.seen = script.seen
      /\ script'.row = [script.row EXCEPT ![i] = d]
      /\ script' = [at |-> "units", seen |-> script'.seen, row |-> script'.row]
  BY <1>1, <1>2
<1>5. /\ script'.row \in Found /\ script'.row[i] = d
      /\ \A j \in DOMAIN UnitSeeds \ {i} : script'.row[j] = script.row[j]
  BY <1>2, <1>4 DEF Found
<1>6. UnitSeeds[i] # None /\ UnitSeeds[i] \in UnitRow /\ d # None
  BY UnitSeedTyped, IdsAssumption
<1>7. \A o \in Units : unit'[o] = IF o = d THEN UnitSeeds[i] ELSE unit[o]
  BY <1>1, <1>3
<1>8. TypeInv'
  <2>1. script' \in Script
    BY <1>2, <1>4, <1>5 DEF Script
  <2>2. unit' \in [Units -> UnitRow \cup {None}]
    BY <1>1, <1>3, <1>6
  <2>. QED
    BY <1>1, <1>4, <2>1, <2>2 DEF Inv, Tables, TypeInv, AccountsTypeOK, HasRows
<1>9. Referred'
  <2>1. \A p \in Profiles : profile[p] # None => profile[p].unit \in Units
    BY <1>3, RowTyped
  <2>. QED
    BY <1>1, <1>4, <1>6, <1>7, <2>1 DEF Inv, Tables, Referred, Refers
<1>10. UnitKeys'
  <2>1. \A o \in Units \ {d} : unit[o] # None =>
          /\ unit[o].name # UnitSeeds[i].name
          /\ UnitSeeds[i].email = None \/ unit[o].email # UnitSeeds[i].email
    BY <1>1, <1>3 DEF UnitFree, Rows
  <2>. QED
    BY <1>7, <2>1 DEF Inv, Tables, UnitKeys
<1>11. ProfileKeys' /\ Explained' /\ AccountKeysKept'
  BY <1>1, <1>4 DEF Inv, Tables, ProfileKeys, Explained, HasProfile, AccountKeysKept
<1>12. UnitKeysKept'
  BY <1>1, <1>7, UnitSeedsDiffer DEF Inv, UnitKeysKept
<1>13. Alone'
  <2>. SUFFICES ASSUME ~disturbed' PROVE (SeededUnits /\ SeededAccounts)'
    BY DEF Alone
  <2>1. SeededUnits
    BY <1>1 DEF Inv, Alone
  <2>2. ASSUME NEW j \in DOMAIN UnitSeeds
        PROVE  \/ script'.row[j] = None \/ unit'[script'.row[j]] = UnitSeeds[j]
               \/ \E k \in DOMAIN UnitSeeds \ {j} : script'.row[k] = script'.row[j]
    <3>1. CASE j = i
      BY <1>5, <1>7, <3>1
    <3>2. CASE j # i /\ script.row[j] = d
      BY <1>5, <3>2
    <3>3. CASE j # i /\ script.row[j] # d /\ script.row[j] # None
      <4>1. script.row[j] \in Units /\ script'.row[j] = script.row[j]
            /\ unit'[script.row[j]] = unit[script.row[j]]
        BY <1>2, <1>5, <1>7, <3>3 DEF Found
      <4>2. CASE unit[script.row[j]] = UnitSeeds[j]
        BY <4>1, <4>2
      <4>3. ASSUME NEW k \in DOMAIN UnitSeeds \ {j}, script.row[k] = script.row[j]
            PROVE  script'.row[k] = script'.row[j]
        BY <1>1, <1>5, <3>3, <4>1, <4>3
      <4>. QED
        BY <1>1, <2>1, <3>3, <4>2, <4>3 DEF SeededUnits
    <3>. QED
      BY <1>5, <3>1, <3>2, <3>3
  <2>3. SeededUnits'
    BY <2>2 DEF SeededUnits
  <2>4. SeededAccounts'
    BY <1>4 DEF SeededAccounts
  <2>. QED
    BY <2>3, <2>4
<1>14. Undisturbed'
  <2>. SUFFICES ASSUME ~rekeyed', ~disturbed' PROVE OwnUnits'
    BY <1>4 DEF Undisturbed
  <2>1. OwnUnits
    BY <1>1 DEF Inv, Undisturbed
  <2>2. ASSUME NEW j \in DOMAIN UnitSeeds, j # i PROVE unit[d] # UnitSeeds[j]
    <3>1. unit[d] # None => unit[d] = UnitSeeds[i]
      BY <1>1, <2>1 DEF OwnUnits
    <3>. QED
      BY <2>2, <3>1, UnitSeedTyped, UnitSeedsDiffer
  <2>3. ASSUME NEW j \in DOMAIN UnitSeeds
        PROVE  script'.row[j] = None \/ unit'[script'.row[j]] = UnitSeeds[j]
    <3>1. CASE j = i
      BY <1>5, <1>7, <3>1
    <3>2. CASE j # i /\ script.row[j] # None
      <4>1. script.row[j] \in Units /\ unit[script.row[j]] = UnitSeeds[j]
        BY <1>1, <1>2, <2>1, <3>2 DEF OwnUnits, Found
      <4>. QED
        BY <1>5, <1>7, <2>2, <3>2, <4>1
    <3>. QED
      BY <1>5, <3>1, <3>2
  <2>4. ASSUME NEW j \in DOMAIN UnitSeeds, script'.row[j] = None
        PROVE  /\ script'.seen[j] = "absent" => Alike(j)' = {}
               /\ script'.seen[j] \in Units => unit'[script'.seen[j]] = UnitSeeds[j]
    <3>1. j # i /\ script.row[j] = None
      BY <1>5, <1>6, <2>4
    <3>2. /\ script.seen[j] = "absent" => Alike(j) = {}
          /\ script.seen[j] \in Units => unit[script.seen[j]] = UnitSeeds[j]
      BY <1>1, <2>1, <3>1 DEF OwnUnits
    <3>3. Alike(j) = {} => Alike(j)' = {}
      <4>1. ~(UnitSeeds[i].name = UnitSeeds[j].name \/ UnitSeeds[i].email = UnitSeeds[j].email)
        BY <3>1, UnitSeedsDiffer
      <4>. QED
        BY <1>1, <1>3, <1>7, <4>1 DEF Alike, Rows
    <3>4. script.seen[j] \in Units => unit'[script.seen[j]] = UnitSeeds[j]
      BY <1>7, <2>2, <3>1, <3>2
    <3>. QED
      BY <1>4, <3>2, <3>3, <3>4
  <2>. QED
    BY <2>3, <2>4 DEF OwnUnits
<1>. QED
  BY <1>8, <1>9, <1>10, <1>11, <1>12, <1>13, <1>14 DEF Inv, Tables

-----------------------------------------------------------------------------
(* Two lines of accounts share neither the email nor, with the role, the   *)
(* number.                                                                 *)
LEMMA AccountSeedsDiffer ==
  ASSUME NEW i \in DOMAIN AccountSeeds, NEW j \in DOMAIN AccountSeeds, i # j
  PROVE  /\ AccountSeeds[i].email # AccountSeeds[j].email
         /\ \/ AccountSeeds[i].role # AccountSeeds[j].role
            \/ AccountSeeds[i].number # AccountSeeds[j].number
            \/ AccountSeeds[i].role = "OFFICE_STAFF"
BY SeedsAssumption

(* upsertUser: the account is made, or made over, and lacks a profile      *)
(* until the next step unless it keeps its role. Lines before it hold      *)
(* still, for they have another email.                                     *)
LEMMA UpsertUserStep ==
  ASSUME Inv, NEW u \in Users, UpsertUser(u)
  PROVE  Inv'
<1>1. script.at = "user"
  BY DEF UpsertUser
<1>2. PICK k \in DOMAIN AccountSeeds : script.line = k
  BY <1>1, ScriptTyped DEF Inv, Tables, TypeInv
<1>. DEFINE s == AccountSeeds[k]
<1>3. /\ WithEmail(s.email) = {} => user[u] = None
      /\ WithEmail(s.email) # {} => u \in WithEmail(s.email)
      /\ user' = [user EXCEPT ![u] = SeededUser(s)]
      /\ lacking' = IF user[u] = None \/ user[u].role # s.role THEN lacking \cup {u} ELSE lacking
      /\ script' = [at |-> "profile", line |-> k, row |-> script.row, user |-> u]
      /\ UNCHANGED <<unit, profile, writes, runs, rekeyed, disturbed>>
  BY <1>2 DEF UpsertUser, Step, SeededUser
<1>4. /\ unit \in [Units -> UnitRow \cup {None}]
      /\ user \in [Users -> UserRow \cup {None}]
      /\ profile \in [Profiles -> ProfileRow \cup {None}]
  BY DEF Inv, Tables, TypeInv, AccountsTypeOK
<1>5. /\ SeededUser(s) \in UserRow
      /\ SeededUser(s).email = s.email /\ SeededUser(s).role = s.role
  BY AccountSeedTyped DEF SeededUser, UserRow
<1>. HIDE DEF s
<1>6. /\ \A v \in Users : user'[v] = IF v = u THEN SeededUser(s) ELSE user[v]
      /\ SeededUser(s) # None
  BY <1>3, <1>4, <1>5, RowTyped
<1>7. user[u] # None => user[u].email = s.email
  BY <1>3 DEF WithEmail
<1>8. /\ script'.at = "profile" /\ script'.line = k /\ script'.row = script.row /\ script'.user = u
  BY <1>3
<1>9. script.row \in [DOMAIN UnitSeeds -> Units]
  BY <1>1 DEF Inv, Tables, TypeInv, HasRows
<1>10. TypeInv'
  <2>1. script' \in Script
    BY <1>3, <1>9 DEF Script, Found
  <2>2. user' \in [Users -> UserRow \cup {None}]
    BY <1>3, <1>4, <1>5
  <2>3. lacking' \subseteq Users
    BY <1>3 DEF Inv, Tables, TypeInv, AccountsTypeOK
  <2>. QED
    BY <1>3, <1>8, <1>9, <2>1, <2>2, <2>3 DEF Inv, Tables, TypeInv, AccountsTypeOK, HasRows
<1>11. \A q \in Profiles : profile[q] # None =>
         /\ profile[q].user \in Users /\ profile[q].unit \in Units
         /\ user[profile[q].user] # None /\ unit[profile[q].unit] # None
  BY <1>4, RowTyped DEF Inv, Tables, Referred, Refers
<1>12. Referred'
  BY <1>3, <1>6, <1>8, <1>11 DEF Referred, Refers
<1>13. UnitKeys' /\ ProfileKeys' /\ UnitKeysKept'
  BY <1>3 DEF Inv, Tables, UnitKeys, ProfileKeys, UnitKeysKept
<1>14. Explained'
  <2>1. \A v \in Users \ {u} : user'[v] = user[v] /\ (HasProfile(v) => HasProfile(v)')
    BY <1>3, <1>6 DEF HasProfile
  <2>2. user[u] # None /\ user[u].role = s.role /\ HasProfile(u) => HasProfile(u)'
    BY <1>3, <1>5, <1>6 DEF HasProfile
  <2>3. u \in lacking' \/ (user[u] # None /\ user[u].role = s.role)
    BY <1>3
  <2>4. lacking \subseteq lacking'
    BY <1>3
  <2>5. \A v \in Users : user'[v] # None => v \in lacking' \/ HasProfile(v)'
    BY <2>1, <2>2, <2>3, <2>4 DEF Inv, Tables, Explained
  <2>6. user'[script'.user].role = AccountSeeds[script'.line].role
    BY <1>5, <1>6, <1>8 DEF s
  <2>. QED
    BY <2>5, <2>6 DEF Explained
<1>15. AccountKeysKept'
  <2>. SUFFICES ASSUME ~rekeyed' PROVE AccountKeysKept'
    BY DEF AccountKeysKept
  <2>1. ~rekeyed
    BY <1>3
  <2>2. \A q \in Profiles : profile[q] # None => user'[profile[q].user].email = user[profile[q].user].email
    BY <1>5, <1>6, <1>7, <1>11
  <2>3. user'[script'.user].email = AccountSeeds[script'.line].email
    BY <1>5, <1>6, <1>8 DEF s
  <2>. QED
    BY <1>3, <2>1, <2>2, <2>3 DEF Inv, AccountKeysKept
<1>16. Alone'
  <2>. SUFFICES ASSUME ~disturbed' PROVE (SeededUnits /\ SeededAccounts)'
    BY DEF Alone
  <2>1. SeededUnits /\ SeededAccounts
    BY <1>3 DEF Inv, Alone
  <2>2. SeededUnits'
    BY <1>1, <1>3, <1>8, <2>1 DEF SeededUnits, HasRows
  <2>3. ASSUME NEW i \in DOMAIN AccountSeeds, i < k
        PROVE  AccountHolds(AccountSeeds[i], script.row)'
    <3>1. AccountHolds(AccountSeeds[i], script.row)
      BY <1>1, <1>2, <2>1, <2>3 DEF SeededAccounts
    <3>2. PICK v \in Users, q \in Profiles :
            /\ user[v] = SeededUser(AccountSeeds[i])
            /\ profile[q] = [role |-> AccountSeeds[i].role, user |-> v, number |-> AccountSeeds[i].number,
                             unit |-> script.row[AccountSeeds[i].unit]]
      BY <3>1 DEF AccountHolds, SeededUser
    <3>3. user[v].email = AccountSeeds[i].email /\ user[v] # None
      <4>1. SeededUser(AccountSeeds[i]) \in UserRow
        BY AccountSeedTyped DEF SeededUser, UserRow
      <4>2. SeededUser(AccountSeeds[i]).email = AccountSeeds[i].email
        BY DEF SeededUser
      <4>. QED
        BY <3>2, <4>1, <4>2, RowTyped
    <3>4. i \in Nat /\ k \in Nat
      BY SeedsAssumption, LenProperties
    <3>5. AccountSeeds[i].email # s.email
      BY <2>3, <3>4, AccountSeedsDiffer DEF s
    <3>6. user'[v] = user[v]
      BY <1>6, <1>7, <3>3, <3>5
    <3>. QED
      BY <1>3, <1>8, <3>2, <3>6 DEF AccountHolds, SeededUser
  <2>4. SeededAccounts'
    <3>1. user'[script'.user] = SeededUser(AccountSeeds[script'.line])
      BY <1>6, <1>8 DEF s
    <3>. QED
      BY <1>8, <2>3, <3>1 DEF SeededAccounts, AccountHolds
  <2>. QED
    BY <2>2, <2>4
<1>17. Undisturbed'
  BY <1>1, <1>3, <1>8 DEF Inv, Undisturbed, OwnUnits, HasRows
<1>. QED
  BY <1>10, <1>12, <1>13, <1>14, <1>15, <1>16, <1>17 DEF Inv, Tables

(* Where the script is with a profile: the line, the account, what it      *)
(* would write, and the profile it has matched.                            *)
LEMMA ProfileLine ==
  ASSUME Inv, script.at = "profile"
  PROVE  /\ script.line \in DOMAIN AccountSeeds /\ script.line \in Nat
         /\ script.user \in Users /\ user[script.user] # None
         /\ script.row \in [DOMAIN UnitSeeds -> Units]
         /\ Seeded \in ProfileRow
         /\ Seeded.role = AccountSeeds[script.line].role
         /\ Seeded.user = script.user
         /\ Seeded.number = AccountSeeds[script.line].number
         /\ Seeded.unit = script.row[AccountSeeds[script.line].unit]
         /\ Seeded.unit \in Units
         /\ \A p \in Match : p \in Profiles /\ profile[p] # None /\ profile[p].role = Seeded.role
<1>1. /\ script.line \in DOMAIN AccountSeeds /\ script.user \in Users
      /\ script.row \in [DOMAIN UnitSeeds -> Units] /\ user[script.user] # None
      /\ profile \in [Profiles -> ProfileRow \cup {None}]
  BY ScriptTyped DEF Inv, Tables, TypeInv, HasRows, Referred, AccountsTypeOK
<1>2. script.line \in Nat
  BY <1>1, SeedsAssumption, LenProperties
<1>. DEFINE s == AccountSeeds[script.line]
<1>3. /\ s.role \in Roles /\ s.number \in Numbers \cup {None} /\ s.unit \in DOMAIN UnitSeeds
  BY <1>1, AccountSeedTyped
<1>4. Seeded = [role |-> s.role, user |-> script.user, number |-> s.number, unit |-> script.row[s.unit]]
  BY DEF Seeded
<1>. HIDE DEF s
<1>5. /\ Seeded \in ProfileRow /\ Seeded.role = s.role /\ Seeded.user = script.user
      /\ Seeded.number = s.number /\ Seeded.unit = script.row[s.unit] /\ Seeded.unit \in Units
  BY <1>1, <1>3, <1>4 DEF ProfileRow
<1>6. \A p \in Match : p \in Profiles /\ profile[p] # None /\ profile[p].role = Seeded.role
  BY <1>1 DEF Match, Held, Numbered, Rows
<1>. QED
  BY <1>1, <1>2, <1>5, <1>6 DEF s

(* The profile goes to the account. The account that it is taken from      *)
(* lacks one from then on; no earlier line loses its profile, for it would *)
(* have to share the role and the number with this line, or the account.   *)
LEMMA UpsertProfileStep ==
  ASSUME Inv, NEW p \in Profiles, UpsertProfile(p)
  PROVE  Inv'
<1>1. script.at = "profile"
  BY DEF UpsertProfile
<1>2. PICK k \in DOMAIN AccountSeeds, su \in Users : k = script.line /\ su = script.user
  BY <1>1, ProfileLine
<1>3. /\ k \in Nat /\ user[su] # None
      /\ script.row \in [DOMAIN UnitSeeds -> Units]
      /\ Seeded \in ProfileRow /\ Seeded.role = AccountSeeds[k].role
      /\ Seeded.user = su /\ Seeded.number = AccountSeeds[k].number
      /\ Seeded.unit = script.row[AccountSeeds[k].unit] /\ Seeded.unit \in Units
  BY <1>1, <1>2, ProfileLine
<1>4. PICK what \in ProfileRow : what = Seeded
  BY <1>3
<1>5. /\ Match = {} => profile[p] = None
      /\ Match # {} => p \in Match
      /\ ProfileFree(p, what) /\ Refers(what)
      /\ profile' = [profile EXCEPT ![p] = what]
      /\ lacking' = (lacking \cup {u \in Rows(user) : p \in Held(user[u].role, u)}) \ {su}
      /\ script' = Line(k + 1, script.row)
      /\ UNCHANGED <<unit, user, writes, runs, rekeyed, disturbed>>
  BY <1>2, <1>4 DEF UpsertProfile, Step
<1>6. /\ unit \in [Units -> UnitRow \cup {None}]
      /\ user \in [Users -> UserRow \cup {None}]
      /\ profile \in [Profiles -> ProfileRow \cup {None}]
  BY DEF Inv, Tables, TypeInv, AccountsTypeOK
<1>7. profile[p] # None => profile[p].role = what.role
  BY <1>1, <1>4, <1>5, ProfileLine
<1>8. /\ \A q \in Profiles : profile'[q] = IF q = p THEN what ELSE profile[q]
      /\ what # None
  BY <1>5, <1>6, RowTyped
<1>9. /\ script' \in Script /\ script'.row = script.row /\ script'.at \in {"user", "validate"}
      /\ script'.at = "user" => script'.line = k + 1
      /\ script'.at = "validate" => k + 1 \notin DOMAIN AccountSeeds
  BY <1>3, <1>5, LineTyped
<1>10. TypeInv'
  <2>1. profile' \in [Profiles -> ProfileRow \cup {None}]
    BY <1>5, <1>6
  <2>2. lacking' \subseteq Users
    BY <1>5, <1>6 DEF Rows, Inv, Tables, TypeInv, AccountsTypeOK
  <2>. QED
    BY <1>3, <1>5, <1>9, <2>1, <2>2 DEF Inv, Tables, TypeInv, AccountsTypeOK, HasRows
<1>11. Referred'
  <2>1. \A q \in Profiles : profile'[q] # None => user[profile'[q].user] # None /\ unit[profile'[q].unit] # None
    BY <1>5, <1>8 DEF Refers, Inv, Tables, Referred
  <2>. QED
    BY <1>5, <1>9, <2>1 DEF Referred, Refers
<1>12. UnitKeys' /\ UnitKeysKept'
  BY <1>5 DEF Inv, Tables, UnitKeys, UnitKeysKept
<1>13. ProfileKeys'
  <2>1. \A q \in Profiles \ {p} : profile[q] # None /\ profile[q].role = what.role =>
          profile[q].user # what.user /\ (what.number = None \/ profile[q].number # what.number)
    BY <1>5, <1>6 DEF ProfileFree, Held, Numbered, Rows
  <2>. QED
    BY <1>8, <2>1 DEF Inv, Tables, ProfileKeys
<1>14. Explained'
  <2>1. ASSUME NEW u \in Users, user[u] # None, u # su, u \notin lacking' PROVE HasProfile(u)'
    <3>1. u \notin lacking /\ p \notin Held(user[u].role, u)
      BY <1>5, <1>6, <2>1 DEF Rows
    <3>2. PICK q \in Profiles : profile[q] # None /\ profile[q].role = user[u].role /\ profile[q].user = u
      BY <2>1, <3>1 DEF Inv, Tables, Explained, HasProfile
    <3>3. q # p
      BY <1>6, <3>1, <3>2 DEF Held, Rows
    <3>. QED
      BY <1>5, <1>8, <3>2, <3>3 DEF HasProfile
  <2>2. HasProfile(su)'
    <3>1. CASE user[su].role = what.role
      BY <1>3, <1>4, <1>5, <1>8, <3>1 DEF HasProfile
    <3>2. CASE user[su].role # what.role
      <4>1. HasProfile(su)
        BY <1>1, <1>2, <1>3, <1>4, <3>2 DEF Inv, Tables, Explained
      <4>2. PICK q \in Profiles : profile[q] # None /\ profile[q].role = user[su].role /\ profile[q].user = su
        BY <4>1 DEF HasProfile
      <4>. QED
        BY <1>5, <1>7, <1>8, <3>2, <4>2 DEF HasProfile
    <3>. QED
      BY <3>1, <3>2
  <2>. QED
    BY <1>5, <1>9, <2>1, <2>2 DEF Explained
<1>15. AccountKeysKept'
  <2>. SUFFICES ASSUME ~rekeyed' PROVE AccountKeysKept'
    BY DEF AccountKeysKept
  <2>1. ~rekeyed /\ AccountKeysKept
    BY <1>5 DEF Inv
  <2>2. ASSUME NEW i \in DOMAIN AccountSeeds, user[su].email = AccountSeeds[i].email
        PROVE  what.role = AccountSeeds[i].role /\ what.number = AccountSeeds[i].number
    <3>1. user[su].email = AccountSeeds[k].email
      BY <1>1, <1>2, <2>1, <2>2 DEF AccountKeysKept, IsSeeded
    <3>2. i = k
      BY <2>2, <3>1, AccountSeedsDiffer
    <3>. QED
      BY <1>3, <1>4, <3>2
  <2>3. what.user = su
    BY <1>3, <1>4
  <2>. QED
    BY <1>5, <1>8, <1>9, <2>1, <2>2, <2>3 DEF AccountKeysKept
<1>16. Alone'
  <2>. SUFFICES ASSUME ~disturbed' PROVE (SeededUnits /\ SeededAccounts)'
    BY DEF Alone
  <2>1. SeededUnits /\ SeededAccounts
    BY <1>5 DEF Inv, Alone
  <2>2. SeededUnits'
    BY <1>1, <1>5, <1>9, <2>1 DEF SeededUnits, HasRows
  <2>3. user[su] = SeededUser(AccountSeeds[k])
    BY <1>1, <1>2, <2>1 DEF SeededAccounts
  <2>4. what = [role |-> AccountSeeds[k].role, user |-> su, number |-> AccountSeeds[k].number,
                unit |-> script.row[AccountSeeds[k].unit]]
    BY <1>2, <1>4 DEF Seeded
  <2>5. AccountHolds(AccountSeeds[k], script.row)'
    BY <1>5, <1>8, <1>9, <2>3, <2>4 DEF AccountHolds, SeededUser
  <2>6. ASSUME NEW i \in DOMAIN AccountSeeds, i < k
        PROVE  AccountHolds(AccountSeeds[i], script.row)'
    <3>1. AccountHolds(AccountSeeds[i], script.row)
      BY <1>1, <1>2, <2>1, <2>6 DEF SeededAccounts
    <3>2. PICK v \in Users, q \in Profiles :
            /\ user[v] = SeededUser(AccountSeeds[i])
            /\ profile[q] = [role |-> AccountSeeds[i].role, user |-> v, number |-> AccountSeeds[i].number,
                             unit |-> script.row[AccountSeeds[i].unit]]
      BY <3>1 DEF AccountHolds, SeededUser
    <3>3. i # k
      BY <1>3, <2>6, SeedsAssumption, LenProperties
    <3>4. q # p
      <4>. SUFFICES ASSUME q = p PROVE FALSE
        OBVIOUS
      <4>1. profile[p] \in ProfileRow /\ profile[p] # None
        <5>1. AccountSeeds[i].unit \in DOMAIN UnitSeeds
          BY AccountSeedTyped
        <5>2. profile[q] \in ProfileRow
          BY <1>3, <3>2, <5>1, AccountSeedTyped DEF ProfileRow
        <5>. QED
          BY <5>2, RowTyped
      <4>2. profile[p].role = AccountSeeds[i].role /\ profile[p].user = v
            /\ profile[p].number = AccountSeeds[i].number
        BY <3>2
      <4>3. p \in Match /\ AccountSeeds[i].role = AccountSeeds[k].role
        BY <1>3, <1>4, <1>5, <1>7, <4>1, <4>2
      <4>4. CASE AccountSeeds[k].role = "OFFICE_STAFF"
        <5>1. v = su
          BY <1>3, <4>2, <4>3, <4>4 DEF Match, Held
        <5>2. SeededUser(AccountSeeds[i]).email = AccountSeeds[i].email
              /\ SeededUser(AccountSeeds[k]).email = AccountSeeds[k].email
          BY DEF SeededUser
        <5>. QED
          BY <2>3, <3>2, <3>3, <5>1, <5>2, AccountSeedsDiffer
      <4>5. CASE AccountSeeds[k].role # "OFFICE_STAFF"
        <5>1. AccountSeeds[i].number = AccountSeeds[k].number
          BY <1>3, <4>2, <4>3, <4>5 DEF Match, Numbered
        <5>. QED
          BY <3>3, <4>3, <4>5, <5>1, AccountSeedsDiffer
      <4>. QED
        BY <4>4, <4>5
    <3>. QED
      BY <1>5, <1>8, <1>9, <3>2, <3>4 DEF AccountHolds, SeededUser
  <2>7. SeededAccounts'
    <3>1. DOMAIN AccountSeeds = 1..Len(AccountSeeds) /\ Len(AccountSeeds) \in Nat
      BY SeedsAssumption, LenProperties
    <3>2. script'.at = "user" => \A i \in DOMAIN AccountSeeds : i < script'.line => i < k \/ i = k
      BY <1>3, <1>9, <3>1
    <3>3. script'.at = "validate" => \A i \in DOMAIN AccountSeeds : i < k \/ i = k
      BY <1>2, <1>3, <1>9, <3>1
    <3>4. \A i \in DOMAIN AccountSeeds : i < k \/ i = k => AccountHolds(AccountSeeds[i], script.row)'
      BY <2>5, <2>6
    <3>. QED
      BY <1>9, <3>2, <3>3, <3>4 DEF SeededAccounts, AccountHolds
  <2>. QED
    BY <2>2, <2>7
<1>17. Undisturbed'
  BY <1>1, <1>5, <1>9 DEF Inv, Undisturbed, OwnUnits, HasRows
<1>. QED
  BY <1>10, <1>11, <1>12, <1>13, <1>14, <1>15, <1>16, <1>17 DEF Inv, Tables

(* A profile is refused only where the API has moved a key or commits      *)
(* beside the script: with every key in its place the profile that is      *)
(* matched is that of the line, or the account has none.                   *)
LEMMA FailProfileStep ==
  ASSUME Inv, FailProfile
  PROVE  Inv'
<1>1. script.at = "profile" /\ Fail
  BY DEF FailProfile
<1>2. PICK k \in DOMAIN AccountSeeds, su \in Users : k = script.line /\ su = script.user
  BY <1>1, ProfileLine
<1>3. /\ user[su] # None
      /\ script.row \in [DOMAIN UnitSeeds -> Units]
      /\ Seeded.role = AccountSeeds[k].role
      /\ Seeded.user = su /\ Seeded.number = AccountSeeds[k].number
      /\ Seeded.unit = script.row[AccountSeeds[k].unit]
      /\ \A p \in Match : p \in Profiles /\ profile[p] # None /\ profile[p].role = Seeded.role
  BY <1>1, <1>2, ProfileLine
<1>4. profile \in [Profiles -> ProfileRow \cup {None}]
  BY DEF Inv, Tables, TypeInv, AccountsTypeOK
<1>5. ASSUME ~rekeyed, ~disturbed PROVE FALSE
  <2>1. user[su].email = AccountSeeds[k].email
    <3>1. user[su] = SeededUser(AccountSeeds[k])
      BY <1>1, <1>2, <1>5 DEF Inv, Alone, SeededAccounts
    <3>. QED
      BY <3>1 DEF SeededUser
  <2>2. Refers(Seeded)
    <3>1. PICK x \in DOMAIN UnitSeeds : x = AccountSeeds[k].unit
      BY AccountSeedTyped
    <3>2. script.row[x] \in Units /\ script.row[x] # None
      BY <1>3, IdsAssumption
    <3>3. unit[script.row[x]] = UnitSeeds[x]
      BY <1>1, <1>5, <3>2 DEF Inv, Undisturbed, OwnUnits, HasRows
    <3>. QED
      BY <1>3, <3>1, <3>3, UnitSeedTyped DEF Refers
  <2>3. \A q \in Held(Seeded.role, Seeded.user) :
          q \in Profiles /\ profile[q] # None /\ profile[q].role = Seeded.role
          /\ profile[q].user = su /\ profile[q].number = Seeded.number
    <3>1. \A q \in Held(Seeded.role, Seeded.user) :
            q \in Profiles /\ profile[q] # None /\ profile[q].role = Seeded.role /\ profile[q].user = su
      BY <1>3, <1>4 DEF Held, Rows
    <3>2. AccountKeysKept
      BY DEF Inv
    <3>. QED
      BY <1>3, <1>5, <2>1, <3>1, <3>2 DEF AccountKeysKept
  <2>4. Held(Seeded.role, Seeded.user) \subseteq Match
    <3>1. CASE Seeded.role = "OFFICE_STAFF"
      BY <3>1 DEF Match
    <3>2. CASE Seeded.role # "OFFICE_STAFF"
      BY <1>4, <2>3, <3>2 DEF Match, Numbered, Rows
    <3>. QED
      BY <3>1, <3>2
  <2>5. ASSUME NEW p \in Match PROVE ProfileFree(p, Seeded)
    <3>1. ProfileKeys
      BY DEF Inv, Tables
    <3>2. p \in Profiles /\ profile[p] # None /\ profile[p].role = Seeded.role
      BY <1>3
    <3>3. CASE Seeded.role = "OFFICE_STAFF"
      <4>1. profile[p].user = su
        BY <1>3, <3>3 DEF Match, Held
      <4>2. Held(Seeded.role, Seeded.user) \subseteq {p}
        BY <2>3, <3>1, <3>2, <4>1 DEF ProfileKeys
      <4>3. Seeded.number = None
        BY <1>3, <3>3, SeedsAssumption
      <4>. QED
        BY <4>2, <4>3 DEF ProfileFree
    <3>4. CASE Seeded.role # "OFFICE_STAFF"
      <4>1. profile[p].number = Seeded.number
        BY <3>4 DEF Match, Numbered
      <4>2. Seeded.number # None
        BY <1>3, <3>4, SeedsAssumption
      <4>3. Held(Seeded.role, Seeded.user) \subseteq {p}
        BY <2>3, <3>1, <3>2, <4>1, <4>2 DEF ProfileKeys
      <4>4. Numbered(Seeded.role, Seeded.number) \subseteq {p}
        BY <1>4, <3>1, <3>2, <4>1, <4>2 DEF ProfileKeys, Numbered, Rows
      <4>. QED
        BY <4>3, <4>4 DEF ProfileFree
    <3>. QED
      BY <3>3, <3>4
  <2>. QED
    BY <2>2, <2>4, <2>5 DEF FailProfile
<1>. QED
  BY <1>1, <1>5, FailStep

(* Distinct lines have left distinct rows, so there are as many rows as    *)
(* lines at least.                                                         *)
LEMMA ValidWhenHeld ==
  ASSUME Inv, script.at = "validate", ~rekeyed, ~disturbed
  PROVE  Valid
<1>1. /\ unit \in [Units -> UnitRow \cup {None}]
      /\ user \in [Users -> UserRow \cup {None}]
      /\ profile \in [Profiles -> ProfileRow \cup {None}]
  BY DEF Inv, Tables, TypeInv, AccountsTypeOK
<1>2. SeededAccounts /\ OwnUnits /\ script.row \in [DOMAIN UnitSeeds -> Units]
  BY DEF Inv, Tables, TypeInv, Alone, Undisturbed, HasRows
<1>3. ASSUME NEW i \in DOMAIN AccountSeeds
      PROVE  \E u \in Users, p \in Profiles :
               /\ user[u] # None /\ user[u].email = AccountSeeds[i].email /\ user[u].role = AccountSeeds[i].role
               /\ profile[p] # None /\ profile[p].role = AccountSeeds[i].role /\ profile[p].user = u
  <2>1. AccountHolds(AccountSeeds[i], script.row)
    BY <1>2 DEF SeededAccounts
  <2>2. PICK u \in Users, p \in Profiles :
          /\ user[u] = SeededUser(AccountSeeds[i])
          /\ profile[p] = [role |-> AccountSeeds[i].role, user |-> u, number |-> AccountSeeds[i].number,
                           unit |-> script.row[AccountSeeds[i].unit]]
    BY <2>1 DEF AccountHolds, SeededUser
  <2>3. /\ user[u] \in UserRow /\ user[u].email = AccountSeeds[i].email
        /\ user[u].role = AccountSeeds[i].role
    BY <2>2, AccountSeedTyped DEF SeededUser, UserRow
  <2>4. /\ profile[p] \in ProfileRow /\ profile[p].role = AccountSeeds[i].role /\ profile[p].user = u
    BY <1>2, <2>2, AccountSeedTyped DEF ProfileRow
  <2>. QED
    BY <2>3, <2>4, RowTyped
<1>4. \A i \in DOMAIN AccountSeeds : \E u \in Rows(user) : user[u].role = AccountSeeds[i].role
  BY <1>1, <1>3 DEF Rows
<1>5. ASSUME NEW r \in Roles
      PROVE  Cardinality({p \in Rows(profile) : profile[p].role = r})
               >= Cardinality({i \in DOMAIN AccountSeeds : AccountSeeds[i].role = r})
  <2>. DEFINE L == {i \in DOMAIN AccountSeeds : AccountSeeds[i].role = r}
              P == {p \in Rows(profile) : profile[p].role = r}
              Holds(i, p) == /\ profile[p].user \in Users
                             /\ user[profile[p].user].email = AccountSeeds[i].email
              f == [i \in L |-> CHOOSE p \in P : Holds(i, p)]
  <2>1. \A i \in L : \E p \in P : Holds(i, p)
    BY <1>1, <1>3 DEF Rows
  <2>2. \A i \in L : f[i] \in P /\ Holds(i, f[i])
    BY <2>1
  <2>3. \A i, j \in L : f[i] = f[j] => i = j
    <3>1. \A i, j \in L : f[i] = f[j] => AccountSeeds[i].email = AccountSeeds[j].email
      BY <2>2
    <3>. QED
      BY <3>1, AccountSeedsDiffer
  <2>4. f \in Injection(L, P)
    BY <2>2, <2>3 DEF Injection, IsInjective
  <2>5. IsFiniteSet(P)
    <3>1. P \in SUBSET Profiles
      BY <1>1 DEF Rows
    <3>. QED
      BY <3>1, IdsAssumption, FS_Subset
  <2>. HIDE DEF f, L, P
  <2>6. Cardinality(L) <= Cardinality(P)
    BY <2>4, <2>5, FS_Injection
  <2>7. Cardinality(L) \in Nat /\ Cardinality(P) \in Nat
    BY <2>4, <2>5, FS_Injection, FS_CardinalityType
  <2>8. Cardinality(P) >= Cardinality(L)
    BY <2>6, <2>7
  <2>. QED
    BY <2>8 DEF L, P
<1>6. Cardinality(Rows(unit)) >= Len(UnitSeeds)
  <2>1. /\ DOMAIN UnitSeeds = 1..Len(UnitSeeds) /\ Len(UnitSeeds) \in Nat
    BY SeedsAssumption, LenProperties
  <2>2. \A i \in DOMAIN UnitSeeds : script.row[i] \in Units /\ unit[script.row[i]] = UnitSeeds[i]
    BY <1>2, IdsAssumption DEF OwnUnits, HasRows
  <2>3. script.row \in [DOMAIN UnitSeeds -> Rows(unit)]
    BY <1>1, <1>2, <2>2, UnitSeedTyped DEF Rows
  <2>4. \A i, j \in DOMAIN UnitSeeds : script.row[i] = script.row[j] => i = j
    BY <2>2, UnitSeedsDiffer
  <2>5. script.row \in Injection(DOMAIN UnitSeeds, Rows(unit))
    BY <2>3, <2>4 DEF Injection, IsInjective
  <2>6. IsFiniteSet(Rows(unit))
    <3>1. Rows(unit) \in SUBSET Units
      BY <1>1 DEF Rows
    <3>. QED
      BY <3>1, IdsAssumption, FS_Subset
  <2>7. Cardinality(DOMAIN UnitSeeds) <= Cardinality(Rows(unit))
    BY <2>5, <2>6, FS_Injection
  <2>8. Cardinality(DOMAIN UnitSeeds) = Len(UnitSeeds)
    <3>1. 1 \in Int /\ Len(UnitSeeds) \in Int
      BY <2>1
    <3>2. Cardinality(1..Len(UnitSeeds))
            = IF 1 > Len(UnitSeeds) THEN 0 ELSE Len(UnitSeeds) - 1 + 1
      BY <3>1, FS_Interval
    <3>. QED
      BY <2>1, <3>2
  <2>9. Cardinality(Rows(unit)) \in Nat
    BY <2>6, FS_CardinalityType
  <2>. QED
    BY <2>1, <2>7, <2>8, <2>9
<1>. QED
  BY <1>4, <1>5, <1>6 DEF Valid

(* validateSeedData: it fails only where a line does not hold. *)
LEMMA ValidateStep ==
  ASSUME Inv, Validate
  PROVE  Inv'
<1>1. /\ script.at = "validate"
      /\ Valid => script' = [at |-> "done", row |-> script.row]
      /\ ~Valid => script' = [at |-> "failed"]
      /\ UNCHANGED <<unit, user, profile, lacking, writes, runs, rekeyed, disturbed>>
  BY DEF Validate, Step
<1>2. CASE ~Valid
  <2>1. Fail
    BY <1>1, <1>2 DEF Fail, Step
  <2>. QED
    BY <1>1, <1>2, <2>1, ValidWhenHeld, FailStep
<1>3. CASE Valid
  <2>1. script'.at = "done" /\ script'.row = script.row
    BY <1>1, <1>3
  <2>2. script.row \in [DOMAIN UnitSeeds -> Units]
    BY <1>1 DEF Inv, Tables, TypeInv, HasRows
  <2>3. script' \in Script /\ runs' \in 0..MaxRuns /\ disturbed' \in BOOLEAN
    <3>1. script' \in Script
      BY <1>1, <1>3, <2>2 DEF Script, Found
    <3>. QED
      BY <1>1, <3>1 DEF Inv, Tables, TypeInv, AccountsTypeOK
  <2>4. Alone'
    BY <1>1, <2>1 DEF Inv, Alone, SeededUnits, SeededAccounts, AccountHolds, HasRows
  <2>5. Undisturbed'
    BY <1>1, <2>1 DEF Inv, Undisturbed, OwnUnits, HasRows
  <2>. QED
    BY <1>1, <2>1, <2>2, <2>3, <2>4, <2>5, QuietStep DEF HasRows
<1>. QED
  BY <1>2, <1>3

-----------------------------------------------------------------------------
(* Every step keeps the invariant. *)
LEMMA InvHolds == Spec => []Inv
<1>1. ASSUME Inv, [Next]_vars PROVE Inv'
  <2>1. CASE UNCHANGED vars
    <3>1. /\ unit' = unit /\ user' = user /\ profile' = profile /\ script' = script
          /\ lacking' = lacking
      BY <2>1 DEF vars
    <3>2. writes' = writes /\ runs' = runs /\ rekeyed' = rekeyed /\ disturbed' = disturbed
      BY <2>1 DEF vars
    <3>3. TypeInv'
      BY <1>1, <3>1, <3>2 DEF Inv, Tables, TypeInv, AccountsTypeOK, HasRows
    <3>4. Referred' /\ UnitKeys' /\ ProfileKeys'
      BY <1>1, <3>1 DEF Inv, Tables, Referred, Refers, UnitKeys, ProfileKeys
    <3>5. Explained'
      BY <1>1, <3>1 DEF Inv, Tables, Explained, HasProfile
    <3>6. UnitKeysKept' /\ AccountKeysKept'
      BY <1>1, <3>1, <3>2 DEF Inv, UnitKeysKept, AccountKeysKept
    <3>7. Alone'
      <4>1. SeededUnits' = SeededUnits
        BY <3>1 DEF SeededUnits, HasRows
      <4>2. SeededAccounts' = SeededAccounts
        BY <3>1 DEF SeededAccounts, AccountHolds
      <4>. QED
        BY <1>1, <3>2, <4>1, <4>2 DEF Inv, Alone
    <3>8. Undisturbed'
      BY <1>1, <3>1, <3>2 DEF Inv, Undisturbed, OwnUnits, HasRows, Alike, Rows
    <3>. QED
      BY <3>3, <3>4, <3>5, <3>6, <3>7, <3>8 DEF Inv, Tables
  <2>2. CASE Api
    BY <1>1, <2>2, ApiStep
  <2>3. CASE Seed
    BY <1>1, <2>3, StartStep, StopStep, FindUnitStep, UpsertUnitStep, FailUnitStep, UnitsDoneStep,
       UpsertUserStep, UpsertProfileStep, FailProfileStep, ValidateStep DEF Seed
  <2>. QED
    BY <1>1, <2>1, <2>2, <2>3 DEF Next
<1>. QED
  BY <1>1, Starts, PTL DEF Spec

(* The types of every variable: each row is one of its table, and the      *)
(* script knows at each place what the code has read by then.              *)
THEOREM TypeCorrect == Spec => []AccountsTypeOK
<1>1. Inv => AccountsTypeOK
  BY DEF Inv, Tables, TypeInv
<1>. QED
  BY <1>1, InvHolds, PTL

(* createStudent, createFaculty and their updates leave every account with *)
(* a profile of its role, and so does prisma/seed.ts wherever it is        *)
(* stopped, but for the accounts in "lacking".                             *)
THEOREM ProfilesExplained == Spec => []ProfilesAreExplained
<1>1. ASSUME Inv PROVE ProfilesAreExplained
  <2>1. /\ user \in [Users -> UserRow \cup {None}]
        /\ profile \in [Profiles -> ProfileRow \cup {None}]
    BY <1>1 DEF Inv, Tables, TypeInv, AccountsTypeOK
  <2>2. ASSUME NEW u \in Rows(user) \ lacking PROVE Held(user[u].role, u) # {}
    <3>1. u \in Users /\ user[u] # None
      BY <2>1 DEF Rows
    <3>2. HasProfile(u)
      BY <1>1, <3>1 DEF Inv, Tables, Explained
    <3>. QED
      BY <2>1, <3>2 DEF HasProfile, Held, Rows
  <2>. QED
    BY <2>2 DEF ProfilesAreExplained
<1>. QED
  BY <1>1, InvHolds, PTL

(* When prisma/seed.ts reports success, and no request has committed since *)
(* it was started, every line of it holds, whatever interrupted runs, and  *)
(* the API before it, had left; only lines of units that found the same    *)
(* row may have lost it to one another.                                    *)
THEOREM SuccessSeeded == Spec => []SuccessIsSeeded
<1>1. ASSUME Inv PROVE SuccessIsSeeded
  <2>. SUFFICES ASSUME script.at = "done", ~disturbed
                PROVE  /\ \A i \in DOMAIN AccountSeeds : AccountHolds(AccountSeeds[i], script.row)
                       /\ \A i \in DOMAIN UnitSeeds :
                            \/ unit[script.row[i]] = UnitSeeds[i]
                            \/ \E j \in DOMAIN UnitSeeds \ {i} : script.row[j] = script.row[i]
    BY DEF SuccessIsSeeded
  <2>1. SeededUnits /\ SeededAccounts
    BY <1>1 DEF Inv, Alone
  <2>2. \A i \in DOMAIN UnitSeeds : script.row[i] # None
    BY <1>1, IdsAssumption DEF Inv, Tables, TypeInv, HasRows
  <2>. QED
    BY <2>1, <2>2 DEF SeededUnits, SeededAccounts, HasRows
<1>. QED
  BY <1>1, InvHolds, PTL

(* prisma/seed.ts can always be run again after interruptions: a run fails *)
(* only after the API has moved a key of the script, or has committed      *)
(* beside it.                                                              *)
THEOREM FailsAfterEdit == Spec => []FailsOnlyAfterEdit
<1>1. Inv => FailsOnlyAfterEdit
  BY DEF Inv, Undisturbed, FailsOnlyAfterEdit
<1>. QED
  BY <1>1, InvHolds, PTL
=============================================================================
