------------------------ MODULE ClientSessionProofs ------------------------
(***************************************************************************)
(* Theorems about ClientSession, for any users, tabs and numbers of        *)
(* tokens, page loads and calls under way: whose session a tab shows,      *)
(* whose snapshot is stored, and why a session ends.                       *)
(***************************************************************************)
EXTENDS ClientSession, FiniteSetTheorems, TLAPS

USE SessionAssumption

(* The actions, one by one. *)
LEMMA StepCases ==
  ASSUME [Next]_vars
  PROVE  \/ UNCHANGED vars
         \/ \E t \in Tabs, p \in Pages : Load(t, p) \/ Navigate(t, p)
         \/ \E t \in Tabs, u \in Users : Login(t, u)
         \/ \E t \in Tabs : Fetch(t) \/ UpdateProfile(t) \/ Logout(t) \/ Redirect(t)
         \/ \E c \in calls : \/ Restored(c) \/ FailRestore(c) \/ Unauthorized(c)
                             \/ ProfileUpdated(c) \/ Fetched(c) \/ Fail(c)
                             \/ \E k \in Tokens : Authenticated(c, k)
         \/ \E k \in Tokens : Refuse(k)
BY DEF Next, Answer, RestoreEnds

-----------------------------------------------------------------------------
(***************************************************************************)
(* The invariant. Besides the properties: what is under way in a tab in    *)
(* order leaves it in order. Its fetch carries a token of its user, or     *)
(* none; a tab without a user waits for no restore and no profile of the   *)
(* stored token, so that one that shows a user nevertheless puts the tab   *)
(* apart, and a login finds its tab empty or apart.                        *)
(***************************************************************************)
Types ==
  /\ token \in Issued \cup {None}
  /\ snapshot \in [token : Issued, user : Users] \cup {None}
  /\ user \in [Tabs -> Users \cup {None}]
  /\ restoring \in [Tabs -> BOOLEAN]
  /\ data \in [Tabs -> SUBSET Users]
  /\ page \in [Tabs -> Pages]
  /\ calls \subseteq Call
  /\ owner \in [Tokens -> Users \cup {None}]
  /\ refused \subseteq Issued
  /\ loads \in 0..MaxLoads
  /\ apart \subseteq Tabs

CallTokens == \A c \in calls :
  /\ c.token \in Issued \cup {None}
  /\ c.kind = "login" => c.user \in Users

InOrder(t) ==
  /\ data[t] \subseteq {user[t]}
  /\ user[t] # None => token # None /\ owner[token] = user[t]

Fetching == \A c \in calls : c.kind = "fetch" /\ c.tab \notin apart /\ c.token # None =>
  user[c.tab] # None /\ owner[c.token] = user[c.tab]

AnswersAreLate == \A c \in calls :
  c.kind \in {"restore", "profile"} /\ user[c.tab] = None /\ ~restoring[c.tab] =>
    c.token = None \/ c.token # token

SigningIn ==
  /\ \A c \in calls : c.kind = "login" =>
       ~restoring[c.tab] /\ (user[c.tab] # None => c.tab \in apart)
  /\ \A c, d \in calls : c.kind = "login" /\ d.kind = "login" /\ c.tab = d.tab => c = d

ClientInv == /\ Types /\ CallTokens /\ SessionIsExplained /\ SnapshotIsItsTokens
             /\ Fetching /\ AnswersAreLate /\ SigningIn

LEMMA Calls ==
  /\ \A c \in Call : /\ c.tab \in Tabs /\ c.kind \in Kinds
                     /\ c.token \in Tokens \cup {None} /\ c.user \in Users \cup {None}
  /\ \A t \in Tabs, kind \in Kinds, k \in Tokens \cup {None}, u \in Users \cup {None} :
       LET c == [tab |-> t, kind |-> kind, token |-> k, user |-> u] IN
       c \in Call /\ c.tab = t /\ c.kind = kind /\ c.token = k /\ c.user = u
BY DEF Call

(* The parts of the invariant, as they are used below. *)
LEMMA InvParts ==
  ASSUME ClientInv
  PROVE  /\ Types /\ CallTokens /\ Fetching /\ AnswersAreLate /\ SigningIn
         /\ token \in Issued \cup {None} /\ Issued \subseteq Tokens
         /\ user \in [Tabs -> Users \cup {None}] /\ restoring \in [Tabs -> BOOLEAN]
         /\ data \in [Tabs -> SUBSET Users] /\ page \in [Tabs -> Pages]
         /\ owner \in [Tokens -> Users \cup {None}]
         /\ \A c \in calls : c \in Call /\ c.tab \in Tabs
         /\ \A k \in Issued : owner[k] \in Users /\ k # None
         /\ \A t \in Tabs : t \notin apart => InOrder(t)
         /\ \A t \in Tabs : user[t] = None /\ t \notin apart => data[t] = {}
BY Calls DEF ClientInv, Types, SessionIsExplained, InOrder, Issued, Tokens

(* A call begins. *)
LEMMA BeginStep ==
  ASSUME ClientInv, NEW t \in Tabs, NEW kind \in Kinds \ {"restore"}, NEW u \in Users \cup {None},
         Begin(t, kind, u),
         UNCHANGED <<storage, user, restoring, data, page, server, loads>>,
         apart' \in {apart, apart \cup {t}},
         kind = "login" => user[t] = None /\ ~restoring[t] /\ Of(t, {"login"}) = {} /\ u \in Users,
         kind = "fetch" => user[t] # None \/ token = None \/ t \in apart',
         kind = "profile" => user[t] # None
  PROVE  ClientInv'
<1>. DEFINE new == [tab |-> t, kind |-> kind, token |-> token, user |-> u]
<1>1. /\ calls' = calls \cup {new} /\ new \in Call
      /\ new.tab = t /\ new.kind = kind /\ new.token = token /\ new.user = u
  BY InvParts, Calls DEF Begin
<1>2. /\ UNCHANGED <<token, snapshot, user, restoring, data, page, owner, refused, loads>>
      /\ apart \subseteq apart' /\ apart' \subseteq apart \cup {t}
  BY DEF storage, server
<1>. HIDE DEF new
<1>3. Types' /\ CallTokens'
  BY <1>1, <1>2, InvParts DEF Types, CallTokens, Issued
<1>4. SessionIsExplained' /\ SnapshotIsItsTokens'
  BY <1>2 DEF ClientInv, SessionIsExplained, SnapshotIsItsTokens, Issued
<1>5. Fetching'
  BY <1>1, <1>2, InvParts DEF Fetching, InOrder
<1>6. AnswersAreLate'
  BY <1>1, <1>2, InvParts DEF AnswersAreLate
<1>7. SigningIn'
  BY <1>1, <1>2, InvParts DEF SigningIn, Of
<1>. QED
  BY <1>3, <1>4, <1>5, <1>6, <1>7 DEF ClientInv

(* A sign-out drops the fetches of its tab; the other calls stay.          *)
LEMMA DroppedCalls ==
  ASSUME ClientInv, NEW t \in Tabs, NEW S \in SUBSET calls
  PROVE  \A c \in DropFetches(t, S) :
           \/ c \in S /\ (c.kind = "fetch" => c.tab # t)
           \/ c \in Call /\ c.kind = "dropped" /\ c.token \in Issued \cup {None}
<1>. SUFFICES ASSUME NEW d \in S, d.tab = t, d.kind = "fetch"
              PROVE  LET c == Dropped(d) IN
                     c \in Call /\ c.kind = "dropped" /\ c.token \in Issued \cup {None}
  BY DEF DropFetches
<1>1. d \in Call /\ d.token \in Issued \cup {None}
  BY InvParts DEF CallTokens
<1>. QED
  BY <1>1 DEF Dropped, Call, Kinds

(* The storage is emptied by tab t, which forgets its user, or keeps one   *)
(* that puts it apart; tabs that show a user are apart or were told.       *)
LEMMA EmptyStep ==
  ASSUME ClientInv, NEW t \in Tabs, token' = None, snapshot' = None,
         NEW u \in {user[t], None}, user' = [user EXCEPT ![t] = u], data' = [data EXCEPT ![t] = {}],
         restoring' \in [Tabs -> BOOLEAN], \A o \in Tabs : restoring'[o] => restoring[o],
         page' \in [Tabs -> Pages],
         apart' \subseteq Tabs, \A o \in apart : o # t => o \in apart',
         \A o \in Tabs : user'[o] # None => o \in apart',
         NEW S \in SUBSET calls, calls' = DropFetches(t, S), UNCHANGED <<server, loads>>
  PROVE  ClientInv'
<1>0. \A c \in calls' :
        \/ c \in calls /\ (c.kind = "fetch" => c.tab # t)
        \/ c \in Call /\ c.kind = "dropped" /\ c.token \in Issued \cup {None}
  BY DroppedCalls
<1>1. /\ UNCHANGED <<owner, refused, loads>>
      /\ \A o \in Tabs : o # t => user'[o] = user[o] /\ data'[o] = data[o]
      /\ user'[t] = u /\ data'[t] = {}
      /\ user' \in [Tabs -> Users \cup {None}] /\ data' \in [Tabs -> SUBSET Users]
  BY InvParts DEF server
<1>2. Types' /\ CallTokens'
  BY <1>0, <1>1, InvParts DEF Types, CallTokens, Issued
<1>3. SessionIsExplained' /\ SnapshotIsItsTokens'
  BY <1>1, InvParts DEF SessionIsExplained, SnapshotIsItsTokens
<1>4. Fetching'
  <2>1. ASSUME NEW c \in calls', c.kind = "fetch" PROVE c.tab \in Tabs /\ c.tab # t /\ c \in calls
    BY <1>0, <2>1, InvParts
  <2>. QED
    BY <1>1, <2>1, InvParts DEF Fetching
<1>5. AnswersAreLate'
  <2>1. \A c \in calls' : c.token \in Issued \cup {None}
    BY <1>0, InvParts DEF CallTokens
  <2>. QED
    BY <2>1, InvParts DEF AnswersAreLate
<1>6. SigningIn'
  <2>1. \A c \in calls' : c.kind = "login" => c \in calls /\ c.tab \in Tabs
    BY <1>0, InvParts
  <2>. QED
    BY <2>1, InvParts DEF SigningIn
<1>. QED
  BY <1>2, <1>3, <1>4, <1>5, <1>6 DEF ClientInv

LEMMA SignOutStep ==
  ASSUME ClientInv, NEW t \in Tabs, SignOut(t),
         restoring' \in [Tabs -> BOOLEAN], \A o \in Tabs : restoring'[o] => restoring[o],
         NEW S \in SUBSET calls, calls' = DropFetches(t, S), UNCHANGED <<server, loads>>
  PROVE  ClientInv' /\ user'[t] = None
<1>1. /\ token' = None /\ snapshot' = None
      /\ user' = [user EXCEPT ![t] = None] /\ data' = [data EXCEPT ![t] = {}]
      /\ page' = [page EXCEPT ![t] = "auth"]
      /\ apart' = (apart \cup (IF token = None THEN {} ELSE Unaware(t))) \ {t}
  BY DEF SignOut, Show, ClearQueries, GoTo
<1>2. page' \in [Tabs -> Pages]
  BY <1>1, InvParts DEF Pages
<1>3. apart' \subseteq Tabs /\ \A o \in apart : o # t => o \in apart'
  BY <1>1, InvParts DEF Types, Unaware
<1>4. \A o \in Tabs : user'[o] # None => o \in apart'
  BY <1>1, InvParts DEF InOrder, Unaware
<1>5. ClientInv'
  BY <1>1, <1>2, <1>3, <1>4, EmptyStep
<1>. QED
  BY <1>1, <1>5, InvParts

LEMMA FailRestoreStep ==
  ASSUME ClientInv, NEW c \in calls, FailRestore(c)
  PROVE  ClientInv'
<1>. DEFINE t == c.tab
<1>0. t \in Tabs
  BY InvParts
<1>1. /\ token' = None /\ snapshot' = None /\ user' = user /\ data' = [data EXCEPT ![t] = {}]
      /\ restoring' = [restoring EXCEPT ![t] = FALSE] /\ page' = page
      /\ apart' = (apart \ {t}) \cup {o \in Tabs : user[o] # None /\ (o = t \/ token # None)}
      /\ calls' = DropFetches(t, calls \ {c}) /\ UNCHANGED <<server, loads>>
  BY DEF FailRestore, ClearQueries
<1>. HIDE DEF t
<1>2. user' = [user EXCEPT ![t] = user[t]]
  BY <1>0, <1>1, InvParts
<1>3. restoring' \in [Tabs -> BOOLEAN] /\ \A o \in Tabs : restoring'[o] => restoring[o]
  BY <1>0, <1>1, InvParts
<1>4. /\ apart' \subseteq Tabs /\ \A o \in apart : o # t => o \in apart'
      /\ \A o \in Tabs : user'[o] # None => o \in apart'
  BY <1>1, InvParts DEF Types, InOrder
<1>5. calls \ {c} \in SUBSET calls /\ user[t] \in {user[t], None} /\ page' \in [Tabs -> Pages]
  BY <1>1, InvParts
<1>. QED
  BY <1>0, <1>1, <1>2, <1>3, <1>4, <1>5, EmptyStep

(* Pages are loaded: a fresh tab with the snapshot's user, or none. *)
LEMMA LoadStep ==
  ASSUME ClientInv, NEW t \in Tabs, NEW p \in Pages, Load(t, p)
  PROVE  ClientInv'
<1>. DEFINE rest == {c \in calls : c.tab # t}
            new == [tab |-> t, kind |-> "restore", token |-> token, user |-> None]
<1>1. PICK u : u = ReadStored
  OBVIOUS
<1>2. /\ u \in Users \cup {None} /\ (u # None => token # None /\ owner[token] = u)
  BY <1>1, InvParts DEF ReadStored, ClientInv, Types, SnapshotIsItsTokens
<1>3. /\ UNCHANGED <<token, snapshot, owner, refused>> /\ loads' = loads + 1 /\ loads < MaxLoads
      /\ user' = [user EXCEPT ![t] = u]
      /\ data' = [data EXCEPT ![t] = IF u = None THEN {} ELSE {u}]
      /\ restoring' = [restoring EXCEPT ![t] = token # None /\ u = None]
      /\ page' = [page EXCEPT ![t] = p] /\ apart' = apart \ {t}
      /\ calls' = IF token = None THEN rest ELSE rest \cup {new}
  BY <1>1 DEF Load, Show, GoTo, Restore, storage, server
<1>4. /\ new \in Call /\ new.tab = t /\ new.kind = "restore" /\ new.token = token
  BY InvParts, Calls DEF Kinds
<1>5. \A c \in calls' : (c \in calls /\ c.tab # t) \/ (c = new /\ token # None)
  BY <1>3
<1>. HIDE DEF new, rest
<1>6. /\ \A o \in Tabs : /\ o # t => user'[o] = user[o] /\ data'[o] = data[o]
                                     /\ restoring'[o] = restoring[o]
                         /\ o = t => user'[o] = u /\ data'[o] \subseteq {u}
                                     /\ restoring'[o] = (token # None /\ u = None)
      /\ user' \in [Tabs -> Users \cup {None}] /\ data' \in [Tabs -> SUBSET Users]
      /\ restoring' \in [Tabs -> BOOLEAN] /\ page' \in [Tabs -> Pages]
  BY <1>2, <1>3, InvParts
<1>7. Types'
  <2>1. loads' \in 0..MaxLoads
    BY <1>3, InvParts DEF Types
  <2>2. calls' \subseteq Call
    BY <1>4, <1>5, InvParts
  <2>3. apart' \subseteq Tabs
    BY <1>3, InvParts DEF Types
  <2>. QED
    BY <1>3, <1>6, <2>1, <2>2, <2>3, InvParts DEF Types, Issued
<1>8. CallTokens'
  BY <1>3, <1>4, <1>5, InvParts DEF CallTokens, Issued
<1>9. SessionIsExplained'
  BY <1>2, <1>3, <1>6, InvParts DEF SessionIsExplained, InOrder
<1>10. SnapshotIsItsTokens'
  BY <1>3 DEF ClientInv, SnapshotIsItsTokens, Issued
<1>11. Fetching'
  <2>. SUFFICES ASSUME NEW c \in calls', c.kind = "fetch", c.tab \notin apart', c.token # None
                PROVE  user'[c.tab] # None /\ owner'[c.token] = user'[c.tab]
    BY DEF Fetching
  <2>1. c \in calls /\ c.tab # t /\ c.tab \in Tabs
    BY <1>4, <1>5, InvParts
  <2>2. user'[c.tab] = user[c.tab] /\ owner' = owner /\ c.tab \notin apart
    BY <1>3, <1>6, <2>1
  <2>. QED
    BY <2>1, <2>2, InvParts DEF Fetching
<1>12. AnswersAreLate'
  <2>. SUFFICES ASSUME NEW c \in calls', c.kind \in {"restore", "profile"},
                       user'[c.tab] = None, ~restoring'[c.tab]
                PROVE  c.token = None \/ c.token # token'
    BY DEF AnswersAreLate
  <2>1. CASE c \in calls /\ c.tab # t
    <3>1. user'[c.tab] = user[c.tab] /\ restoring'[c.tab] = restoring[c.tab] /\ token' = token
      BY <1>3, <1>6, <2>1, InvParts
    <3>. QED
      BY <2>1, <3>1, InvParts DEF AnswersAreLate
  <2>2. CASE c = new /\ token # None
    BY <1>4, <1>6, <2>2
  <2>. QED
    BY <1>5, <2>1, <2>2
<1>13. SigningIn'
  BY <1>3, <1>4, <1>5, <1>6, InvParts DEF SigningIn
<1>. QED
  BY <1>7, <1>8, <1>9, <1>10, <1>11, <1>12, <1>13 DEF ClientInv

(* An answer shows the user of its token in its tab: a restoration, which  *)
(* also brings data and a snapshot, or a profile update.                   *)
LEMMA ShownStep ==
  ASSUME ClientInv, NEW c \in calls, Restored(c) \/ ProfileUpdated(c)
  PROVE  ClientInv' /\ user'[c.tab] # None
<1>1. PICK t \in Tabs, k \in Issued, u \in Users :
        t = c.tab /\ k = c.token /\ u = owner[k]
  BY InvParts DEF Restored, ProfileUpdated, Accepted, CallTokens
<1>2. /\ token' = token /\ user' = [user EXCEPT ![t] = u] /\ UNCHANGED <<page, owner, refused, loads>>
      /\ apart' = apart \cup (IF k # token THEN {t} ELSE {})
      /\ calls' = calls \ {c}
      /\ data' \in {data, [data EXCEPT ![t] = @ \cup {u}]}
      /\ restoring' \in {restoring, [restoring EXCEPT ![t] = FALSE]}
      /\ snapshot' \in {snapshot, [token |-> k, user |-> u]}
  BY <1>1 DEF Restored, ProfileUpdated, Show, Late, storage, server
<1>3. /\ \A o \in Tabs : /\ o # t => user'[o] = user[o] /\ data'[o] = data[o]
                                     /\ restoring'[o] = restoring[o]
                         /\ o = t => user'[o] = u /\ data'[o] \subseteq data[o] \cup {u}
                         /\ restoring'[o] => restoring[o]
      /\ user' \in [Tabs -> Users \cup {None}] /\ data' \in [Tabs -> SUBSET Users]
      /\ restoring' \in [Tabs -> BOOLEAN]
  <2>1. /\ \A o \in Tabs : user'[o] = IF o = t THEN u ELSE user[o]
        /\ user' \in [Tabs -> Users \cup {None}]
    BY <1>2, InvParts
  <2>2. /\ \A o \in Tabs : (o = t => data'[o] \subseteq data[o] \cup {u}) /\ (o # t => data'[o] = data[o])
        /\ data' \in [Tabs -> SUBSET Users]
    <3>1. CASE data' = data
      BY <3>1, InvParts
    <3>2. CASE data' = [data EXCEPT ![t] = data[t] \cup {u}]
      <4>1. data[t] \cup {u} \in SUBSET Users
        BY InvParts
      <4>. QED
        BY <3>2, <4>1, InvParts
    <3>. QED
      BY <1>2, <3>1, <3>2
  <2>3. /\ \A o \in Tabs : (restoring'[o] => restoring[o]) /\ (o # t => restoring'[o] = restoring[o])
        /\ restoring' \in [Tabs -> BOOLEAN]
    BY <1>2, InvParts
  <2>. QED
    BY <2>1, <2>2, <2>3
<1>4. k # token => t \in apart'
  BY <1>2
<1>5. k = token /\ t \notin apart => user[t] \in {u, None}
  BY <1>1, InvParts DEF InOrder
<1>6. apart \subseteq apart' /\ \A o \in Tabs : o # t /\ o \in apart' => o \in apart
  BY <1>2
<1>7. Types'
  <2>1. snapshot' \in [token : Issued, user : Users] \cup {None}
    BY <1>2, InvParts DEF Types
  <2>2. apart' \subseteq Tabs
    BY <1>2, InvParts DEF Types
  <2>. QED
    BY <1>2, <1>3, <2>1, <2>2, InvParts DEF Types, Issued
<1>8. CallTokens'
  BY <1>2, InvParts DEF CallTokens, Issued
<1>9. SessionIsExplained'
  <2>1. ASSUME t \notin apart' PROVE InOrder(t)'
    BY <1>1, <1>2, <1>3, <1>4, <1>5, <1>6, <2>1, InvParts DEF InOrder
  <2>2. ASSUME NEW o \in Tabs, o # t, o \notin apart' PROVE InOrder(o)'
    BY <1>2, <1>3, <1>6, <2>2, InvParts DEF InOrder
  <2>. QED
    BY <2>1, <2>2 DEF SessionIsExplained, InOrder
<1>10. SnapshotIsItsTokens'
  BY <1>1, <1>2 DEF ClientInv, SnapshotIsItsTokens, Issued
<1>11. Fetching'
  <2>1. ASSUME NEW d \in calls', d.kind = "fetch", d.tab \notin apart', d.token # None
        PROVE  user'[d.tab] # None /\ owner'[d.token] = user'[d.tab]
    <3>1. /\ d \in calls /\ d.tab \in Tabs
          /\ user[d.tab] # None /\ owner[d.token] = user[d.tab]
      BY <1>2, <1>6, <2>1, InvParts DEF Fetching
    <3>2. CASE d.tab = t
      BY <1>1, <1>2, <1>3, <1>4, <1>5, <1>6, <2>1, <3>1, <3>2
    <3>3. CASE d.tab # t
      BY <1>2, <1>3, <1>6, <3>1, <3>3
    <3>. QED
      BY <3>2, <3>3
  <2>. QED
    BY <2>1 DEF Fetching
<1>12. AnswersAreLate'
  BY <1>2, <1>3, InvParts DEF AnswersAreLate
<1>13. SigningIn'
  <2>1. ASSUME NEW d \in calls', d.kind = "login"
        PROVE  ~restoring'[d.tab] /\ (user'[d.tab] # None => d.tab \in apart')
    <3>1. /\ d \in calls /\ d.tab \in Tabs /\ ~restoring[d.tab]
          /\ user[d.tab] # None => d.tab \in apart
      BY <1>2, <2>1, InvParts DEF SigningIn
    <3>2. CASE d.tab = t
      <4>1. user[t] = None => k # token
        BY <1>1, <3>1, <3>2, InvParts DEF AnswersAreLate, Restored, ProfileUpdated
      <4>. QED
        BY <1>3, <1>4, <1>6, <3>1, <3>2, <4>1
    <3>3. CASE d.tab # t
      BY <1>3, <1>6, <3>1, <3>3
    <3>. QED
      BY <3>2, <3>3
  <2>. QED
    BY <1>2, <2>1, InvParts DEF SigningIn
<1>14. ClientInv'
  BY <1>7, <1>8, <1>9, <1>10, <1>11, <1>12, <1>13 DEF ClientInv
<1>. QED
  BY <1>1, <1>3, <1>14

(* A login, or a registration, is answered with a new token. *)
LEMMA AuthenticatedStep ==
  ASSUME ClientInv, NEW c \in calls, NEW k \in Tokens, Authenticated(c, k)
  PROVE  ClientInv' /\ \A t \in Tabs : user[t] # None => user'[t] # None
<1>1. PICK t \in Tabs, u \in Users : t = c.tab /\ u = c.user
  BY InvParts DEF Authenticated, CallTokens
<1>2. /\ owner[k] = None /\ owner' = [owner EXCEPT ![k] = u] /\ token' = k
      /\ user' = [user EXCEPT ![t] = u] /\ page' = [page EXCEPT ![t] = Home[u]]
      /\ apart' = (IF data[t] \subseteq {u} /\ Of(t, {"fetch"}) = {} THEN apart \ {t} ELSE apart)
                     \cup Unaware(t)
      /\ calls' = calls \ {c} /\ c.kind = "login"
      /\ UNCHANGED <<snapshot, restoring, data, refused, loads>>
  BY <1>1 DEF Authenticated, Show, GoTo
<1>3. k \notin Issued /\ k # None /\ k \in Issued' /\ Issued \subseteq Issued'
      /\ (\A l \in Issued : owner'[l] = owner[l]) /\ owner'[k] = u /\ u # None
  BY <1>2, InvParts DEF Issued, Tokens
<1>4. /\ \A o \in Tabs : user'[o] = IF o = t THEN u ELSE user[o]
      /\ user' \in [Tabs -> Users \cup {None}] /\ page' \in [Tabs -> Pages]
  BY <1>2, InvParts DEF Pages
<1>5. \A o \in Tabs : o # t /\ user[o] # None => o \in apart'
  BY <1>2 DEF Unaware
<1>6. t \notin apart' => data[t] \subseteq {u} /\ \A d \in Of(t, {"fetch"}) : d.token = None
  <2>1. CASE t \in apart
    BY <1>2, <2>1
  <2>2. CASE t \notin apart
    <3>1. user[t] = None
      BY <1>1, <1>2, <2>2, InvParts DEF SigningIn
    <3>2. data[t] = {} /\ \A d \in Of(t, {"fetch"}) : d.token = None
      BY <2>2, <3>1, InvParts DEF Fetching, Of
    <3>. QED
      BY <3>2
  <2>. QED
    BY <2>1, <2>2
<1>7. apart' \subseteq Tabs /\ \A o \in apart : o # t => o \in apart'
  BY <1>2, InvParts DEF Types, Unaware
<1>8. Types'
  <2>1. owner' \in [Tokens -> Users \cup {None}]
    BY <1>2, InvParts
  <2>2. snapshot' \in [token : Issued', user : Users] \cup {None} /\ refused' \subseteq Issued'
    BY <1>2, <1>3, InvParts DEF Types
  <2>3. token' \in Issued' \cup {None} /\ calls' \subseteq Call
    BY <1>2, <1>3, InvParts
  <2>. QED
    BY <1>2, <1>4, <1>7, <2>1, <2>2, <2>3, InvParts DEF Types
<1>9. CallTokens'
  BY <1>2, <1>3, InvParts DEF CallTokens
<1>10. SessionIsExplained'
  <2>1. ASSUME t \notin apart' PROVE InOrder(t)'
    BY <1>2, <1>3, <1>4, <1>6, <2>1 DEF InOrder
  <2>2. ASSUME NEW o \in Tabs, o # t, o \notin apart' PROVE InOrder(o)'
    BY <1>2, <1>4, <1>5, <1>7, <2>2, InvParts DEF InOrder
  <2>. QED
    BY <2>1, <2>2 DEF SessionIsExplained, InOrder
<1>11. SnapshotIsItsTokens'
  BY <1>2, <1>3 DEF ClientInv, SnapshotIsItsTokens
<1>12. Fetching'
  <2>1. ASSUME NEW d \in calls', d.kind = "fetch", d.tab \notin apart', d.token # None
        PROVE  FALSE
    <3>1. d \in calls /\ d.tab \in Tabs
      BY <1>2, <2>1, InvParts
    <3>2. d.tab # t
      BY <1>6, <2>1, <3>1 DEF Of
    <3>. QED
      BY <1>5, <1>7, <2>1, <3>1, <3>2, InvParts DEF Fetching
  <2>. QED
    BY <2>1 DEF Fetching
<1>13. AnswersAreLate'
  <2>1. \A d \in calls' : d.token \in Issued \cup {None}
    BY <1>2, InvParts DEF CallTokens
  <2>. QED
    BY <1>2, <1>3, <2>1 DEF AnswersAreLate
<1>14. SigningIn'
  <2>1. ASSUME NEW d \in calls', d.kind = "login"
        PROVE  d \in calls /\ d.tab # t /\ d.tab \in Tabs
    BY <1>1, <1>2, <2>1, InvParts DEF SigningIn
  <2>2. \A d \in calls' : d.kind = "login" =>
          ~restoring'[d.tab] /\ (user'[d.tab] # None => d.tab \in apart')
    BY <1>2, <1>4, <1>5, <2>1, InvParts DEF SigningIn
  <2>. QED
    BY <2>1, <2>2, InvParts DEF SigningIn
<1>15. ClientInv'
  BY <1>8, <1>9, <1>10, <1>11, <1>12, <1>13, <1>14 DEF ClientInv
<1>. QED
  BY <1>3, <1>4, <1>15

(* A query's result is added to the query cache. *)
LEMMA FetchedStep ==
  ASSUME ClientInv, NEW c \in calls, Fetched(c)
  PROVE  ClientInv'
<1>1. PICK t \in Tabs, u \in Users :
        t = c.tab /\ u = owner[c.token] /\ (t \notin apart => user[t] = u)
  BY InvParts DEF Fetched, Accepted, CallTokens, Fetching
<1>2. /\ data' = [data EXCEPT ![t] = @ \cup {u}] /\ calls' = calls \ {c}
      /\ UNCHANGED <<token, snapshot, user, restoring, page, owner, refused, loads, apart>>
  BY <1>1 DEF Fetched, storage, server
<1>3. /\ \A o \in Tabs : data'[o] = IF o = t THEN data[o] \cup {u} ELSE data[o]
      /\ data' \in [Tabs -> SUBSET Users]
  <2>1. data[t] \cup {u} \in SUBSET Users
    BY InvParts
  <2>. QED
    BY <1>2, <2>1, InvParts
<1>4. Types' /\ CallTokens'
  BY <1>2, <1>3, InvParts DEF Types, CallTokens, Issued
<1>5. SessionIsExplained'
  BY <1>1, <1>2, <1>3, InvParts DEF SessionIsExplained, InOrder
<1>6. SnapshotIsItsTokens'
  BY <1>2 DEF ClientInv, SnapshotIsItsTokens, Issued
<1>7. Fetching' /\ AnswersAreLate' /\ SigningIn'
  BY <1>2, InvParts DEF Fetching, AnswersAreLate, SigningIn
<1>. QED
  BY <1>4, <1>5, <1>6, <1>7 DEF ClientInv

(* A call fails, a token is refused, or the page changes. *)
LEMMA OtherSteps ==
  ASSUME ClientInv, calls' \subseteq calls, page' \in [Tabs -> Pages],
         refused' \subseteq Issued,
         UNCHANGED <<token, snapshot, user, restoring, data, owner, loads, apart>>
  PROVE  ClientInv'
<1>1. Types' /\ CallTokens'
  BY InvParts DEF Types, CallTokens, Issued
<1>2. SessionIsExplained' /\ SnapshotIsItsTokens'
  BY DEF ClientInv, SessionIsExplained, SnapshotIsItsTokens, Issued
<1>3. Fetching' /\ AnswersAreLate' /\ SigningIn'
  BY InvParts DEF Fetching, AnswersAreLate, SigningIn
<1>. QED
  BY <1>1, <1>2, <1>3 DEF ClientInv

LEMMA PagesKept ==
  ASSUME ClientInv, NEW t \in Tabs, Redirect(t) \/ \E p \in Pages : Navigate(t, p)
  PROVE  ClientInv'
<1>1. Expected(t) \in Pages
  <2>1. user[t] # None => Home[user[t]] \in Pages
    BY InvParts DEF Pages
  <2>2. page[t] \in Pages /\ "auth" \in Pages
    BY InvParts DEF Pages
  <2>3. Expected(t) \in {"auth", page[t], Home[user[t]]} /\ (user[t] = None => Expected(t) = "auth")
    BY DEF Expected
  <2>. QED
    BY <2>1, <2>2, <2>3
<1>2. page' \in [Tabs -> Pages]
  BY <1>1, InvParts DEF Redirect, Navigate, GoTo
<1>3. /\ calls' = calls /\ refused' = refused
      /\ UNCHANGED <<token, snapshot, user, restoring, data, owner, loads, apart>>
  BY DEF Redirect, Navigate, storage, server
<1>4. refused' \subseteq Issued
  BY <1>3, InvParts DEF Types
<1>. QED
  BY <1>2, <1>3, <1>4, OtherSteps

(* A call whose credentials or token are not accepted signs its tab out. *)
LEMMA UnauthorizedStep ==
  ASSUME ClientInv, NEW c \in calls, Unauthorized(c)
  PROVE  ClientInv' /\ \A t \in Tabs : t # c.tab => user'[t] = user[t]
<1>1. PICK t \in Tabs : t = c.tab
  BY InvParts
<1>2. /\ SignOut(t) /\ calls' = DropFetches(t, calls \ {c}) /\ UNCHANGED <<server, loads>>
      /\ restoring' = [restoring EXCEPT ![t] = @ /\ c.kind # "restore"]
  BY <1>1 DEF Unauthorized
<1>3. restoring' \in [Tabs -> BOOLEAN] /\ \A o \in Tabs : restoring'[o] => restoring[o]
  <2>1. (restoring[t] /\ c.kind # "restore") \in BOOLEAN
    OBVIOUS
  <2>2. restoring' \in [Tabs -> BOOLEAN]
    BY <1>2, <2>1, InvParts
  <2>3. \A o \in Tabs : restoring'[o] = IF o = t THEN restoring[o] /\ c.kind # "restore"
                                                 ELSE restoring[o]
    BY <1>2, InvParts
  <2>. QED
    BY <2>2, <2>3
<1>4. ClientInv'
  BY <1>2, <1>3, SignOutStep
<1>5. \A o \in Tabs : o # t => user'[o] = user[o]
  BY <1>2, InvParts DEF SignOut, Show
<1>. QED
  BY <1>1, <1>4, <1>5

LEMMA LogoutStep ==
  ASSUME ClientInv, NEW t \in Tabs, Logout(t)
  PROVE  ClientInv'
<1>1. /\ SignOut(t) /\ calls' = DropFetches(t, calls) /\ UNCHANGED <<restoring, server, loads>>
  BY DEF Logout
<1>2. restoring' \in [Tabs -> BOOLEAN] /\ \A o \in Tabs : restoring'[o] => restoring[o]
  BY <1>1, InvParts
<1>. QED
  BY <1>1, <1>2, SignOutStep

LEMMA ClientStep ==
  ASSUME ClientInv, [Next]_vars
  PROVE  ClientInv'
<1>1. CASE UNCHANGED vars
  <2>1. /\ calls' = calls /\ page' = page /\ refused' = refused
        /\ UNCHANGED <<token, snapshot, user, restoring, data, owner, loads, apart>>
    BY <1>1 DEF vars, storage, server
  <2>. QED
    BY <2>1, OtherSteps, InvParts DEF Types
<1>2. ASSUME NEW t \in Tabs, NEW u \in Users, Login(t, u) PROVE ClientInv'
  BY <1>2, BeginStep DEF Login, Kinds
<1>3. ASSUME NEW t \in Tabs, Fetch(t) \/ UpdateProfile(t) PROVE ClientInv'
  <2>1. CASE UpdateProfile(t)
    BY <2>1, BeginStep DEF UpdateProfile, Kinds
  <2>2. CASE FetchForUser(t)
    BY <2>2, BeginStep DEF FetchForUser, Kinds
  <2>3. CASE FetchForNobody(t)
    BY <2>3, BeginStep DEF FetchForNobody, Kinds
  <2>. QED
    BY <1>3, <2>1, <2>2, <2>3 DEF Fetch
<1>4. ASSUME NEW c \in calls, Fail(c) PROVE ClientInv'
  <2>1. /\ calls' = calls \ {c} /\ page' = page /\ refused' = refused
        /\ UNCHANGED <<token, snapshot, user, restoring, data, owner, loads, apart>>
    BY <1>4 DEF Fail, storage, server
  <2>. QED
    BY <2>1, OtherSteps, InvParts DEF Types
<1>5. ASSUME NEW k \in Tokens, Refuse(k) PROVE ClientInv'
  <2>1. /\ calls' = calls /\ page' = page /\ refused' = refused \cup {k} /\ k \in Issued
        /\ UNCHANGED <<token, snapshot, user, restoring, data, owner, loads, apart>>
    BY <1>5 DEF Refuse, storage
  <2>. QED
    BY <2>1, OtherSteps, InvParts DEF Types
<1>. QED
  BY <1>1, <1>2, <1>3, <1>4, <1>5, StepCases, LoadStep, PagesKept, LogoutStep, ShownStep,
     FailRestoreStep, UnauthorizedStep, FetchedStep, AuthenticatedStep

LEMMA ClientInductive == Spec => []ClientInv
<1>1. Init => ClientInv
  <2>. SUFFICES ASSUME Init PROVE ClientInv
    OBVIOUS
  <2>1. Types /\ CallTokens /\ Fetching /\ AnswersAreLate /\ SigningIn
    BY DEF Init, Types, CallTokens, Fetching, AnswersAreLate, SigningIn, Pages, Issued
  <2>2. SessionIsExplained /\ SnapshotIsItsTokens
    BY DEF Init, SessionIsExplained, SnapshotIsItsTokens
  <2>. QED
    BY <2>1, <2>2 DEF ClientInv
<1>. QED
  BY <1>1, ClientStep, PTL DEF Spec

-----------------------------------------------------------------------------
(* The calls under way stay within their bound. *)
CallsBounded == IsFiniteSet(calls) /\ Cardinality(calls) <= MaxCalls

LEMMA CallsStayBounded ==
  ASSUME CallsBounded, [Next]_vars
  PROVE  CallsBounded'
<1>1. ASSUME calls' \subseteq calls PROVE CallsBounded'
  <2>1. IsFiniteSet(calls') /\ Cardinality(calls') <= Cardinality(calls)
    BY <1>1, FS_Subset DEF CallsBounded
  <2>2. Cardinality(calls') \in Nat /\ Cardinality(calls) \in Nat
    BY <2>1, FS_CardinalityType DEF CallsBounded
  <2>. QED
    BY <2>1, <2>2 DEF CallsBounded
<1>2. ASSUME NEW S, S \subseteq calls, Cardinality(S) < MaxCalls, NEW x, calls' = S \cup {x}
      PROVE  CallsBounded'
  <2>1. IsFiniteSet(S)
    BY <1>2, FS_Subset DEF CallsBounded
  <2>2. /\ IsFiniteSet(S \cup {x}) /\ Cardinality(S) \in Nat
        /\ Cardinality(S \cup {x}) \in {Cardinality(S), Cardinality(S) + 1}
    BY <2>1, FS_AddElement, FS_CardinalityType
  <2>. QED
    BY <1>2, <2>2 DEF CallsBounded
<1>3. ASSUME NEW t, NEW kind, NEW u, Begin(t, kind, u) PROVE CallsBounded'
  BY <1>2, <1>3 DEF Begin
<1>4. ASSUME NEW t, NEW p, Load(t, p) PROVE CallsBounded'
  <2>1. PICK S : S = {c \in calls : c.tab # t}
    OBVIOUS
  <2>2. /\ S \subseteq calls /\ Cardinality(S) < MaxCalls
        /\ calls' = S \/ \E x : calls' = S \cup {x}
    BY <1>4, <2>1 DEF Load, Restore
  <2>. QED
    BY <1>1, <1>2, <2>2
<1>5. calls' = calls => CallsBounded'
  BY <1>1
<1>6. ASSUME NEW c \in calls,
             Restored(c) \/ ProfileUpdated(c) \/ Fetched(c) \/ Fail(c)
               \/ \E k \in Tokens : Authenticated(c, k)
      PROVE  CallsBounded'
  BY <1>1, <1>6 DEF Restored, ProfileUpdated, Fetched, Fail, Authenticated
<1>7. ASSUME NEW t, NEW S \in SUBSET calls, calls' = DropFetches(t, S) PROVE CallsBounded'
  <2>1. IsFiniteSet(S) /\ Cardinality(S) <= Cardinality(calls)
    BY <1>7, FS_Subset DEF CallsBounded
  <2>2. PICK f : f = [c \in S |-> IF c.tab = t /\ c.kind = "fetch" THEN Dropped(c) ELSE c]
    OBVIOUS
  <2>3. /\ f = [c \in S |-> f[c]] /\ \A c \in S : f[c] \in calls'
        /\ \A d \in calls' : \E c \in S : f[c] = d
    BY <1>7, <2>2 DEF DropFetches
  <2>4. f \in Surjection(S, calls')
    BY <2>3 DEF Surjection
  <2>5. IsFiniteSet(calls') /\ Cardinality(calls') <= Cardinality(S)
    BY <2>1, <2>4, FS_Surjection
  <2>6. Cardinality(calls') \in Nat /\ Cardinality(S) \in Nat /\ Cardinality(calls) \in Nat
    BY <2>1, <2>5, FS_CardinalityType DEF CallsBounded
  <2>. QED
    BY <2>1, <2>5, <2>6 DEF CallsBounded
<1>8. ASSUME NEW t, Logout(t) PROVE CallsBounded'
  BY <1>7, <1>8 DEF Logout
<1>9. ASSUME NEW c \in calls, FailRestore(c) \/ Unauthorized(c) PROVE CallsBounded'
  BY <1>7, <1>9 DEF FailRestore, Unauthorized
<1>. QED
  BY <1>3, <1>4, <1>5, <1>6, <1>8, <1>9, StepCases DEF vars, Login, Fetch, FetchForUser,
     FetchForNobody, UpdateProfile, Redirect, Navigate, Refuse

(* Every variable keeps its type, and no more calls are under way than     *)
(* allowed.                                                                *)
THEOREM TypeCorrect == Spec => []TypeOK
<1>1. Init => CallsBounded
  BY FS_EmptySet DEF Init, CallsBounded
<1>2. Spec => []CallsBounded
  BY <1>1, CallsStayBounded, PTL DEF Spec
<1>3. ClientInv /\ CallsBounded => TypeOK
  BY DEF ClientInv, Types, CallsBounded, TypeOK
<1>. QED
  BY <1>2, <1>3, ClientInductive, PTL

(* The session and the data of a tab are those of the stored token, unless *)
(* the tab was not told of a change, for any number of tabs, users and     *)
(* calls under way (AuthContext, lib/api, bootstrapCache).                 *)
THEOREM SessionsAreExplained == Spec => []SessionIsExplained
BY ClientInductive, PTL DEF ClientInv

(* The stored snapshot is of the user its token was issued to, whichever   *)
(* answers came late (bootstrapCache).                                     *)
THEOREM SnapshotsMatchTokens == Spec => []SnapshotIsItsTokens
BY ClientInductive, PTL DEF ClientInv

(* The session of a tab in order ends only when its user logs out or loads *)
(* the page, or when a call of its own is answered 401, for the stored     *)
(* token that was refused or for another one it had left with: no failed   *)
(* fetch or profile update, no restore and no other tab ends it            *)
(* (AuthContext, lib/api).                                                 *)
THEOREM SessionsEndForCause == Spec => EndsForCause
<1>. DEFINE Cause(t) ==
       \/ Logout(t)
       \/ \E p \in Pages : Load(t, p)
       \/ \E c \in Of(t, Kinds \ {"login"}) :
            Unauthorized(c) /\ (c.token = token => token \in refused)
<1>1. ASSUME ClientInv, [Next]_vars, NEW t \in Tabs, Settled(t), user'[t] = None
      PROVE  Cause(t)
  <2>1. user[t] # None /\ t \notin apart /\ token # None /\ user[t] # user'[t]
    BY <1>1, InvParts DEF Settled, InOrder
  <2>2. ASSUME NEW o \in Tabs, Logout(o) PROVE o = t
    BY <1>1, <2>1, <2>2, InvParts DEF Logout, SignOut, Show
  <2>3. ASSUME NEW o \in Tabs, NEW p \in Pages, Load(o, p) PROVE o = t
    BY <1>1, <2>1, <2>3, InvParts DEF Load, Show
  <2>4. ASSUME NEW c \in calls, Unauthorized(c) PROVE Cause(t)
    <3>1. c.tab = t
      BY <1>1, <2>1, <2>4, UnauthorizedStep
    <3>2. c.kind # "login" /\ c.kind \in Kinds
      BY <1>1, <2>1, <3>1, InvParts DEF SigningIn, Call
    <3>3. c.token = token => token \in refused
      BY <2>1, <2>4, <3>2 DEF Unauthorized, Accepted
    <3>. QED
      BY <2>4, <3>1, <3>2, <3>3 DEF Of
  <2>5. ASSUME NEW c \in calls, Restored(c) \/ ProfileUpdated(c) PROVE FALSE
    <3>1. c.tab \in Tabs /\ user' = [user EXCEPT ![c.tab] = owner[c.token]]
      BY <1>1, <2>5, InvParts DEF Restored, ProfileUpdated, Show
    <3>2. user'[c.tab] # None
      BY <1>1, <2>5, ShownStep
    <3>3. c.tab # t
      BY <1>1, <3>2
    <3>. QED
      BY <1>1, <2>1, <3>1, <3>3, InvParts
  <2>6. ASSUME NEW c \in calls, NEW k \in Tokens, Authenticated(c, k) PROVE FALSE
    BY <1>1, <2>1, <2>6, AuthenticatedStep
  <2>7. user' = user => FALSE
    BY <2>1
  <2>. HIDE DEF Cause
  <2>8. \A o \in Tabs, p \in Pages : Load(o, p) => Cause(t)
    BY <2>3 DEF Cause
  <2>9. \A o \in Tabs : Logout(o) => Cause(t)
    BY <2>2 DEF Cause
  <2>10. ASSUME \/ UNCHANGED vars
                \/ \E o \in Tabs, p \in Pages : Navigate(o, p)
                \/ \E o \in Tabs, u \in Users : Login(o, u)
                \/ \E o \in Tabs : Fetch(o) \/ UpdateProfile(o) \/ Redirect(o)
                \/ \E c \in calls : FailRestore(c) \/ Fetched(c) \/ Fail(c)
                \/ \E k \in Tokens : Refuse(k)
         PROVE  user' = user
    BY <2>10 DEF vars, Navigate, Redirect, Login, Fetch, FetchForUser, FetchForNobody,
       UpdateProfile, FailRestore, Fetched, Fail, Refuse
  <2>. QED
    BY <1>1, <2>4, <2>5, <2>6, <2>7, <2>8, <2>9, <2>10, StepCases
<1>2. ClientInv /\ [Next]_vars =>
        [\A t \in Tabs : Settled(t) /\ user'[t] = None => Cause(t)]_vars
  BY <1>1
<1>. QED
  BY <1>2, ClientInductive, PTL DEF Spec, EndsForCause
=============================================================================
