--------------------------- MODULE ClientSession ---------------------------
(***************************************************************************)
(* The sessions of the web client: features/auth/AuthContext, the          *)
(* interceptors of lib/api, the stored snapshot (bootstrapCache) and the   *)
(* router. Several tabs of one browser share what localStorage keeps, the  *)
(* access token and the snapshot of the last bootstrap; the user shown,    *)
(* the query cache and the page are each tab's own.                        *)
(*                                                                         *)
(* A call reads the stored token when it leaves, and the handlers of its   *)
(* answer run whatever has happened to the session meanwhile: nothing      *)
(* cancels a restore, a login or a profile update. Fetches stand for the   *)
(* queries, whose results the query client drops once it is cleared; their *)
(* requests go on, and a 401 is acted on by whomever it finds.             *)
(*                                                                         *)
(* Pages are told apart by their workspace; a user is known to the client  *)
(* by the role whose workspace is home.                                    *)
(*                                                                         *)
(* Some definitions stand before the one they vary as an error of the code *)
(* would; the properties below notice every such error.                    *)
(***************************************************************************)
EXTENDS Naturals, FiniteSets

CONSTANTS Users,      \* accounts that sign in on this browser
          Tabs,       \* tabs it has open
          Workspaces, \* AppRole, or a part of it
          Home,       \* the workspace of each user's role
          MaxTokens,  \* bound: tokens the server issues
          MaxLoads,   \* bound: pages loaded, or loaded again
          MaxCalls,   \* bound: calls under way
          None        \* no token, no user, an empty storage

ASSUME SessionAssumption ==
  /\ Workspaces \subseteq {"student", "office", "department", "faculty", "office_head", "admin"}
  /\ Home \in [Users -> Workspaces \ {"office_head"}]
  /\ {MaxTokens, MaxLoads, MaxCalls} \subseteq Nat
  /\ None \notin Users \cup Nat

VARIABLES
  token, snapshot,              \* localStorage
  user, restoring, data, page,  \* each tab: AuthContext, whose data its query
                                \* cache holds, and the route it shows
  calls,                        \* requests without an answer
  owner, refused,               \* the server: whom each token was issued to,
                                \* and the tokens it no longer accepts
  loads,                        \* number of pages loaded
  apart                         \* history: tabs whose session the code lets
                                \* differ from the stored one

storage == <<token, snapshot>>
server == <<owner, refused>>
vars == <<storage, user, restoring, data, page, calls, server, loads, apart>>

-----------------------------------------------------------------------------
Tokens == 1..MaxTokens
Issued == {k \in Tokens : owner[k] # None}

Kinds == {"restore", "login", "profile", "fetch", "dropped"}
Call == [tab : Tabs, kind : Kinds, token : Tokens \cup {None}, user : Users \cup {None}]

Pages == Workspaces \cup {"auth"}  \* "auth" is #login and #register

TypeOK ==
  /\ token \in Issued \cup {None}
  /\ snapshot \in [token : Issued, user : Users] \cup {None}
  /\ user \in [Tabs -> Users \cup {None}]
  /\ restoring \in [Tabs -> BOOLEAN]
  /\ data \in [Tabs -> SUBSET Users]
  /\ page \in [Tabs -> Pages]
  /\ calls \subseteq Call /\ Cardinality(calls) <= MaxCalls
  /\ owner \in [Tokens -> Users \cup {None}]
  /\ refused \subseteq Issued
  /\ loads \in 0..MaxLoads
  /\ apart \subseteq Tabs

(* A browser that nobody has signed in on. *)
Init ==
  /\ token = None /\ snapshot = None
  /\ user = [t \in Tabs |-> None]
  /\ restoring = [t \in Tabs |-> FALSE]
  /\ data = [t \in Tabs |-> {}]
  /\ page = [t \in Tabs |-> "auth"]
  /\ calls = {}
  /\ owner = [k \in Tokens |-> None] /\ refused = {}
  /\ loads = 0
  /\ apart = {}

-----------------------------------------------------------------------------
(* What a step of tab t does to its own state, to the storage, and to the  *)
(* tabs that are not told.                                                 *)

Of(t, kinds) == {c \in calls : c.tab = t /\ c.kind \in kinds}

Begin(t, kind, u) ==
  /\ Cardinality(calls) < MaxCalls
  /\ calls' = calls \cup {[tab |-> t, kind |-> kind, token |-> token, user |-> u]}

(* Tabs that show a user while the token is replaced behind their back. *)
Unaware(t) == {o \in Tabs \ {t} : user[o] # None}

(* The queries' results are not wanted any more. *)
Dropped(c) == [c EXCEPT !.kind = "dropped"]
DropFetches(t, S) == {IF c.tab = t /\ c.kind = "fetch" THEN Dropped(c) ELSE c : c \in S}

Show(t, u) == user' = [user EXCEPT ![t] = u]
ClearQueries(t) == data' = [data EXCEPT ![t] = {}]
GoTo(t, p) == page' = [page EXCEPT ![t] = p]

(* setUser(null), clearStoredBootstrap, queryClient.clear, '#login', and  *)
(* the token removed by the caller.                                       *)
SignOut(t) ==
  /\ token' = None /\ snapshot' = None
  /\ Show(t, None) /\ ClearQueries(t) /\ GoTo(t, "auth")
  /\ apart' = (apart \cup (IF token = None THEN {} ELSE Unaware(t))) \ {t}

-----------------------------------------------------------------------------
(* Loading a page: what the tab knew and waited for is gone. The snapshot  *)
(* of the stored token is shown at once, and the bootstrap is asked for.   *)

ReadStoredAnyToken == IF token = None \/ snapshot = None THEN None ELSE snapshot.user

ReadStored ==
  IF token = None \/ snapshot = None THEN None
  ELSE IF snapshot.token = token THEN snapshot.user ELSE None

Restore(t) ==
  LET rest == {c \in calls : c.tab # t} IN
  /\ Cardinality(rest) < MaxCalls
  /\ calls' = IF token = None THEN rest
              ELSE rest \cup {[tab |-> t, kind |-> "restore", token |-> token, user |-> None]}

Load(t, p) ==
  /\ loads < MaxLoads /\ loads' = loads + 1
  /\ Restore(t)
  /\ Show(t, ReadStored)
  /\ data' = [data EXCEPT ![t] = IF ReadStored = None THEN {} ELSE {ReadStored}]
  /\ restoring' = [restoring EXCEPT ![t] = token # None /\ ReadStored = None]
  /\ GoTo(t, p)
  /\ apart' = apart \ {t}
  /\ UNCHANGED <<storage, server>>

(* The form of the login page; also a registration, which signs in. A tab  *)
(* with a user has left that page before anyone can fill in its form.      *)
Login(t, u) ==
  /\ user[t] = None /\ page[t] = "auth" /\ ~restoring[t] /\ Of(t, {"login"}) = {}
  /\ Begin(t, "login", u)
  /\ UNCHANGED <<storage, user, restoring, data, page, server, loads, apart>>

(* A page's queries are sent when it is rendered, and the router renders   *)
(* it before its effect has looked at the user: with none, they carry the  *)
(* token another tab may have stored. The student's context asks on every  *)
(* page, but only for a user.                                              *)
FetchForUser(t) ==
  /\ user[t] # None /\ ~restoring[t] /\ Of(t, {"fetch"}) = {}
  /\ Begin(t, "fetch", None)
  /\ UNCHANGED <<storage, user, restoring, data, page, server, loads, apart>>

FetchForNobody(t) ==
  /\ user[t] = None /\ page[t] # "auth" /\ ~restoring[t] /\ Of(t, {"fetch"}) = {}
  /\ Begin(t, "fetch", None)
  /\ apart' = apart \cup (IF token = None THEN {} ELSE {t})
  /\ UNCHANGED <<storage, user, restoring, data, page, server, loads>>

Fetch(t) == FetchForUser(t) \/ FetchForNobody(t)

UpdateProfile(t) ==
  /\ user[t] # None /\ ~restoring[t] /\ Of(t, {"profile"}) = {}
  /\ Begin(t, "profile", None)
  /\ UNCHANGED <<storage, user, restoring, data, page, server, loads, apart>>

Logout(t) ==
  /\ user[t] # None /\ ~restoring[t]
  /\ SignOut(t)
  /\ calls' = DropFetches(t, calls)
  /\ UNCHANGED <<restoring, server, loads>>

-----------------------------------------------------------------------------
(* Answers. *)

Accepted(c) == c.token # None /\ c.token \notin refused

(* The answer shows a user whose token is no longer the stored one. *)
Late(c) == IF c.token # token THEN {c.tab} ELSE {}

RestoredWithStoredToken(c) ==
  /\ c.kind = "restore" /\ Accepted(c)
  /\ data' = [data EXCEPT ![c.tab] = @ \cup {owner[c.token]}]
  /\ snapshot' = [token |-> token, user |-> owner[c.token]]
  /\ Show(c.tab, owner[c.token])
  /\ restoring' = [restoring EXCEPT ![c.tab] = FALSE]
  /\ apart' = apart \cup Late(c)
  /\ calls' = calls \ {c}
  /\ UNCHANGED <<token, page, server, loads>>

(* hydrateBootstrapCache replaces the entries the bootstrap has; those of  *)
(* another user that it has not, stay.                                     *)
Restored(c) ==
  /\ c.kind = "restore" /\ Accepted(c)
  /\ data' = [data EXCEPT ![c.tab] = @ \cup {owner[c.token]}]
  /\ snapshot' = [token |-> c.token, user |-> owner[c.token]]
  /\ Show(c.tab, owner[c.token])
  /\ restoring' = [restoring EXCEPT ![c.tab] = FALSE]
  /\ apart' = apart \cup Late(c)
  /\ calls' = calls \ {c}
  /\ UNCHANGED <<token, page, server, loads>>

(* Any error ends the stored session, also one that another tab or a later *)
(* login has begun; a user shown from the snapshot stays.                  *)
FailRestore(c) ==
  /\ c.kind = "restore"
  /\ token' = None /\ snapshot' = None
  /\ ClearQueries(c.tab)
  /\ restoring' = [restoring EXCEPT ![c.tab] = FALSE]
  /\ apart' = (apart \ {c.tab})
                 \cup {t \in Tabs : user[t] # None /\ (t = c.tab \/ token # None)}
  /\ calls' = DropFetches(c.tab, calls \ {c})
  /\ UNCHANGED <<user, page, server, loads>>

(* The token and the user of the answer; it carries no bootstrap, so that  *)
(* neither the query cache nor the snapshot changes. The tab is in order   *)
(* if its queries hold nobody else's data, and wait for none.              *)
Authenticated(c, k) ==
  /\ c.kind = "login" /\ owner[k] = None /\ \A l \in 1..(k - 1) : owner[l] # None
  /\ owner' = [owner EXCEPT ![k] = c.user]
  /\ token' = k
  /\ Show(c.tab, c.user) /\ GoTo(c.tab, Home[c.user])
  /\ apart' = (IF data[c.tab] \subseteq {c.user} /\ Of(c.tab, {"fetch"}) = {}
                 THEN apart \ {c.tab} ELSE apart)
                 \cup Unaware(c.tab)
  /\ calls' = calls \ {c}
  /\ UNCHANGED <<snapshot, restoring, data, refused, loads>>

ProfileUpdated(c) ==
  /\ c.kind = "profile" /\ Accepted(c)
  /\ Show(c.tab, owner[c.token])
  /\ apart' = apart \cup Late(c)
  /\ calls' = calls \ {c}
  /\ UNCHANGED <<storage, restoring, data, page, server, loads>>

Fetched(c) ==
  /\ c.kind = "fetch" /\ Accepted(c)
  /\ data' = [data EXCEPT ![c.tab] = @ \cup {owner[c.token]}]
  /\ calls' = calls \ {c}
  /\ UNCHANGED <<storage, user, restoring, page, server, loads, apart>>

(* 401: wrong credentials, or a token that is missing or not accepted. The *)
(* stored token is removed, whichever token the call had carried, and only *)
(* this tab is told. A restore has its own handler for errors as well.     *)
Unauthorized(c) ==
  /\ c.kind = "login" \/ ~Accepted(c)
  /\ SignOut(c.tab)
  /\ restoring' = [restoring EXCEPT ![c.tab] = @ /\ c.kind # "restore"]
  /\ calls' = DropFetches(c.tab, calls \ {c})
  /\ UNCHANGED <<server, loads>>

(* As if the interceptor signed out on every error of a query. *)
FailSignsOut(c) ==
  /\ c.kind = "fetch"
  /\ SignOut(c.tab)
  /\ calls' = DropFetches(c.tab, calls \ {c})
  /\ UNCHANGED <<restoring, server, loads>>

(* Another error, also 403 for an inactive account, or none within 15 s;   *)
(* or the answer to a query that has been dropped.                         *)
Fail(c) ==
  /\ c.kind # "restore"
  /\ calls' = calls \ {c}
  /\ UNCHANGED <<storage, user, restoring, data, page, server, loads, apart>>

RestoreEnds(c) == Restored(c) \/ FailRestore(c) \/ (c.kind = "restore" /\ Unauthorized(c))

(* A token expires, or its user's account is gone. *)
Refuse(k) ==
  /\ k \in Issued \ refused
  /\ refused' = refused \cup {k}
  /\ UNCHANGED <<storage, user, restoring, data, page, calls, owner, loads, apart>>

-----------------------------------------------------------------------------
(* The router. Its effect compares the hash of the route with that of the  *)
(* user's workspace, as strings: '#office-head' begins with '#office'.     *)

BeginsWith(p, w) == p = w \/ (p = "office_head" /\ w = "office")

ExpectedOnlyFromAuth(t) ==
  CASE user[t] = None                      -> "auth"
    [] user[t] # None /\ page[t] = "auth"  -> Home[user[t]]
    [] OTHER                               -> page[t]

Expected(t) ==
  CASE user[t] = None                                         -> "auth"
    [] user[t] # None /\ BeginsWith(page[t], Home[user[t]])  -> page[t]
    [] user[t] # None /\ ~BeginsWith(page[t], Home[user[t]]) -> Home[user[t]]

Redirect(t) ==
  /\ ~restoring[t] /\ page[t] # Expected(t)
  /\ GoTo(t, Expected(t))
  /\ UNCHANGED <<storage, user, restoring, data, calls, server, loads, apart>>

(* A link, the address bar, or the history of the tab. *)
Navigate(t, p) ==
  /\ GoTo(t, p)
  /\ UNCHANGED <<storage, user, restoring, data, calls, server, loads, apart>>

-----------------------------------------------------------------------------
Answer(c) ==
  RestoreEnds(c) \/ (\E k \in Tokens : Authenticated(c, k)) \/ ProfileUpdated(c)
    \/ Fetched(c) \/ Unauthorized(c) \/ Fail(c)

Next ==
  \/ \E t \in Tabs, p \in Pages : Load(t, p) \/ Navigate(t, p)
  \/ \E t \in Tabs, u \in Users : Login(t, u)
  \/ \E t \in Tabs : Fetch(t) \/ UpdateProfile(t) \/ Logout(t) \/ Redirect(t)
  \/ \E c \in calls : Answer(c)
  \/ \E k \in Tokens : Refuse(k)

(* Every restore ends, with an answer or after 15 s; effects run. *)
Fairness ==
  \A t \in Tabs :
    /\ WF_vars(Redirect(t))
    /\ WF_vars(\E c \in calls : c.tab = t /\ RestoreEnds(c))

Spec == Init /\ [][Next]_vars /\ Fairness

-----------------------------------------------------------------------------
(* Properties. *)

(* The user a tab shows is the one the stored token was issued to, and the *)
(* query cache holds nobody else's data, except in a tab that was not told *)
(* of a change to the session: another tab has replaced or removed the     *)
(* token, an answer has come for a token that is no longer the stored one, *)
(* or a restore has failed after its snapshot was shown; or which, without *)
(* a user, has rendered a page while another tab's token was stored.       *)
(* Signing out and loading the page mend it, and so does signing in,       *)
(* unless the queries hold or wait for another user's data: nothing clears *)
(* them at a login.                                                        *)
SessionIsExplained ==
  \A t \in Tabs \ apart :
    /\ data[t] \subseteq {user[t]}
    /\ user[t] # None => token # None /\ owner[token] = user[t]

(* A snapshot is of the user its token was issued to, whichever answers    *)
(* came late: a page that is loaded never shows one user's data to         *)
(* another.                                                                *)
SnapshotIsItsTokens ==
  snapshot # None => snapshot.token \in Issued /\ owner[snapshot.token] = snapshot.user

(* The session of a tab that was told of everything ends only when its     *)
(* user logs out or loads the page, or when a call that the tab made, not  *)
(* a login, is answered 401, either because the server no longer accepts   *)
(* the stored token or because the call had left with another one: no      *)
(* other error, of a fetch or of any other call, no restore and no step of *)
(* another tab ends it.                                                    *)
Settled(t) == user[t] # None /\ t \notin apart
EndsForCause ==
  [][\A t \in Tabs :
       Settled(t) /\ user'[t] = None =>
         \/ Logout(t)
         \/ \E p \in Pages : Load(t, p)
         \/ \E c \in Of(t, Kinds \ {"login"}) :
              Unauthorized(c) /\ (c.token = token => token \in refused)]_vars

(* Every page load ends on a page of the workspace of the user, or on the  *)
(* login page when there is none.                                          *)
Placed(t) ==
  /\ ~restoring[t]
  /\ IF user[t] = None THEN page[t] = "auth" ELSE BeginsWith(page[t], Home[user[t]])
LoadsArePlaced == \A t \in Tabs : restoring[t] ~> Placed(t)
=============================================================================
