------------------------------ MODULE Sessions ------------------------------
(***************************************************************************)
(* Sessions of faculty members beside the administration of their accounts *)
(* (modules/auth and shared/middleware/authenticate). A login signs a      *)
(* token with the role of the account it has read. authenticate looks up   *)
(* the account of a token, unless the process has done so recently: an     *)
(* answer is kept per token for AUTH_CACHE_TTL_MS, and every request that  *)
(* finds it keeps it for another AUTH_CACHE_TTL_MS.                        *)
(*                                                                         *)
(* The accounts are the rows of Directory, where administrators deactivate *)
(* members and change their positions, and with them their roles.          *)
(***************************************************************************)
EXTENDS Directory

CONSTANTS Tokens,
          Checks,  \* logins and lookups the server runs at a time
          TTL      \* AUTH_CACHE_TTL_MS, in ticks of the clock

ASSUME TTLAssumption == TTL \in Nat

VARIABLES
  token,   \* the user and role a token was signed for, or None
  left,    \* ticks for which the answer about a token is still kept
  check,   \* what each login or lookup has read
  quiet,   \* history: ticks since a token was last accepted, TTL at most
  ended    \* history: tokens that were refused for an inactive user while
           \* nothing else was known or asked about them

sessionVars == <<token, left, check, quiet, ended>>
vars == <<directoryVars, sessionVars>>

-----------------------------------------------------------------------------
NoCheck == [op |-> "idle"]
Claim == [user : Faculty, role : Positions]
Check == {NoCheck} \cup [op : {"login"}, claim : Claim]
                   \cup [op : {"lookup"}, token : Tokens, valid : BOOLEAN]

(* Types of every variable, those of the directory included. *)
TypeOK ==
  /\ DirectoryTypeOK
  /\ token \in [Tokens -> Claim \cup {None}]
  /\ left \in [Tokens -> 0..TTL]
  /\ check \in [Checks -> Check]
  /\ quiet \in [Tokens -> 0..TTL]
  /\ ended \subseteq Tokens

Init ==
  /\ DirectoryInit
  /\ token = [t \in Tokens |-> None]
  /\ left = [t \in Tokens |-> 0]
  /\ check = [c \in Checks |-> NoCheck]
  /\ quiet = [t \in Tokens |-> 0]
  /\ ended = {}

-----------------------------------------------------------------------------
(* login: the account is read, the password compared, a token signed.      *)
StartLogin(c, f) ==
  /\ check[c] = NoCheck
  /\ f \in ActiveMembers
  /\ check' = [check EXCEPT
       ![c] = [op |-> "login", claim |-> [user |-> f, role |-> faculty[f].position]]]
  /\ UNCHANGED <<token, left, quiet, ended>>

Sign(c, t) ==
  /\ check[c].op = "login" /\ token[t] = None
  /\ token' = [token EXCEPT ![t] = check[c].claim]
  /\ check' = [check EXCEPT ![c] = NoCheck]
  /\ UNCHANGED <<left, quiet, ended>>

Active(t) == faculty[token[t].user].active
Valid(t) == Active(t) /\ faculty[token[t].user].position = token[t].role

(* cacheUser and next(): the request is let through. *)
Accept(t) ==
  /\ left' = [left EXCEPT ![t] = TTL]
  /\ quiet' = [quiet EXCEPT ![t] = 0]

(* authenticate, when an answer is kept: only good ones are. *)
AcceptFor(t) == token[t] # None /\ Accept(t) /\ UNCHANGED <<token, check, ended>>

HitAnyAge(t) == AcceptFor(t)

Hit(t) == left[t] > 0 /\ AcceptFor(t)

(* authenticate, when none is kept. *)
StartLookup(c, t) ==
  /\ check[c] = NoCheck /\ token[t] # None /\ left[t] = 0
  /\ check' = [check EXCEPT ![c] = [op |-> "lookup", token |-> t, valid |-> Valid(t)]]
  /\ UNCHANGED <<token, left, quiet, ended>>

LookedUp(c, t) == check[c].op = "lookup" /\ check[c].token = t

AcceptLookup(c, t) ==
  /\ LookedUp(c, t) /\ check[c].valid
  /\ Accept(t)
  /\ check' = [check EXCEPT ![c] = NoCheck]
  /\ UNCHANGED <<token, ended>>

Alone(c, t) == left[t] = 0 /\ \A b \in Checks \ {c} : ~LookedUp(b, t)

RefuseLookup(c, t) ==
  /\ LookedUp(c, t) /\ ~check[c].valid
  /\ check' = [check EXCEPT ![c] = NoCheck]
  /\ ended' = IF ~Active(t) /\ Alone(c, t) THEN ended \cup {t} ELSE ended
  /\ UNCHANGED <<token, left, quiet>>

Tick ==
  /\ left' = [t \in Tokens |-> IF left[t] > 0 THEN left[t] - 1 ELSE 0]
  /\ quiet' = [t \in Tokens |-> IF quiet[t] < TTL THEN quiet[t] + 1 ELSE TTL]
  /\ UNCHANGED <<token, check, ended>>

-----------------------------------------------------------------------------
Request(c) ==
  \/ \E f \in Faculty : StartLogin(c, f)
  \/ \E t \in Tokens : Sign(c, t) \/ StartLookup(c, t) \/ AcceptLookup(c, t) \/ RefuseLookup(c, t)

SessionNext == (\E c \in Checks : Request(c)) \/ (\E t \in Tokens : Hit(t)) \/ Tick

Next == \/ DirectoryNext /\ UNCHANGED sessionVars
        \/ SessionNext /\ UNCHANGED directoryVars

Spec == Init /\ [][Next]_vars

-----------------------------------------------------------------------------
(* Properties. *)

Accepted(t) == Hit(t) \/ \E c \in Checks : AcceptLookup(c, t)

(* A token whose account has been deactivated, or has another role by now, *)
(* is accepted without a new look at the account only as long as its       *)
(* requests follow each other within AUTH_CACHE_TTL_MS: one pause of that  *)
(* length ends it.                                                         *)
PauseEndsStaleSession ==
  [][\A t \in Tokens : Accepted(t) /\ ~Valid(t) =>
       quiet[t] < TTL \/ \E c \in Checks : LookedUp(c, t) /\ check'[c] # check[c]]_vars

(* A deactivated user whose token was refused, while no other lookup of it *)
(* was under way, is never let in with it again: no later edit of the      *)
(* account and no answer still kept revives the session.                   *)
RefusedForGood == [][\A t \in ended : ~Accepted(t)]_vars
=============================================================================
