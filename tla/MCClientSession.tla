-------------------------- MODULE MCClientSession --------------------------
(* The sessions of two people who share a browser, for TLC. *)
EXTENDS ClientSession, TLC

CONSTANTS u1, u2

MCHome == (u1 :> "student") @@ (u2 :> "office")

Symmetry == Permutations(Tabs)

(* Bounds: one tab at a time is away from where the router wants it, and   *)
(* only its restore, a login that began before, or what a page without a   *)
(* user has fetched, is under way meanwhile; nothing but a tab's restore   *)
(* is while it shows the page that begins with another workspace's name;   *)
(* one token is refused.                                                   *)
OneAtATime ==
  LET astray == {t \in Tabs : page[t] # Expected(t)} IN
  /\ Cardinality(astray) <= 1
  /\ \A t \in astray :
       \/ \E kind \in {"restore", "login"} : calls = Of(t, {kind})
       \/ user[t] = None /\ calls = Of(t, {"fetch"})
  /\ \A t \in Tabs : page[t] = "office_head" => calls = Of(t, {"restore"})
  /\ Cardinality(refused) <= 1
=============================================================================
