----------------------------- MODULE MCSessions -----------------------------
(* Sessions, and the directory they share their accounts with, for TLC.    *)
EXTENDS Sessions, TLC

CONSTANTS d1, d2, n1, n2

Symmetry == Permutations(Workers) \cup Permutations(Names) \cup Permutations(Departments)

(* Bounds: one topic per behaviour. Either there are offices and pages of  *)
(* offices are read; or there are none, and pages of departments are read, *)
(* or of faculty, or tokens are used. Mutations go on beside all of them,  *)
(* beside sessions one at a time.                                          *)
InUse(k) == cache[k] # None \/ \E w \in Workers : job[w].op = "load" /\ job[w].kind = k
SessionsInUse == token # [t \in Tokens |-> None] \/ check # [c \in Checks |-> NoCheck]

OneTopic ==
  LET kinds == {k \in Kinds : InUse(k)}
      offices == \E o \in Offices : office[o] # None
  IN  /\ Cardinality(kinds) <= 1
      /\ offices => kinds \subseteq {"offices"} /\ ~SessionsInUse /\ AllMembers = {}
      /\ SessionsInUse => /\ kinds = {}
                         /\ Cardinality({w \in Workers : job[w] # Idle}) <= 1
=============================================================================
