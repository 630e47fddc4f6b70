----------------------------- MODULE MCAccounts -----------------------------
(* Accounts for TLC: a script of two units, a student and another account. *)
EXTENDS Accounts, TLC

CONSTANTS e1, e2, e3, n1, n2, d1, d2, m1, m2

MCUnitSeeds == <<[name |-> d1, email |-> m1], [name |-> d2, email |-> m2]>>
MCAccountSeeds == <<[role |-> "STUDENT", email |-> e1, number |-> n1, unit |-> 1],
                    [role |-> "OFFICE_STAFF", email |-> e2, number |-> None, unit |-> 2]>>

Symmetry == Permutations(Users) \cup Permutations(Profiles) \cup Permutations(Units)
=============================================================================
