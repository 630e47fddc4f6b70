----------------------------- MODULE MCConcerns -----------------------------
(* Concerns for TLC: who handles what in the instances.                    *)
EXTENDS Concerns, TLC

CONSTANTS t1, t2, h1, h2

MCScope0 == [h \in {} |-> t1]
MCScope1 == [h \in {h1} |-> t1]

Symmetry == Permutations(Workers)
SymmetryPeople == Permutations(Workers) \cup Permutations(Students)
=============================================================================
