--------------------------- MODULE MCClientPages ---------------------------
(* The client's pages for TLC: a feed with a concern of the student's own, *)
(* and targets whose slots share a day, a start, both or neither.          *)
EXTENDS ClientPages, TLC

CONSTANTS c1, c2, c3

Time(d, f, t) == [day |-> d, from |-> f, to |-> t]

MCOpening == Time(1, 1, 2)
MCSchedules == {{Time(1, 1, 2), Time(1, 2, 3)}, {Time(1, 1, 3), Time(2, 1, 2)}}

Symmetry == Permutations(Targets) \cup Permutations(Concerns \ OwnConcerns)
              \cup Permutations(Searches)
=============================================================================
