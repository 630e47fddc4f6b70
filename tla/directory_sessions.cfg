SPECIFICATION Spec
CONSTANTS
  d1 = d1
  d2 = d2
  n1 = n1
  n2 = n2
  Departments = {d1, d2}
  Offices = {o1}
  Faculty = {f1}
  Names = {n1, n2}
  Positions = {"DEAN", "PROFESSOR"}
  Workers = {w1, w2}
  MaxCommits = 2
  None = None
  Tokens = {k1}
  Checks = {c1, c2}
  TTL = 2
SYMMETRY Symmetry
CONSTRAINT OneTopic
INVARIANT PagesAreExplained
PROPERTIES PauseEndsStaleSession RefusedForGood
