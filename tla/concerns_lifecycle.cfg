SPECIFICATION Spec
CONSTANTS
  t1 = t1
  t2 = t2
  h1 = h1
  h2 = h2
  Concerns = {c1}
  Targets = {t1, t2}
  Students = {s1}
  Visibilities = {"PRIVATE"}
  Admins = {a1}
  Handlers = {h1}
  Scope <- MCScope1
  References = {n1}
  Workers = {w1, w2}
  MaxTimeline = 5
  None = None
SYMMETRY Symmetry
INVARIANTS TypeOK StatusMatchesTimeline AnsweredHasReport ResolvedByOwner RowsMatchTimeline HandlersWereInCharge
PROPERTY OnlyOvertakenLeaveWorkflow
