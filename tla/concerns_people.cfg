SPECIFICATION Spec
CONSTANTS
  t1 = t1
  t2 = t2
  h1 = h1
  h2 = h2
  Concerns = {c1, c2}
  Targets = {t1}
  Students = {s1, s2, s3}
  Visibilities = {"PUBLIC", "PRIVATE"}
  Admins = {}
  Handlers = {}
  Scope <- MCScope0
  References = {n1, n2}
  Workers = {w1, w2}
  MaxTimeline = 3
  None = None
SYMMETRY SymmetryPeople
INVARIANTS SupportersMatchTimeline NoticesAreBacked ReferencesIdentify
