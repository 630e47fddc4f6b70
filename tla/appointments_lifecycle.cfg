SPECIFICATION Spec
CONSTANTS
  t1 = t1
  t2 = t2
  h1 = h1
  h2 = h2
  Appointments = {a1}
  Students = {s1}
  Targets = {t1, t2}
  Admins = {x1}
  Handlers = {h1, h2}
  Charge <- MCDeanCharge
  Slots <- MCHalves
  Workers = {w1, w2}
  MaxHistory = 3
  None = None
SYMMETRY Symmetry
INVARIANTS TypeOK HistoryLeadsToSlot
PROPERTY OnlyOvertakenMisstep
