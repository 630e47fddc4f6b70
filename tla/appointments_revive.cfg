SPECIFICATION Spec
CONSTANTS
  t1 = t1
  t2 = t2
  h1 = h1
  h2 = h2
  Appointments = {a1}
  Students = {s1}
  Targets = {t1}
  Admins = {}
  Handlers = {h1}
  Charge <- MCOneCharge
  Slots <- MCOneSlot
  Workers = {w1, w2}
  MaxHistory = 1
  None = None
PROPERTY ApprovedFromAllowed
