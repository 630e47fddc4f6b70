SPECIFICATION Spec
CONSTANTS
  t1 = t1
  t2 = t2
  h1 = h1
  h2 = h2
  Appointments = {a1, a2}
  Students = {s1, s2}
  Targets = {t1, t2}
  Admins = {x1}
  Handlers = {}
  Charge <- MCNoCharge
  Slots <- MCSlots
  Workers = {w1, w2}
  MaxHistory = 1
  None = None
SYMMETRY SymmetryAll
VIEW CalendarView
INVARIANTS NoDoubleBooking
PROPERTY ImplementsCalendar
