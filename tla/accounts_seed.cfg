SPECIFICATION Spec
CONSTANTS
  e1 = e1
  e2 = e2
  e3 = e3
  n1 = n1
  n2 = n2
  d1 = d1
  d2 = d2
  m1 = m1
  m2 = m2
  Users = {u1, u2, u3}
  Profiles = {p1, p2, p3}
  Units = {x1, x2}
  Emails = {e1, e2, e3}
  UnitEmails = {m1, m2}
  Numbers = {n1, n2}
  Names = {d1, d2}
  UnitSeeds <- MCUnitSeeds
  AccountSeeds <- MCAccountSeeds
  MaxWrites = 2
  MaxRuns = 3
  None = None
SYMMETRY Symmetry
INVARIANTS ProfilesAreExplained SuccessIsSeeded FailsOnlyAfterEdit
CHECK_DEADLOCK FALSE
