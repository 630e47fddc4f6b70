SPECIFICATION Spec
CONSTANTS
  t1 = t1
  t2 = t2
  m1 = m1
  Ids = {i1, i2}
  Targets = {t1}
  Admins = {x1}
  Managers = {m1}
  Charge <- MCCharge
  Days = {1}
  MaxMinute = 2
  Ticks = 2
  Windows <- MCWindows
  Patches <- MCFewPatches
  Workers = {w1, w2}
  None = None
SYMMETRY Symmetry
INVARIANTS TypeOK OffersAreExact
PROPERTY OnlyOvertakenMisfit
