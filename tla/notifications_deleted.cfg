SPECIFICATION Spec
CONSTANTS
  e1 = e1
  e2 = e2
  u1 = u1
  u2 = u2
  u3 = u3
  Events = {e1}
  Type <- MCTypes
  Owner <- MCOwner
  InCharge <- MCInCharge
  Users = {u1, u2}
  Workers = {w1}
  QueueModes = {TRUE}
  MaxAttempts = 2
  MaxStalled = 1
  None = None
INVARIANT DeletedStaysDeleted
CHECK_DEADLOCK FALSE
