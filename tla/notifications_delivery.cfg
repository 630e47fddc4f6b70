SPECIFICATION FairSpec
CONSTANTS
  e1 = e1
  e2 = e2
  u1 = u1
  u2 = u2
  u3 = u3
  Events = {e1}
  Type <- MCTypes
  Owner <- MCOwner
  InCharge <- MCInCharge
  Users = {u1, u2, u3}
  Workers = {w1, w2}
  QueueModes = {TRUE, FALSE}
  MaxAttempts = 2
  MaxStalled = 1
  None = None
INVARIANT CompletedIsDelivered
PROPERTIES RedeliveryKeepsRead ImplementsInbox EventuallyOnRecord
CHECK_DEADLOCK FALSE
