SPECIFICATION Spec
CONSTANTS
  u1 = u1
  u2 = u2
  Users = {u1, u2}
  Tabs = {t1, t2}
  Workspaces = {"student", "office", "office_head"}
  Home <- MCHome
  MaxTokens = 2
  MaxLoads = 2
  MaxCalls = 2
  None = None
CONSTRAINT OneAtATime
INVARIANTS TypeOK  SnapshotIsItsTokens
PROPERTIES  LoadsArePlaced
