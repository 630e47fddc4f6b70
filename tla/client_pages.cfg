SPECIFICATION Spec
CONSTANTS
  c1 = c1
  c2 = c2
  c3 = c3
  Concerns = {c1, c2, c3}
  OwnConcerns = {c3}
  Searches = {q1, q2}
  MaxPresses = 2
  MaxSubmissions = 2
  Targets = {x1, x2}
  Days = {1, 2}
  Hours = {1, 2}
  Opening <- MCOpening
  Schedules <- MCSchedules
  MaxSlotReads = 2
  MaxSlotEdits = 1
  MaxRecords = 3
  Entries = {i1}
SYMMETRY Symmetry
INVARIANTS PagesTypeOK RecordsAreExplained ListIsExplained CountsAreExplained SelectionIsOffered EditsReachTheirRecord PressesAreAdmitted
