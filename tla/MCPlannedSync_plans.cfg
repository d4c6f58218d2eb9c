SPECIFICATION PlanSpec
CONSTANTS
  c1 = c1  c2 = c2  n1 = n1  n2 = n2  x = x  y = y
  Notes = {n1}
  Clients = {c1, c2}
  Texts = {x, y}
  NoNote = NoNote
  Elsewhere = Elsewhere
  MaxTime = 4
  MaxEvents = 3
SYMMETRY Symmetry
INVARIANTS PlanTypeOK DeltaComplete
PROPERTIES ReplacesOnlyShown ConflictsAreNews
CHECK_DEADLOCK FALSE
