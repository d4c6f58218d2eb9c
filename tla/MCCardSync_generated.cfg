SPECIFICATION Spec
CONSTANTS
  k1 = k1
  c1 = c1  c2 = c2
  Default = Default  other = other
  NoCard = NoCard  Gone = Gone
  Cards = {k1}
  Clients = {c1, c2}
  Author <- ByFirst
  Decks = {Default}
  NewestWins = TRUE
  MaxEdits = 1
  MaxTime = 2
  MaxFailures = 0
PROPERTY GeneratedInherits
