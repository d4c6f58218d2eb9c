SPECIFICATION FairSpec
CONSTANTS
  c1 = c1  c2 = c2  n1 = n1  inside = inside  outside = outside
  Notes = {n1}
  Clients = {c1, c2}
  Decks = {inside, outside}
  Default = outside
  NoCard = NoCard
  Routes <- TwoRoutes
  FirstRoute <- First
  MaxEdits = 3
  MaxTime = 2
  MaxFailures = 1
INVARIANT TypeOK
PROPERTIES OnlyUsersRemove ChangesGiveWayToLater Published EventuallyArrived
