SPECIFICATION FairSpec
CONSTANTS
  n1 = n1  n2 = n2
  c1 = c1  c2 = c2
  Notes = {n1, n2}
  Clients = {c1, c2}
  Synced = {n1}
  NewestWins = TRUE
  MaxUnapproved = 0
  MaxEdits = 3
  MaxTime = 2
  MaxFailures = 1
INVARIANT TypeOK
PROPERTIES OnlyUsersDelete OnlyLaterEditsReplace EventuallyConverged
