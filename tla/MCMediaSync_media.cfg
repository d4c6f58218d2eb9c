SPECIFICATION FairSpec
CONSTANTS
  f1 = f1  f2 = f2
  d1 = d1  d2 = d2
  short = short  long = long
  l1 = l1
  NoFile = NoFile  Empty = Empty  Broken = Broken  Free = Free
  Files = {f1, f2}
  Devices = {d1, d2}
  References <- ByDeck
  Contents = {short, long}
  Large = {f2}
  Late = {l1}
  MaxTries = 2
  MaxEdits = 2
  MaxDeletes = 1
  MaxFailures = 1
INVARIANTS TypeOK ListedIsStored OnlyWholeFiles
PROPERTY EventuallyShared
