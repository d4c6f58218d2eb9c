SPECIFICATION FairSpec
CONSTANTS
  f1 = f1  f2 = f2
  d1 = d1  d2 = d2
  short = short  long = long
  l1 = l1
  NoFile = NoFile  Empty = Empty  Broken = Broken  Free = Free
  Files = {f1}
  Devices = {d1, d2}
  References <- ByDeck
  Contents = {short}
  Large = {}
  Late = {l1}
  MaxTries = 2
  MaxEdits = 1
  MaxDeletes = 1
  MaxFailures = 0
PROPERTY MissingIsUploadedAgain
