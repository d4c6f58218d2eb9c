SPECIFICATION FairSpec
CONSTANTS
  r1 = r1  r2 = r2  f = f  g = g
  c1 = c1  c2 = c2
  ReviewIds = {r1, r2}
  Facts = {f, g}
  FactsOf <- Reused
  NoReview = NoReview
  Clients = {c1, c2}
  ChunkSize = 1
  ClearPending = TRUE
  Deleters = {c1}
  MaxFailures = 1
INVARIANTS TypeOK ClearedIsStored ConflictMeansReuseOrOrphan
PROPERTIES EventuallyConverged
