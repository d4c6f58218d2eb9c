SPECIFICATION FairSpec
CONSTANTS
  n1 = n1  n2 = n2  d1 = d1  t1 = t1
  a = a  b = b
  w1 = w1  w2 = w2  w3 = w3
  Keys = {n1, n2, d1, t1}
  TypeOf <- MCTypeOf
  Contents = {a, b}
  Absent = Absent
  Workers = {w1, w2}
  Requests <- AllKinds
  SortOrder <- MCSortOrder
  DeleteLimit = 2
  MaxRequests = 3
  Failures = TRUE
INVARIANTS TypeOK LiveXorDeleted CirclesWithinAType
PROPERTIES ImplementsItems EveryRequestAnswered
CHECK_DEADLOCK FALSE
