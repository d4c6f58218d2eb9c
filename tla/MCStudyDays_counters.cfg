SPECIFICATION FairSpec
CONSTANTS
  c1 = c1  c2 = c2  new = new  review = review
  Decks = {"deck"}
  Fields = {new}
  Clients = {c1, c2}
  MaxDay = 1
  MaxCount = 2
  MaxFailures = 1
INVARIANTS TypeOK AckedIsStored NoInflation
PROPERTY SameDayKept EventuallyAgreed
