SPECIFICATION FairSpec
CONSTANTS
  c1 = c1  c2 = c2  k1 = k1  deck = deck  child = child  other = other
  Cards = {k1}
  Clients = {c1, c2}
  Decks = {deck, child, other}
  Parent <- Wood
  Top = Top
  Publishers = {c1}
  NoCard = NoCard
  MaxEvents = 3
  MaxTime = 2
PROPERTIES OnlyUsersRemove NamespaceMoved EventuallyAgreed
INVARIANT TypeOK
