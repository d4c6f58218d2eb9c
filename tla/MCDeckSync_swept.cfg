SPECIFICATION Spec
CONSTANTS
  c1 = c1  c2 = c2  k1 = k1  deck = deck  child = child  other = other
  Cards = {k1}
  Clients = {c1, c2}
  Decks = {deck, child}
  Parent <- Above
  Top = Top
  Publishers = {}
  NoCard = NoCard
  MaxEvents = 4
  MaxTime = 2
INVARIANT RefusesDecksWithCards
