SPECIFICATION Spec
CONSTANTS
  a = a
  w1 = w1
  w2 = w2
  Tokens = {1}
  Parents = {}
  Accounts = {a}
  Unminted = Unminted
  Burnt = Burnt
  NoRow = NoRow
  Callbacks = {c1}
  Workers = {w1, w2}
  AtStart <- MintedOrNot
  Happening <- Everything
  MaxEvents = 2
  MaxSales = 2
  MaxBlock = 2
  MaxIncidents = 1
SYMMETRY WorkersAlike
INVARIANTS TypeOK LiveTokensAreIndexed CountCoversTheRows BurntOffersGo
CHECK_DEADLOCK FALSE
