SPECIFICATION FairSpec
CONSTANTS
  a = a
  w1 = w1
  w2 = w2
  Tokens = {1, 2}
  Parents = {1, 2}
  Accounts = {a}
  Unminted = Unminted
  Burnt = Burnt
  NoRow = NoRow
  Callbacks = {c1}
  Workers = {w1}
  AtStart <- OneInTwo
  Happening <- Transfers
  MaxEvents = 3
  MaxSales = 0
  MaxBlock = 1
  MaxIncidents = 0
PROPERTIES EveryBatchEnds
CHECK_DEADLOCK FALSE
