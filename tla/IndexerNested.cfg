SPECIFICATION FairSpec
CONSTANTS
  a = a
  w1 = w1
  w2 = w2
  Tokens = {1, 2}
  Parents = {2}
  Accounts = {a}
  Unminted = Unminted
  Burnt = Burnt
  NoRow = NoRow
  Callbacks = {c1}
  Workers = {w1}
  AtStart <- OneInTwo
  Happening <- Transfers
  MaxEvents = 2
  MaxSales = 0
  MaxBlock = 1
  MaxIncidents = 1
PROPERTIES EventuallyIndexed EveryBatchEnds
CHECK_DEADLOCK FALSE
