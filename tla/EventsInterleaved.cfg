SPECIFICATION Spec
CONSTANTS
  Orders = {1, 2}
  Prices = {1}
  Buyers = {buyer}
  Seller = Seller
  MaxAmount = 2
  Callbacks = {c1, c2}
  MaxEvents = 4
  MaxBlock = 3
  MaxCrashes = 1
  MaxFailures = 0
INVARIANTS NoEventIsLost
CHECK_DEADLOCK FALSE
