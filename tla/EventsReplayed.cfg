SPECIFICATION Spec
CONSTANTS
  Orders = {1}
  Prices = {1}
  Buyers = {buyer}
  Seller = Seller
  MaxAmount = 1
  Callbacks = {c1}
  MaxEvents = 2
  MaxBlock = 2
  MaxCrashes = 1
  MaxFailures = 0
INVARIANTS RecordedOnce
CHECK_DEADLOCK FALSE
