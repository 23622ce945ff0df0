SPECIFICATION FairSpec
CONSTANTS
  Orders = {1, 2}
  Prices = {1, 2}
  Buyers = {buyer}
  Seller = Seller
  MaxAmount = 2
  Callbacks = {c1}
  MaxEvents = 3
  MaxBlock = 2
  MaxCrashes = 1
  MaxFailures = 1
INVARIANTS TypeOK NoEventIsLost CaughtUpMirrors RecordedOncePerStart
PROPERTIES RowsFollowTheChain EventuallyMirrors
CHECK_DEADLOCK FALSE
