SPECIFICATION Spec
CONSTANTS
  ann = ann
  sub = sub
  coll = coll
  helper1 = helper1
  helper2 = helper2
  Market = Market
  Zero = Zero
  Accounts = {ann, sub}
  Deployer = sub
  Operators = {sub}
  Tokens = {nft1}
  Helpers = {helper1}
  Currencies = {0}
  NativeSum = 4
  FungibleSum = 0
  CrossAddresses <- MCCrossAddresses
  CollectionOf <- MCCollectionOf
  InitialOwner <- MCInitialOwner
  InitialBalance <- MCInitialBalance
  Shares <- MCShares
  Prices = {4}
  Amounts = {1, 2}
  Fees = {25}
  Sums = {4}
  Royalties = {}
  LegacyParts = {}
  MaxUint32 = 3
  MaxUint256 = 1000
PROPERTIES PurchaseEndsTheOrder
CHECK_DEADLOCK FALSE
