SPECIFICATION Spec
CONSTANTS
  ann = ann
  sub = sub
  coll = coll
  helper1 = helper1
  helper2 = helper2
  Market = Market
  Zero = Zero
  Accounts = {ann, sub}
  Deployer = sub
  Operators = {sub}
  Tokens = {nft1, nft2}
  Helpers = {helper1}
  Currencies = {0}
  NativeSum = 8
  FungibleSum = 0
  CrossAddresses <- MCCrossAddresses
  CollectionOf <- MCCollectionOf
  InitialOwner <- MCInitialOwner
  InitialBalance <- MCInitialBalance
  Shares <- MCShares
  Prices = {0, 4}
  Amounts = {0, 1, 2}
  Fees = {25, 101}
  Sums = {8}
  Royalties = {}
  LegacyParts = {}
  MaxUint32 = 3
  MaxUint256 = 1000
INVARIANTS TypeOK EventsTellTheOrderBook OrdersHaveDistinctIds
PROPERTIES ImplementsOrderBook SaleIsConsented
SYMMETRY TokenSymmetry
CHECK_DEADLOCK FALSE
