SPECIFICATION Spec
CONSTANTS
  ann = ann
  sub = sub
  coll = coll
  helper1 = helper1
  helper2 = helper2
  Market = Market
  Zero = Zero
  Accounts = {ann, sub}
  Deployer = sub
  Operators = {sub}
  Tokens = {nft1}
  Helpers = {helper1, helper2}
  Currencies = {0, 1}
  NativeSum = 8
  FungibleSum = 8
  CrossAddresses <- MCCrossAddresses
  CollectionOf <- MCCollectionOf
  InitialOwner <- MCInitialOwner
  InitialBalance <- MCInitialBalance
  Shares <- MCShares
  Prices = {4}
  Amounts = {1, 2}
  Fees = {62, 100}
  Sums = {0, 8}
  Royalties <- SampleRoyalties
  LegacyParts <- SampleLegacyParts
  MaxUint32 = 2
  MaxUint256 = 1000
INVARIANTS SellsUnlessTheFeeBars RoyaltiesRoundTrip RoyaltiesStayWithinThePrice
PROPERTIES BuyerPaysThePrice MarketKeepsItsFee
CHECK_DEADLOCK FALSE
