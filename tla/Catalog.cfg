SPECIFICATION Spec
CONSTANTS
  Junk = Junk
  Blank = Blank
  Absent = Absent
  Refused = Refused
  NoInfo = NoInfo
  NoItem = NoItem
  NoRow = NoRow
  NoRate = NoRate
  alice = alice
  bob = bob
  hat = hat
  red = red
  ed = ed
  cats = cats
  kitties = kitties
  tale = tale
  picture = picture
  film = film
  Values <- MCValues
  Usdt = 5
  MaxPageSize = 1
  Tokens <- MCTokens
  Accounts = {alice, bob}
  Listings <- MCListings
  About <- MCAbout
  Infos <- MCInfos
  Within <- MCWithin
  AtStart <- MCAtStart
  Sorts <- MCSorts
  SizeOfPage = 2
  MaxNumber = 3
  MaxOffers = 2
  MaxChanges = 1
  MaxTurns = 2
INVARIANTS OfferListsAreExact AttributeCountsAddUp PagesSkipNothing TokenListsSplit TradeListsKeepTo AmountsRoundTrip
CHECK_DEADLOCK FALSE
