SPECIFICATION MCSpec
CONSTANTS
  None = None
  NoFile = NoFile
  Requests = {r1, r2, r3}
  Currencies = {usd, fox}
  Fees = {5, 7, 101}
  Banners = {b1}
  Prices = {1, 2}
  MaxStarted = 3
  MaxEvents = 4
  MaxFailures = 1
  Ids = {c1, c2}
  Workers = {w1, w2}
  Texts <- MCTexts
  MaxToken = 3
  MaxListed = 2
  MaxChanges = 4
  MaxCounts = 2
  MaxMoves = 3
SYMMETRY Alike
INVARIANTS TypeOK CurrenciesAgree BannersHaveTheirFiles ChecksKeepTheMirror AdminsWordStays PagesTellTheirTime CountsAreTrue
CHECK_DEADLOCK FALSE
