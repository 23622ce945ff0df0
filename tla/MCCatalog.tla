----------------------------- MODULE MCCatalog -----------------------------
(***************************************************************************)
(* Instances of Catalog: the tokens, the tables and the requests.          *)
(***************************************************************************)
EXTENDS Catalog, TLC

CONSTANTS alice, bob, hat, red, ed, cats, kitties, tale, picture, film

MCTokens == {<<1, 2>>, <<2, 1>>}
MCAbout ==
  [c \in 1 .. 2 |-> [prefix |-> cats, description |-> tale, name |-> kitties,
                     cover |-> IF c = 1 THEN picture ELSE NoItem]]

Listing(t, seller, price, currency) == [token |-> t, seller |-> seller, price |-> price, currency |-> currency]
MCListings ==
  {Listing(<<1, 2>>, alice, 2, 0), Listing(<<1, 2>>, bob, 1, 5), Listing(<<2, 1>>, alice, 2, 5)}

Attribute(key, value) == [key |-> key, value |-> value]
Rich == [attributes |-> {Attribute("colour", red), Attribute("wears", hat), Attribute("age", 1), Attribute("image", tale)},
         media |-> {[key |-> "image", type |-> "ImageURL", url |-> picture],
                    [key |-> "video", type |-> "VideoURL", url |-> film]}]
Poor == [attributes |-> {Attribute("colour", hat)}, media |-> {}]
MCInfos == {Rich, Poor}
MCWithin == {<<ed, red>>, <<cats, kitties>>}

Start(i, j, m, n, rate) ==
  [index |-> (<<1, 2>> :> i @@ <<2, 1>> :> j), tokens |-> (<<1, 2>> :> m @@ <<2, 1>> :> n),
   rates |-> (0 :> rate @@ 5 :> 1)]
Of(owner, data) == [owner |-> owner, data |-> data]
MCAtStart ==
  {Start(Rich, NoInfo, Of(alice, Rich), NoRow, NoRate), Start(Rich, Poor, Of(bob, Rich), Of(alice, Poor), 2)}

Sort(column, asc) == [given |-> "string", columns |-> <<[column |-> column, asc |-> asc]>>]
MCSorts ==
  {Sort("CreationDate", TRUE), [given |-> "string", columns |-> Sort("TokenId", TRUE).columns \o Sort("TradeDate", FALSE).columns]}

-----------------------------------------------------------------------------
(* Requests.                                                               *)

AllOffers ==
  [collectionId |-> {}, currencies |-> {}, maxPrice |-> Absent, minPrice |-> Absent,
   maxUsdtPrice |-> Absent, minUsdtPrice |-> Absent, seller |-> Absent, searchText |-> Absent,
   searchLocale |-> Absent, numberOfAttributes |-> {}, attributes |-> {}]

Texts == {Absent, Blank, ed, hat, cats, tale, picture, film, 1, 2}
OfferRequests ==
  {[AllOffers EXCEPT !.searchText = text, !.seller = seller] : text \in Texts, seller \in {Absent, Blank, alice}}
  \cup {[AllOffers EXCEPT !.collectionId = ids, !.attributes = values] :
          ids \in {{}, {1}, {2, Blank}, {Blank}, {1, Junk}}, values \in {{}, {hat}, {red, hat}, {tale}}}
  \cup {[AllOffers EXCEPT !.minPrice = min, !.maxPrice = max, !.currencies = ids] :
          min \in {Absent, 0, 2}, max \in {Junk, 1, 2}, ids \in {{}, {5}}}
  \cup {[AllOffers EXCEPT !.minUsdtPrice = min, !.maxUsdtPrice = max, !.numberOfAttributes = ns] :
          min \in {Blank, -1, 3}, max \in {Absent, 2}, ns \in {{}, {2}, {0, 1}}}
  \cup {[AllOffers EXCEPT !.searchLocale = locale] : locale \in {Blank, ed}}

AllTokens ==
  [tokenId |-> {}, maxPrice |-> Absent, minPrice |-> Absent, maxUsdPrice |-> Absent, minUsdPrice |-> Absent,
   address |-> Absent, accessoryType |-> "All", saleType |-> "All", searchText |-> Absent,
   searchLocale |-> Absent, numberOfAttributes |-> {}, attributes |-> {}]
TokenRequests ==
  {[AllTokens EXCEPT !.tokenId = ids, !.address = address, !.maxPrice = max, !.attributes = values] :
     ids \in {{}, {2}}, address \in {Blank, alice}, max \in {0, 1}, values \in {{}, {hat}}}
  \cup {[AllTokens EXCEPT !.searchText = text] : text \in {ed, tale, 1}}

AllTrades == [collectionId |-> {}, tokenId |-> {}, accountId |-> Absent, searchText |-> Absent]
TradeSorts ==
  {[given |-> "string", columns |-> <<[column |-> c, asc |-> a], [column |-> d, asc |-> b]>>] :
     c \in {"Price", "CollectionId", "TokenId"}, d \in {"CreationDate", "TradeDate"}, a, b \in BOOLEAN}
TradeRequests ==
  {[collectionId |-> ids, tokenId |-> tokenIds, accountId |-> account, searchText |-> text] :
     ids \in {{}, {1, Blank}, {Junk}}, tokenIds \in {{}, {1}, {Blank}}, account \in {Absent, bob}, text \in {Blank, 2, hat}}

MCValues == (Texts \cup {alice, bob, red}) \ {Absent}
ASSUME RequestsAreTyped ==
  /\ OfferRequests \subseteq OffersFilter /\ TokenRequests \subseteq TokensViewFilter
  /\ TradeRequests \subseteq TradesFilter /\ MCSorts \cup TradeSorts \subseteq SortingRequest

-----------------------------------------------------------------------------
(* The properties of Catalog, for these requests.                          *)

\* What getParsedAmount makes of an amount getRawAmount takes back to it, whatever
\* zeros it has at either end (of the tables nothing is said: one state is enough).
AmountsRoundTrip ==
  offers = <<>> /\ reader = Idle => \A n \in 1 .. 3, decimals \in 0 .. 4 : \A raw \in [1 .. n -> {0, 7}] :
    NoLeadingZeros(GetRawAmount(GetParsedAmount(raw, decimals), decimals)) = NoLeadingZeros(raw)

\* Every well formed request is answered with the open offers it asks for, each once,
\* and one that is asked for alone with the same.
OfferListsAreExact ==
  reader = Idle => ToldAlone /\ \A raw \in {r \in OfferRequests : ~BoundsClash(r)} : OffersFit(raw)

\* The counts by number of attributes agree with the lists.
AttributeCountsAddUp ==
  reader = Idle => \A raw \in {r \in OfferRequests : ~Malformed(r) /\ r.numberOfAttributes = {}} : CountsAddUp(raw)

\* Lists of tokens on sale and not, owned and not, make up the list of all, and so do
\* their counts by number of attributes.
TokenListsSplit == reader = Idle => \A raw \in TokenRequests, c \in 1 .. 2 : TokensSplit(raw, c)

\* Lists of trades keep to what they are asked for, and so do their pages.
TradeListsKeepTo ==
  reader = Idle => /\ \A raw \in TradeRequests : TradesKeepTo(raw)
                   /\ \A sort \in TradeSorts : TradePagesMeet(AllTrades, sort)
=============================================================================
