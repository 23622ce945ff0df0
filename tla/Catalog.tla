------------------------------ MODULE Catalog ------------------------------
(***************************************************************************)
(* What clients of the REST app see of the tables: the views view_offers,  *)
(* view_tokens and view_trades, the filters ViewOffersService,             *)
(* TokensService and TradesService put on them, and a client who reads a   *)
(* list page by page while offers open and close.                          *)
(*                                                                         *)
(* The tables change as the escrow worker changes them: ContractEvents and *)
(* TokenIndexer say when.                                                  *)
(***************************************************************************)
EXTENDS Requests, FiniteSets

CONSTANTS
  Tokens,      \* pairs of a collection and an id
  Accounts,
  Listings,    \* the offers that may be made: token, seller, price, currency
  About,       \* About[collection]: its prefix, description and name
  Infos,       \* what a token may say of itself
  NoInfo,
  Within,      \* <<text, item>>: the item contains the text
  NoItem, NoRow, NoRate,
  Usdt,        \* the currency of this name, or NoItem
  AtStart,     \* the rows of the tokens and the rates as the worker may have left them
  Sorts,       \* the sorts a client may read the pages by
  SizeOfPage,  \* ... and how many offers it asks for
  MaxNumber,   \* bound: counts are compared up to this number of attributes
  MaxOffers, MaxChanges, MaxTurns  \* bounds: MaxChanges is one of index, tokens and rates,
                                   \* MaxTurns one of these and trades together

ASSUME CatalogInputs ==
  /\ IsFiniteSet(Tokens) /\ {MaxNumber, MaxOffers, MaxChanges, MaxTurns} \subseteq Nat /\ SizeOfPage \in Nat \ {0}
  /\ Tokens \subseteq (Nat \ {0}) \X (Nat \ {0})
  /\ \A l \in Listings : l.token \in Tokens /\ l.seller \in Accounts /\ {l.price, l.currency} \subseteq Nat
  /\ NoInfo \notin Infos /\ NoRate \notin Int /\ NoItem \notin Int \cup Values \cup {Junk, Blank}
  /\ \A w \in Within : w[2] # NoItem

\* What the worker writes: an attribute is a key and a value, media are pictures
\* and films, a rate is no less than 0.
ASSUME WhatIsWritten ==
  /\ \A info \in Infos :
       /\ IsFiniteSet(info.attributes) /\ \A a \in info.attributes : a = [key |-> a.key, value |-> a.value]
       /\ \A m \in info.media : m.type \in {"ImageURL", "VideoURL"}
  /\ \A start \in AtStart :
       /\ start.index \in [Tokens -> Infos \cup {NoInfo}] /\ DOMAIN start.tokens = Tokens
       /\ start.rates \in [{l.currency : l \in Listings} -> Nat \cup {NoRate}]

VARIABLES
  offers,   \* rows of offers, by created_at
  index,    \* the properties of each token, as its rows were made of
  tokens,   \* rows of tokens: owner_token and data
  trades,   \* rows of offer_events that are purchases
  rates,    \* usd_price of the currencies
  reader,   \* a client that reads the offers page by page
  changes   \* how often index, tokens and rates have changed

tables == <<offers, index, tokens, trades, rates>>
vars == <<tables, reader, changes>>

Currencies == {l.currency : l \in Listings}
Keys(rows) == 1 .. Len(rows)
Opened == {k \in Keys(offers) : offers[k].status = "Opened"}

-----------------------------------------------------------------------------
(* The rows of properties (PropertiesTask).                                *)

\* None has a locale.
Row(key, type, item) == [key |-> key, type |-> type, item |-> item, locale |-> NoItem]

\* preparePropertiesData
FromCollection(c) ==
  {Row("prefix", "Prefix", About[c].prefix), Row("description", "String", About[c].description),
   Row("collectionName", "String", About[c].name), Row("collectionCover", "ImageURL", About[c].cover)}
FromMedia(info) == {Row(m.key, m.type, m.url) : m \in info.media}
FromAttributes(info) ==
  {Row(a.key, IF a.value \in Nat THEN "Number" ELSE "String", a.value) : a \in info.attributes}
PropertiesOf(t, info) ==
  FromCollection(t[1]) \cup {Row("tokenId", "Number", t[2])} \cup FromMedia(info) \cup FromAttributes(info)

OwnFields == {"collectionCover", "prefix", "description", "collectionName", "tokenId", "image"}

ListItems(rows) == {r.item : r \in {s \in rows : s.type \in {"Enum", "String"} /\ s.key \notin OwnFields}}
TotalItems(rows) ==
  Cardinality({r \in rows : r.type \in {"Enum", "String"} /\ r.key \notin OwnFields \cup {"video"}})

-----------------------------------------------------------------------------
(* The views.                                                              *)

NoProperty == [key |-> NoItem, item |-> NoItem, locale |-> NoItem, total |-> NoItem, list |-> {}]

\* The items that are no image.
Unnested(rows) ==
  {[key |-> r.key, item |-> r.item, locale |-> r.locale, total |-> TotalItems(rows), list |-> ListItems(rows)] :
     r \in {s \in rows : s.type # "ImageURL"}}

\* The left join with them.  The mutant is an inner join.
MutJoined(t) == IF index[t] = NoInfo THEN {} ELSE Unnested(PropertiesOf(t, index[t]))
Joined(t) == IF index[t] = NoInfo THEN {NoProperty} ELSE Unnested(PropertiesOf(t, index[t]))

PriceInUsdt(k) ==
  IF rates[offers[k].currency] = NoRate THEN NoRate ELSE offers[k].price * rates[offers[k].currency]

ViewOffers == UNION {{[offer |-> k, property |-> p] : p \in Joined(offers[k].token)} : k \in Opened}

\* A token for each open offer of it, or one alone.
NoOffer == 0
ViewTokens ==
  UNION {LET open == {k \in Opened : offers[k].token = t}
         IN {[token |-> t, offer |-> k, property |-> p] :
               k \in (IF open = {} THEN {NoOffer} ELSE open), p \in Joined(t)} :
         t \in {u \in Tokens : tokens[u] # NoRow}}

\* A trade has the price its offer has now.
ViewTrades ==
  {[trade |-> i, offer |-> offers[trades[i].offer], buyer |-> trades[i].buyer] : i \in Keys(trades)}

-----------------------------------------------------------------------------
(* The filters.  What is not asked for leaves the rows as they are.        *)

OneOf(value, asked) == asked = {} \/ value \in asked
Is(value, asked) == asked = Absent \/ value = asked
AtMost(value, bound) == bound = Absent \/ (value \in Nat /\ value <= bound)
AtLeast(value, bound) == bound = Absent \/ (value \in Nat /\ value >= bound)

Contains(item, text) == item = text \/ <<text, item>> \in Within

\* byTrait: a text that is a number also asks for a collection.
ByTrait(property, collection, text) ==
  text = Absent \/ Contains(property.item, text) \/ (text \in Nat /\ text = collection)

ByLocale(v, locale) == locale = Absent \/ v.property.locale = locale

\* byMaxPrice and byMaxUsdtPrice give their bounds one name, and so do those of the
\* least price: the query has the value of the last.
Bound(price, usdt) == IF usdt # Absent THEN usdt ELSE price

ApplyCommonFilters(v, q) ==
  LET o == offers[v.offer]
      max == Bound(q.maxPrice, q.maxUsdtPrice)
      min == Bound(q.minPrice, q.minUsdtPrice)
  IN /\ OneOf(o.token[1], q.collectionId)
     /\ q.maxPrice # Absent => AtMost(o.price, max)
     /\ q.minPrice # Absent => AtLeast(o.price, min)
     /\ q.maxUsdtPrice # Absent => AtMost(PriceInUsdt(v.offer), max)
     /\ q.minUsdtPrice # Absent => AtLeast(PriceInUsdt(v.offer), min)
     /\ OneOf(o.currency, q.currencies)
     /\ Is(o.seller, q.seller)
     /\ ByTrait(v.property, o.token[1], q.searchText) /\ ByLocale(v, q.searchLocale)
     /\ q.attributes \subseteq v.property.list

ByNumberOfAttributes(v, q) == OneOf(v.property.total, q.numberOfAttributes)

\* byFindAttributes throws.
NeedsCollection(q) == q.attributes # {} /\ q.collectionId = {}

\* prepareQuery: DISTINCT of the columns of the offer.
Distinct(rows) == {v.offer : v \in rows}

\* searchInProperties, parserCollectionIdTokenId: what the properties keep of the
\* tokens of a list; collections, getCollectionIds: and of their collections.
SearchInProperties(listed) == [t \in {u \in listed : index[u] # NoInfo} |-> index[t]]
CollectionsOf(listed) == [c \in {t[1] : t \in listed} \ {0} |-> About[c]]
Found(key, table, none) == IF key \in DOMAIN table THEN table[key] ELSE none

\* parseItems: null for a token that has no properties.
Description(t, found) == Found(t, found, NoInfo)

PriceOf(amount, currency) == [amount |-> amount, currency |-> currency]
\* Null without a rate or a currency to name.
GetPriceInUsdt(k) == IF NoRate = PriceInUsdt(k) \/ Usdt = NoItem THEN NoItem ELSE PriceOf(PriceInUsdt(k), Usdt)

\* OfferEntityDto has no id of the offer; its date tells it from others.
FromOffersEntity(k, found, collections) ==
  LET o == offers[k]
  IN [collectionId |-> o.token[1], tokenId |-> o.token[2], price |-> PriceOf(o.price, o.currency),
      priceInUsdt |-> GetPriceInUsdt(k), seller |-> o.seller, status |-> o.status, creationAt |-> k,
      tokenDescription |-> Description(o.token, found),
      collectionDescription |-> Found(o.token[1], collections, NoItem)]

ParseItems(listed) ==
  LET found == SearchInProperties({offers[k].token : k \in listed})
      collections == CollectionsOf({offers[k].token : k \in listed})
  IN {FromOffersEntity(k, found, collections) : k \in listed}

FilterItems(q) == Distinct({v \in ViewOffers : ApplyCommonFilters(v, q) /\ ByNumberOfAttributes(v, q)})

Amounts(pairs) ==
  {[numberOfAttributes |-> n, amount |-> Cardinality({p \in pairs : p[1] = n})] :
     n \in {p[1] : p \in pairs} \ {NoItem}}

\* byAttributesCount.  The mutant counts the rows of the view.
MutPairs(rows) == {<<v.property.total, v>> : v \in rows}
Pairs(rows) == {<<v.property.total, v.offer>> : v \in rows}
AttributesCount(q) == Amounts(Pairs({v \in ViewOffers : ApplyCommonFilters(v, q)}))

\* byAttributes, parseAttributes: how many rows have each value of each key, of the
\* rows that have a locale.
Traits(rows) ==
  LET told == {v \in rows : v.property.item # NoItem /\ v.property.locale # NoItem}
      alike(v) == {w \in told : w.property.key = v.property.key /\ w.property.item = v.property.item}
  IN {[key |-> v.property.key, trait |-> v.property.item, count |-> Cardinality(alike(v))] : v \in told}

FetchAttributes(q) ==
  [attributesCount |-> AttributesCount(q),
   attributes |-> Traits({v \in ViewOffers : ApplyCommonFilters(v, q) /\ ByNumberOfAttributes(v, q)})]

GetOffers(raw) ==
  LET q == ParseOffersFilter(raw)
  IN IF q = Refused THEN Refused ELSE IF NeedsCollection(q) THEN Refused
     ELSE ParseItems(FilterItems(q))
GetOffersAttributes(raw) ==
  LET q == ParseOffersFilter(raw)
  IN IF q = Refused THEN Refused ELSE IF NeedsCollection(q) THEN Refused ELSE FetchAttributes(q)

\* By the offer, or by the token when neither of its numbers is 0, else of them all.
\* The page of one is any of these.
FilterByOne(where) ==
  Distinct({v \in ViewOffers :
    CASE where.offerId # Absent -> v.offer = where.offerId
      [] where.offerId = Absent /\ 0 \notin {where.token[1], where.token[2]} -> offers[v.offer].token = where.token
      [] OTHER -> TRUE})
NoSuchOffer == [creationAt |-> 0]
GetOne(where) ==
  IF FilterByOne(where) = {} THEN {NoSuchOffer} ELSE UNION {ParseItems({k}) : k \in FilterByOne(where)}

-----------------------------------------------------------------------------
(* The tokens of a collection: TokensService.                              *)

ByTokenId(v, q) == OneOf(v.token[2], q.tokenId)

OfferPrice(v) == IF v.offer = NoOffer THEN NoItem ELSE offers[v.offer].price
ByPrice(v, q) == AtMost(OfferPrice(v), q.maxPrice) /\ AtLeast(OfferPrice(v), q.minPrice)

\* offer_seller is the owner of the token.
ByAccessoryType(v, q) ==
  CASE q.accessoryType = "Owned" -> Is(tokens[v.token].owner, q.address)
    [] q.accessoryType = "Disowned" -> q.address = Absent \/ tokens[v.token].owner # q.address
    [] OTHER -> TRUE

BySaleType(v, q) ==
  /\ q.saleType = "OnSale" => v.offer # NoOffer
  /\ q.saleType = "NotForSale" => v.offer = NoOffer

\* A number is not asked for as a collection here.
BySearch(v, q) ==
  (q.searchText = Absent \/ Contains(v.property.item, q.searchText)) /\ ByLocale(v, q.searchLocale)

ByFindAttributes(v, collection, q) ==
  q.attributes # {} => v.token[1] = collection /\ q.attributes \subseteq v.property.list

InNumbers(rows, q) == {v \in rows : OneOf(v.property.total, q.numberOfAttributes)}

OfCollection(rows, collection) == {v \in rows : v.token[1] = collection}

\* byAttributesCount of TokensService.  The mutant counts the tokens of all
\* collections.
MutTokenAmounts(rows, collection) == Amounts({<<v.property.total, v.token>> : v \in rows})
TokenAmounts(rows, collection) ==
  Amounts({<<v.property.total, v.token[2]>> : v \in OfCollection(rows, collection)})

\* byAttributes and parseAttributes of TokensService.
TokenTraits(rows, collection) == Traits(OfCollection(rows, collection))

\* searchInProperties and parseItems of TokensService, of the columns prepareQuery selects: the parsed price
\* is none of them.
FoundOfTokens(rows) == SearchInProperties({v.token : v \in rows})
TokensEntity(v, found, collections) ==
  LET onSale == v.offer # NoOffer
  IN [collectionId |-> v.token[1], tokenId |-> v.token[2], orderId |-> v.offer,
      status |-> IF onSale THEN offers[v.offer].status ELSE NoItem,
      price |-> PriceOf(OfferPrice(v), IF onSale THEN offers[v.offer].currency ELSE NoItem), parsed |-> NoItem,
      priceInUsdt |-> IF onSale THEN GetPriceInUsdt(v.offer) ELSE NoItem, seller |-> tokens[v.token].owner,
      tokenDescription |-> Description(v.token, found),
      collectionDescription |-> Found(v.token[1], collections, NoItem)]
ParseTokenItems(rows) ==
  LET found == FoundOfTokens(rows)
      collections == CollectionsOf({v.token : v \in rows})
  IN {TokensEntity(v, found, collections) : v \in rows}

FilterTokens(collection, q) ==
  LET rows == {v \in ViewTokens : ByTokenId(v, q) /\ ByPrice(v, q) /\ ByAccessoryType(v, q) /\ BySaleType(v, q)
                                  /\ BySearch(v, q) /\ ByFindAttributes(v, collection, q)}
      asked == InNumbers(rows, q)
  IN [items |-> ParseTokenItems(OfCollection(asked, collection)),
      attributes |-> TokenTraits(asked, collection),
      attributesCount |-> TokenAmounts(rows, collection)]

\* The view has no column for a price in USD, and the parsed price is none of the
\* columns that are selected, so that DISTINCT cannot be sorted by it.
TokensRefused(q, sort) ==
  \/ {q.maxUsdPrice, q.minUsdPrice} # {Absent}
  \/ \E i \in 1 .. Len(sort) : sort[i].column = "Price"

FindTokensByCollection(collection, raw, rawSort) ==
  LET q == ParseTokensFilter(raw)
  IN IF q = Refused THEN Refused
     ELSE IF TokensRefused(q, ParseTokensSort(rawSort)) THEN Refused ELSE FilterTokens(collection, q)

\* TradesService.get.  A text that is no number is looked for in the data of the
\* token's row, and all but the first of the columns it may be in are joined
\* with OR to everything before.
TradeHas(v, text) ==
  LET row == tokens[v.offer.token]
  IN row # NoRow /\ \E a \in row.data.attributes : Contains(a.value, text)

FilterTrades(q) ==
  {v \in ViewTrades :
     \/ /\ q.accountId \in {Absent, v.offer.seller, v.buyer}
        /\ OneOf(v.offer.token[1], q.collectionId) /\ OneOf(v.offer.token[2], q.tokenId)
        /\ q.searchText \in Nat => v.offer.token[2] = q.searchText
        /\ q.searchText \notin Nat \cup {Absent} => TradeHas(v, q.searchText)
     \/ q.searchText \notin Nat \cup {Absent} /\ TradeHas(v, q.searchText)}

-----------------------------------------------------------------------------
(* Pages.                                                                  *)

\* sortBy: a column that is none of these is taken for desc(CreationDate).
\* The mutant sorts by the price whatever is asked.
MutPlace(k, s) == offers[k].price
Place(k, s) ==
  CASE s.column = "Price" -> offers[k].price
    [] s.column = "UsdtPrice" -> PriceInUsdt(k)
    [] s.column = "TokenId" -> offers[k].token[2]
    [] s.column = "CollectionId" -> offers[k].token[1]
    [] OTHER -> k
Ascending(s) == s.asc /\ s.column \in {"Price", "UsdtPrice", "TokenId", "CollectionId", "CreationDate"}

\* What has no rate comes after all that has.
Lower(x, y) == x # NoRate /\ (y = NoRate \/ x < y)

\* Of the places of two rows by each parameter: the first that differs decides.
Precedes(p, q, ascending) ==
  \E i \in DOMAIN ascending :
    /\ \A h \in 1 .. i - 1 : p[h] = q[h]
    /\ IF ascending[i] THEN Lower(p[i], q[i]) ELSE Lower(q[i], p[i])
Before(sort) ==
  LET places(k) == [i \in DOMAIN sort |-> Place(k, sort[i])]
      ascending == [i \in DOMAIN sort |-> Ascending(sort[i])]
  IN {pair \in Opened \X Opened : Precedes(places(pair[1]), places(pair[2]), ascending)}

Offset(number, size) == (number - 1) * size

\* The database may give rows that the sort leaves equal in any order.
Least(n, max) == IF n < max THEN n ELSE max
MayBePage(page, listed, before, number, size) ==
  LET inOrder(first, second) == \A j \in first, k \in second : <<k, j>> \notin before
  IN \E skipped \in SUBSET (listed \ page) :
       /\ Cardinality(skipped) = Least(Offset(number, size), Cardinality(listed))
       /\ Cardinality(page) = Least(size, Cardinality(listed \ skipped))
       /\ inOrder(skipped, listed \ skipped) /\ inOrder(page, listed \ (skipped \cup page))

\* sortBy of TradesService: by the trade's date, whatever date is asked for.
TradePlace(v, s) ==
  CASE s.column = "Price" -> v.offer.price
    [] s.column = "TokenId" -> v.offer.token[2]
    [] s.column = "CollectionId" -> v.offer.token[1]
    [] OTHER -> v.trade
TradeAscending(s) == s.asc /\ s.column \in {"Price", "TokenId", "CollectionId", "CreationDate"}

TradesBefore(listed, sort) ==
  LET places(v) == [i \in DOMAIN sort |-> TradePlace(v, sort[i])]
      ascending == [i \in DOMAIN sort |-> TradeAscending(sort[i])]
  IN {pair \in listed \X listed : Precedes(places(pair[1]), places(pair[2]), ascending)}

\* parseItem throws for a token of a collection that has no cover.
Shown(v) == tokens[v.offer.token] = NoRow \/ About[v.offer.token[1]].cover # NoItem

\* TradeOfferDto: it has the date of the offer, and its price without currency.
TradeOffer(v) ==
  LET t == v.offer.token
      row == tokens[t]
  IN [collectionId |-> t[1], tokenId |-> t[2], offerId |-> trades[v.trade].offer, price |-> v.offer.price,
      seller |-> v.offer.seller, buyer |-> v.buyer, creationDate |-> trades[v.trade].offer, tradeDate |-> v.trade,
      owners |-> IF row = NoRow THEN NoItem ELSE row.owner,
      tokenDescription |-> IF row = NoRow THEN NoInfo ELSE row.data]

\* TradesService.get: what it may answer.
GetTrades(raw, rawSort, number, size) ==
  LET q == ParseTradesFilter(raw)
      listed == FilterTrades(q)
      before == TradesBefore(listed, ParseTradesSort(rawSort))
      pages == {page \in SUBSET listed : MayBePage(page, listed, before, number, size)}
      answer(page) == IF \A v \in page : Shown(v) THEN {TradeOffer(v) : v \in page} ELSE Refused
  IN IF q = Refused THEN {Refused} ELSE {answer(page) : page \in pages}

Idle == [page |-> 0, sort |-> <<>>, asked |-> {}, seen |-> {}, upset |-> FALSE]

\* asked: history, the offers there were; upset: history, one of them has gone.
StartReading(rawSort) ==
  /\ reader = Idle
  /\ reader' = [Idle EXCEPT !.page = 1, !.sort = ParseSort(rawSort), !.asked = Opened]
  /\ UNCHANGED <<tables, changes>>

\* An empty page is the last.
ReadPage ==
  /\ reader.page > 0
  /\ \E page \in SUBSET Opened :
       /\ MayBePage(page, Opened, Before(reader.sort), reader.page, PageSize(SizeOfPage))
       /\ reader' = [reader EXCEPT !.page = IF page = {} THEN 0 ELSE @ + 1, !.seen = @ \cup page]
  /\ UNCHANGED <<tables, changes>>

Leave == reader.page = 0 /\ reader # Idle /\ reader' = Idle /\ UNCHANGED <<tables, changes>>

-----------------------------------------------------------------------------
(* What the escrow worker does to the tables.                              *)

Create(l) ==
  /\ Len(offers) < MaxOffers /\ \A k \in Opened : offers[k].token # l.token
  /\ offers' = Append(offers, [token |-> l.token, seller |-> l.seller, price |-> l.price,
                               currency |-> l.currency, status |-> "Opened"])
  /\ UNCHANGED <<index, tokens, trades, rates, reader, changes>>

SetStatus(k, status) ==
  /\ offers' = [offers EXCEPT ![k].status = status]
  /\ reader' = IF reader.page > 0 /\ status # "Opened" THEN [reader EXCEPT !.upset = TRUE] ELSE reader

Cancel(k) == k \in Opened /\ SetStatus(k, "Canceled") /\ UNCHANGED <<index, tokens, trades, rates, changes>>

\* Of all that is left, or of some.
Buy(k, buyer, status) ==
  /\ k \in Opened /\ Len(trades) + changes < MaxTurns /\ SetStatus(k, status)
  /\ trades' = Append(trades, [offer |-> k, buyer |-> buyer])
  /\ UNCHANGED <<index, tokens, rates, changes>>

Change ==
  /\ changes < MaxChanges /\ Len(trades) + changes < MaxTurns
  /\ changes' = changes + 1 /\ UNCHANGED <<trades, reader>>

ChangePrice(k, price) ==
  /\ k \in Opened /\ offers' = [offers EXCEPT ![k].price = price]
  /\ Change /\ UNCHANGED <<index, tokens, rates>>

\* The rows of a token's properties are deleted and saved.
DropIndex(t) ==
  /\ index[t] # NoInfo /\ index' = [index EXCEPT ![t] = NoInfo]
  /\ Change /\ UNCHANGED <<offers, tokens, rates>>
SaveIndex(t, info) ==
  /\ index[t] = NoInfo /\ index' = [index EXCEPT ![t] = info]
  /\ Change /\ UNCHANGED <<offers, tokens, rates>>
SaveToken(t, row) ==
  /\ tokens[t] # row /\ tokens' = [tokens EXCEPT ![t] = row]
  /\ Change /\ UNCHANGED <<offers, index, rates>>

\* CurrenciesRatesTask.handler: a rate that was not found stays.
Refresh(fetched) ==
  /\ rates' = [c \in Currencies |-> IF fetched[c] = NoRate THEN rates[c] ELSE fetched[c]]
  /\ Change /\ UNCHANGED <<offers, index, tokens>>

Init ==
  /\ offers = <<>> /\ trades = <<>> /\ reader = Idle /\ changes = 0
  /\ \E start \in AtStart : index = start.index /\ tokens = start.tokens /\ rates = start.rates

Next ==
  \/ \E l \in Listings : Create(l)
  \/ \E k \in Keys(offers) :
       \/ Cancel(k) \/ \E l \in Listings : ChangePrice(k, l.price)
       \/ \E buyer \in Accounts, status \in {"Opened", "Completed"} : Buy(k, buyer, status)
  \/ \E t \in Tokens :
       \/ DropIndex(t) \/ \E info \in Infos : SaveIndex(t, info)
       \/ \E start \in AtStart : SaveToken(t, start.tokens[t])
  \/ \E start \in AtStart : Refresh(start.rates)
  \/ \E sort \in Sorts : StartReading(sort)
  \/ ReadPage \/ Leave

Spec == Init /\ [][Next]_vars

-----------------------------------------------------------------------------
(* Properties.                                                             *)

\* What a request asks for, said of the tokens and their offers.
Given(list) == list \ {Blank}
Bounded(price, raw, min, max) ==
  /\ raw[max] \in Int \ {0} => price # NoRate /\ price <= raw[max]
  /\ raw[min] \in Int \ {0} => price # NoRate /\ price >= raw[min]

\* All that can be searched of a token that is indexed.
AttributesOf(t) ==
  IF index[t] = NoInfo THEN {} ELSE {a \in index[t].attributes : a.value \notin Nat /\ a.key \notin OwnFields}
Searched(t) ==
  IF index[t] = NoInfo THEN {}
  ELSE {About[t[1]].prefix, About[t[1]].description, About[t[1]].name, t[2]}
         \cup {a.value : a \in index[t].attributes}
         \cup {m.url : m \in {n \in index[t].media : n.type # "ImageURL"}}
Tells(t, text) ==
  \/ text \in {Absent, Blank, t[1]}
  \/ \E item \in Searched(t) : item = text \/ <<text, item>> \in Within

Fits(k, raw) ==
  LET t == offers[k].token
      number == Cardinality({a \in AttributesOf(t) : a.key # "video"})
  IN /\ Given(raw.collectionId) # {} => t[1] \in raw.collectionId
     /\ Given(raw.currencies) # {} => offers[k].currency \in raw.currencies
     /\ Bounded(offers[k].price, raw, "minPrice", "maxPrice")
     /\ Bounded(PriceInUsdt(k), raw, "minUsdtPrice", "maxUsdtPrice")
     /\ raw.seller \in {Absent, Blank, offers[k].seller}
     /\ Tells(t, raw.searchText) /\ raw.searchLocale \in {Absent, Blank}
     /\ Given(raw.numberOfAttributes) # {} => index[t] # NoInfo /\ number \in raw.numberOfAttributes
     /\ \A value \in raw.attributes : \E a \in AttributesOf(t) : a.value = value

Malformed(raw) ==
  \/ Junk \in raw.collectionId \cup raw.currencies \cup raw.numberOfAttributes
  \/ raw.attributes # {} /\ Given(raw.collectionId) = {}

\* A bound of both prices: the later one is taken for both.
BoundsClash(raw) ==
  \/ {raw.maxPrice, raw.maxUsdtPrice} \subseteq Int \ {0}
  \/ {raw.minPrice, raw.minUsdtPrice} \subseteq Int \ {0}

\* A request that is well formed is answered with the open offers it asks for, each
\* of them once however many properties its token has, and whether or not the
\* worker has come to index it.
OffersFit(raw) ==
  IF Malformed(raw) THEN GetOffers(raw) = Refused
  ELSE LET fitting == {k \in Opened : Fits(k, raw)}
       IN /\ {row.creationAt : row \in GetOffers(raw)} = fitting
          /\ Cardinality(GetOffers(raw)) = Cardinality(fitting)

\* An offer that is asked for alone, by its id or by its token, is told as in the
\* lists while it is open, and not found when it is over.
ToldAlone ==
  LET told(ks) == {row \in ParseItems(Opened) : row.creationAt \in ks}
      orNone(rows) == IF rows = {} THEN {NoSuchOffer} ELSE rows
  IN /\ \A k \in Keys(offers) : GetOne([offerId |-> k, token |-> <<0, 0>>]) = orNone(told({k}))
     /\ \A t \in Tokens : GetOne([offerId |-> Absent, token |-> t]) = orNone(told({k \in Keys(offers) : offers[k].token = t}))

\* Counts have for each number of attributes what size says.
CountsAre(counts, size(_)) ==
  \A n \in 0 .. MaxNumber :
    LET amount == size(n)
    IN {row \in counts : row.numberOfAttributes = n} =
         IF amount = 0 THEN {} ELSE {[numberOfAttributes |-> n, amount |-> amount]}

\* The counts by number of attributes are those of the offers that are listed when
\* that number is asked for.
CountsAddUp(raw) ==
  LET listed(n) == Cardinality(GetOffers([raw EXCEPT !.numberOfAttributes = {n}]))
  IN CountsAre(GetOffersAttributes(raw).attributesCount, listed)

\* Who reads the pages by a sort with a date in it and no price comes to the last one,
\* and has then seen every offer that was there when he began, whatever comes meanwhile,
\* unless one is over before he ends.
PagesSkipNothing ==
  /\ reader.page <= MaxOffers + 1
  /\ reader.page = 0 /\ ~reader.upset => reader.asked \subseteq reader.seen

NoSort == [given |-> "none", columns |-> <<>>]

\* Each token of a collection is either on sale or not, and either the address's
\* own or somebody else's, in the lists for each as in the list of all; and the
\* counts by number of attributes are those of the tokens that are listed when
\* that number is asked for.
TokensSplit(raw, c) ==
  LET asked(sale, accessory) == [raw EXCEPT !.saleType = sale, !.accessoryType = accessory]
      list(sale, accessory) == FindTokensByCollection(c, asked(sale, accessory), NoSort).items
      having(n) == FindTokensByCollection(c, [asked("All", "All") EXCEPT !.numberOfAttributes = {n}], NoSort)
      tokenIds(rows) == {r.tokenId : r \in rows}
      listed(n) == Cardinality(tokenIds(having(n).items))
      all == list("All", "All")
      apart(some, others) == all = some \cup others /\ tokenIds(some) \cap tokenIds(others) = {}
  IN /\ apart(list("OnSale", "All"), list("NotForSale", "All"))
     /\ raw.address \notin {Absent, Blank} => apart(list("All", "Owned"), list("All", "Disowned"))
     /\ CountsAre(FindTokensByCollection(c, asked("All", "All"), NoSort).attributesCount, listed)

\* A list of trades is those of the account, the collections and the tokens it is
\* asked for, unless a text is searched for or one of them cannot be shown.
TradesKeepTo(raw) ==
  LET asked == {v \in ViewTrades :
        /\ raw.accountId \in {Absent, Blank, v.offer.seller, v.buyer}
        /\ Given(raw.collectionId) # {} => v.offer.token[1] \in raw.collectionId
        /\ Given(raw.tokenId) # {} => v.offer.token[2] \in raw.tokenId
        /\ raw.searchText \in Nat => v.offer.token[2] = raw.searchText}
  IN raw.searchText \in Nat \cup {Absent, Blank} =>
       GetTrades(raw, NoSort, 1, Len(trades) + 1) =
         IF Junk \in raw.collectionId \cup raw.tokenId \/ \E v \in asked : ~Shown(v)
         THEN {Refused} ELSE {{TradeOffer(v) : v \in asked}}

\* Whoever reads the trades one by one, by a sort that has a date in it, is told
\* each of them once: every page has one trade, and there is no choice which.
TradePagesMeet(raw, sort) ==
  LET page(n) == GetTrades(raw, sort, n, 1)
  IN \A list \in GetTrades(raw, NoSort, 1, Len(trades) + 1) \ {Refused} :
       /\ \A n \in 1 .. Cardinality(list) : Cardinality(page(n)) = 1
       /\ UNION {UNION page(n) : n \in 1 .. Cardinality(list)} = list
=============================================================================
