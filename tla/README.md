# Unique Marketplace: verification project

TLA+ models of the Unique Marketplace backend, the TLC runs that check them on
small instances, and TLAPS proofs about them. Paths below are relative to
`src/packages/` unless they start with `src/`.

Check a run with `tlc -config MarketOrders.cfg MCMarket`, the proofs of a module
with `tlapm MarketProofs.tla`. `PROJECT.json`
lists the components, the runs, the lines every definition models, the findings,
the hazards and the theorems.

## The system

A marketplace for NFTs and refungible tokens (RFTs) on the Unique chain. A
contract on the chain holds the orders; two services keep and show a copy.

| Component | Code | State | Operations |
| --- | --- | --- | --- |
| Market contract | `contracts/src/Market.sol` | orders per token, id counter, fee, currencies, blacklist, admins, royalty helper | put, changePrice, buy, revoke, checkApproved, revokeAdmin, revokeListAdmin, administration, withdraw |
| Royalties | `contracts/src/royalty/` | the `royalties` property of a token or collection | encode, decode, calculate |
| Contract event pipeline | `escrow/src/app/contract-events/indexer-subscriptions.service.ts`, `handlers/contract-events.handler.ts`, `common/modules/database/services/` | tables offers, offer_events, contracts.processed_at | subscribe, one handler per contract event |
| Collection event pipeline | `escrow/src/app/contract-events/handlers/collection-events.handler.ts` | the setting subscribe_collection_block, offers | one handler per token or collection event |
| Token and collection indexer | `escrow/src/collections/`, `escrow/src/tasks/` | tables tokens, properties, collections; the graphile-worker job table | observer, upsert and delete of tokens, search index, rates of currencies |
| REST app: contract operations | `market/src/contracts/` | offers, the setting contract_currencies | check-approved, add and remove a currency |
| REST app: administration | `market/src/collections/`, `market/src/banners/`, `market/src/admin/`, `market/src/settings/` | collections, banner rows and files, sessions | collections and allowed tokens, banners |
| REST app: queries | `market/src/offers/`, `market/src/tokens/`, `market/src/trades/`, the views in `common/modules/database/` | none of their own | lists, filters, counts and pages |
| Notifications | `common/pg-transport/` | none | NOTIFY and LISTEN between the two services |

**How they interact.** Users call the contract; the contract calls the
collections' precompiles and the royalty helper in the same transaction. It
emits an event for each change of an order. An indexer (an external service)
delivers these events in batches to the escrow, which writes the tables the
REST app reads. The collections emit events of their own, of transfers,
approvals and burns, which the escrow receives over a second subscription and
turns into jobs that read the token again from the chain. The first offer of a
collection adds the collection. The REST app can ask the contract to check an
order's approval, and then writes the same offer rows as the escrow. Admin
actions of the REST app reach the escrow through NOTIFY.

**What is hard in it.**

- A transaction is atomic, but orders outlive what they were made from: tokens
  are given away, burnt, approved elsewhere and come back; currencies are
  removed and repriced; helpers, fees and the blacklist change under open
  orders.
- The off-chain copy is right only if the events alone tell the order book, and
  if every event is handled once, in order, over crashes and replays. Callbacks
  are not awaited, look-ups and inserts are separate awaits, and errors are
  logged and dropped.
- What is known of a token is read from the chain when a job runs, not when its
  event came; jobs replace each other under one key, fail and run again; jobs
  are asked for by calls that nothing waits for.
- Two services and several jobs write the same rows without locks; a request
  reads a row, awaits, and writes it.
- A list is filtered over a view with a row for each property of each token,
  and cut to DISTINCT rows and pages afterwards.

**What makes each component correct.** Contract: an id names one listing, and a
closed listing stays closed; a sold token was on sale by its owner, with
consent; money is conserved and the contract is not out of pocket; events tell
the book. Contract event pipeline: nothing lost, nothing recorded twice (which
holds between two restarts only), the
tables end up equal to the book. Collection events and indexer: no offer outlives
its token, the rows of tokens follow the chain, counts cover the rows, every
batch comes to its end. Currencies: contract and settings agree. Royalties:
decode inverts encode, the sum never exceeds the price. Banners: a row has its
file. Queries: a request is answered with exactly what it asks for, counts agree
with lists, pages skip nothing.

## Modules

| Module | Models |
| --- | --- |
| `Market` | the contract, and what it uses of the collections |
| `OrderBook` | what the contract promises of its orders: the abstract specification `Market` implements |
| `MCMarket` | the constants of the instances of `Market`, and what is said of `Royalty` |
| `MarketProofs` | theorems about `Market`, and that it implements `OrderBook` |
| `MarketSales` | theorems about the purchases of `Market` |
| `RoyaltyProofs` | theorems about the encodings and the amounts of `Royalty` |
| `EventsProofs`, `IndexerProofs`, `RestProofs`, `CollectionsProofs`, `CatalogProofs` | theorems about `ContractEvents`, `TokenIndexer`, `RestApp`, `Collections` and `Catalog` |
| `ContractEvents` | the escrow's contract event pipeline |
| `TokenIndexer`, `MCIndexer` | the collection event pipeline, `observer`, the jobs and the adding of a collection |
| `Royalty` | the encodings of royalties and their amounts |
| `RestApp` | requests of the REST app that write: currencies, banners, checkApproved |
| `Collections`, `MCRest` | what admins and counts write of collections, beside the worker's jobs, and the settings page; the instances of both |
| `Requests` | what the pipes of the REST app make of a query string, and the conversion of amounts |
| `Catalog`, `MCCatalog` | the views, filters, counts and pages of offers, tokens and trades |

### Market

One action per external function that changes state. A transaction runs alone
and reverts as a whole, so a function that reverts is an action that is not
enabled; the guards are the functions' tests in the order of the conditions,
including the checked arithmetic of `buy` (`Settles`). The contract's storage
is `owner`, `admins`, `marketFee`, `availableCurrencies`, `blacklist`,
`royaltyHelpers`, `orders` and `idCount`. `log` keeps, for each order id, the last event
emitted about it: what somebody who follows the events knows.

External, and modelled from the calls the contract makes: the owner of each
token and whether the contract is approved for it (`tokenOwner`, `approved`),
balances and allowances (`balance`, `allowance`). A transfer, a burn or a new
approval by the owner drops the approval. `transferFromCross` succeeds for a
token only when the seller owns it and the contract is approved.

What is abstracted:

- A token is a (collection, token) pair, and `CollectionOf` gives its
  collection. A Substrate key is its Ethereum mirror, `sub >> 96`; `AddressOf`
  keeps the choice between the two halves.
- A royalty helper is a table of percentages per token and recipient, rounded
  down like its own division; parts with the same recipient are merged. The
  contract itself never receives royalties.
- Of the payments in one purchase the sums are compared, not each transfer:
  the payer must hold the whole cost even where a payment to the payer itself
  would let less do.
- As in the code, nothing compares the `buyer` argument of `buy` with the
  caller, which `market_signer` sets against the comment on it. Native money is
  the caller's; in a fungible currency it is the buyer who pays.
- ERC-165 probing and the existence of a collection's code are left out:
  collections exist.
- The number of admins is not bounded, but callers and subjects of
  administrative calls are taken from `Operators`.

`OrderBook` has a listing per id (new, open or closed) and three steps: list,
take some fractions of a listing, close listings. `Market` implements it under the mapping
`Listings`: an id below the counter that no order carries is closed.

### ContractEvents

`chain` is the sequence of the contract's events with their blocks. An order's
events are generated as `Market` emits them; that `item` of the last event of
an id is the order as it stands, or has amount 0 when it is over, is what
`EventsTellTheOrderBook` proves of the contract, so that the two modules meet
there. The subscription hands over events in order, in batches of any size
(`Deliver`), each to a callback of its own.

A callback is the code's `handleContractEvents` call: the events it has left
and the step it is at in the first of them. A step is what runs between two
awaits:

| Step | Code |
| --- | --- |
| `SaveBlock` | `processContractEvent` to `saveBlockId`; the `LessThan` of `updateProcessedBlock` |
| `FindOffer` | the look-up of `OfferService.update`, its `null` for an unknown order that is over |
| `SaveOffer` | the insert or update of the row |
| `FindEvent` | the duplicate check of `createEventData` |
| `CreateEvent` | `OfferEventService.create` |
| `Observe` | `tokensService.observer` |
| `Fail` | any await throws; the batch goes on with the next event |
| `Crash`, `Restart` | the process dies; `initContractSubscriptions` subscribes from the block `processed_at` |

Awaits that only read what no step writes (the contract's row, the currency,
the collection) are not steps of their own. The look-up of a duplicate is given the whole joined
offer, so that every column of the offer and of its contract is compared with what the call has
in hand. `MayFind` says when a row can be found at all: the same trade is on record, and
`processed_at` and the offer's columns are what the call has read or written. The dates among the
columns, microseconds against the milliseconds of a `Date`, mostly differ even then, and
`FindEvent` may always find nothing. Each row of `trades` notes as history the event it was
made of (`of`). Parsing, ABI look-up and several contracts are left
out. `refreshed` notes whose token was handed to `observer`; what `observer` does with it is `TokenIndexer`'s, and so is the deletion
of the offers of burnt tokens: rows are never deleted here.

`Callbacks` sets how many calls of the handler can overlap. The code sets no
limit. With one, the model is the service under load it keeps up with: each batch is
handled before the next arrives. With two, batches overlap.

### TokenIndexer

The tokens of one collection. `owner` is the chain: each token is unminted,
burnt, or owned by an account or by a token it is nested in, without circles.
Every change adds an event to `chain`, with the addresses `transformEvent` takes
out of it. The worker's rows are `tokens` (owner_token), `index` (tokens with
rows in properties), `offers`, `onMarket` (tokensOnMarket of each row of the
collection, in the order of their insertion: the table has no unique key on it) and `block`
(the setting). `orders` has for each token the events of its one order as the contract
emits them, and `heard` how many of them were handed over. Five kinds of activity run
interleaved, each step of them being what runs between two awaits:

| Activity | Steps | Code |
| --- | --- | --- |
| a call of a handler | `SaveBlock`, `Observe`, `FindRows`, `DeleteProperties`, `DeleteToken`, `FindParent`, `EndWalk`, `FindOffer`, `DeleteOffer`, `Fail` | `CollectionEventsHandler`, `TokensService.observer` with `findAllParents` and `cleanTokenAndProperties` |
| a call for an event of the contract | `HearSale`, `FindOrder`, `SaveOrder`, `CommitOrder`, `RecordSale`, then `Observe` | `ContractEventsHandler`, `OfferService.update`, `OffersSubscriber` |
| requests for jobs | `AddJob` | `GraphileService.addToken`, not awaited |
| jobs | `ReadOwner` to `SaveProperties`, `FailJob`; `FindRowOfCollection`, `WriteCollection`, `FailCollecting` | the tasks collectTokens, collectProperties, collectCollection |
| adding a collection | `ReadTokens`, `AddCollectionJob`, `AddTokenJob`, `FailAdding` | `CollectionsService.addNewCollection` |

A job is a pair of a token and a kind, so that `jobs` as a set models the key
under which a job that waits is replaced; `running` has one job per token, as its
queue does. collectCollection has neither key nor queue: any number of such jobs wait
(`toCollect`), and as many as there are `Workers` run side by side, so that two may find
no row and both insert one. Each call has an adding of its own, as each insertion of an offer
waits for one. A crash loses calls and requests; the table of jobs stays, and a job
that was running is run again. `Restart` subscribes from the setting.

Abstracted: a token's schema is its owner (what else it says of itself is
`Catalog`'s); events of the collection and of token 0, which the code takes for
the same thing, are "other" and write only the block; `runCheckApproved` has no
effect, as in the code. Of the contract's events those of one order are handled one after another
(what overlaps there is `ContractEvents`'), beside the calls for the events of the
collection. An offer that is inserted is in the table for others only when
`OffersSubscriber` has returned (`CommitOrder`), since it is awaited in the transaction.
`UpdateTokensOneMarket` is the REST app's count of open offers
into the column in which the worker counts tokens.

Where an error is logged and dropped, the code gives no promise about the token
concerned. History variables name exactly these cases and nothing else: `missed`
(a job that a change should have led to and has not), `overlooked` (an end of a token
that no open offer was told of: the event was dropped, or an event of the contract inserted or
reopened the row after the burning), `reset` (rows of the collection whose tokensOnMarket was
overwritten, or was inserted as 0 when tokens were counted already). Properties
exempt what they name. `happening` is the choice of the events a behaviour is about.

### Royalty

Operators without state. A word is the set of the positions of its bits that are 1, so
that the code's `|`, `&` and shifts become unions, intersections and additions, with the
real widths (256, 160, 96, 64, 8) and offsets. `EncodePart`, `DecodePart`, `Encode`,
`Decode` and `Valid` are UniqueRoyalty's, `LibEncodePart`, `LibDecodePart` and
`ToUniqueRoyalty` the adapters' of LibPart. `Calculate` and
`CalculateForPrimarySale` are UniqueRoyaltyHelper's, on numbers. Reverts by overflow are not modelled.

### RestApp

Requests are served at the same time; `request` has for each what it does, where
it is and what it has read. Every step is what one does up to its next await.

| Operation | Steps | Code |
| --- | --- | --- |
| addCurrency, delCurrency | `StartCurrency`, `ReadCurrencies`, `WriteCurrencies`, `CurrencyCall` | `contracts.service.ts`, `settings.service.ts` |
| banners | `CreateBanner`, `EditBanner`, `ReadAgain`, `DeleteBanner`, `RemoveObject`, `PutObject`, `LinkFile`, `DeleteRow` | `banners.service.ts` |
| checkApproved | `CheckApproved`, `SubmitCheck`, `AskOwner`, `FindOffer`, `SaveOffer` | `contracts.service.ts`, `OfferService.update` |
| the escrow | `FindMirrored`, `SaveMirrored` | the same `OfferService.update` |

`Fail` ends a request at any await. One order is enough for checkApproved; the
contract and the token's moves (`Order`, `MoveToken`) are external here, `Market`
has all of them. A banner's file is named after the request that uploads it. `suspects`
is a history variable: the currencies, banners and the order that a race or an error
named in the comments may have spoilt.

### Collections

Extends `RestApp` with the rows of collections and whatever else writes or reads them.

| Operation | Steps | Code |
| --- | --- | --- |
| collectCollection, a job of the worker | `FindCollection`, `SaveCollection` | `collection.task.ts` |
| allowed tokens, metadata | `AllowTokens`, `UpdateMetaData`, `SetColumn` | `collections.service.ts` |
| status | `ToggleCollection` | `collections.service.ts`, one statement |
| a look at a collection, or at the list of them | `UpdateTokens`, `AskTotal`, `CountTokens`, `CountHolders`, `GetPriceStats`, `SaveCount`, `RefuseCount` | `updateTokensOneMarket`; the list awaits none of its counts |
| settings page | `StartPage`, `ReadOffers`, `ReadCollections` | `settings.service.ts` |
| an await throws | `FailRequest` | what nobody awaits takes the process down, and every request with it |

`rows` is a sequence: the table has no unique key but its own, and two jobs may add a row
each. Tokens that an admin allows are a sequence of items, each split at its hyphens into
numbers or the empty piece. `said`, `counted` and `watched` are history variables: of
what the admin said last, of when the last count that was saved began, and of what was true
while a page is read. Offers, tokens of the chain and of the worker, and banners change by
the external actions `ListOffer`, `CloseOffer`, `Restock` and `Curate`, which stand for what
`Market`, `TokenIndexer` and `RestApp` do.

The families of operations of `RestApp` and `Collections` share no state but the rows
of collections, so `MCRest` gives each behaviour one of them: currencies, banners, checks,
pages (with the status, the offers and the banners), words (what admins set, beside the jobs) and counts (beside a job and changes of what is counted).

### Requests and Catalog

`Requests` is the parameters a request has, as the DTOs declare them, and the pipes that
read them: a list parameter is a set of values, `Junk` is text that
is no number, `Blank` is empty or white space, `Absent` is not given. `OffersFilter`,
`TokensViewFilter` and `TradesFilter` are all there are of each kind: `Numerals` is what may
be sent for a number, `Limit` for a bound, `Single` for a text. An amount is a
sequence of digits. `Catalog` keeps the tables as the worker leaves them (`offers`,
`index`, `tokens`, `trades`, `rates`) and derives the three views from them, row by row as
the SQL does: a token that is not indexed has one row without property, an
indexed one a row for each item that is no image. The filters are predicates of a row,
DISTINCT is the projection to offers. What a client sees of a list is the value of
`GetOffers`, `GetOffersAttributes`, `GetOne`, `FindTokensByCollection` and `GetTrades` for a
request: the items with what the DTOs say of them and what is looked up for it (descriptions,
the price in USDT), the counts by number of attributes and the facets. An offer's number
stands for its date, which is all that tells it from another offer of its token in an answer.
`GetTrades` is the set of answers the database may give for a page of trades.

The part with behaviour is the client that reads page by page (`reader`) while the
tables change. `MayBePage` says which pages the database may give: rows that the
sort leaves equal can come in any order, which differs from query to query.

Abstracted: the two notations of a price (`AmountsRoundTrip` is about them), the numbers of
pages in an answer, escaping and the building of SQL; a text contains another as `Within`
says.

## Runs

| Run | Instance | Shows |
| --- | --- | --- |
| `market_orders` | 2 tokens, native money, amounts 0 to 2, prices 0 and 4, fees 25 and 101, ids to 2 | types; the events tell the book; the contract implements `OrderBook`; distinct ids to the last one; only consented sales |
| `market_currencies` | 1 token, amounts 1 and 2, native money and one fungible collection, fees 62 and 100, 2 royalty helpers; sample royalties | which open orders can be bought, and which the fee bars; the buyer pays the price once and nobody else pays; the contract keeps its fee; royalties survive their encodings and stay within the price |
| `events_restart` | 2 orders, 2 prices, 3 events, 2 blocks, 1 callback, 1 crash, 1 failure | no event is lost; an event has one row, and at most one more per restart; caught up means equal; a replay goes no further back than the block in progress; the tables converge (liveness) |
| `indexer` | 1 token, 2 events of the collection in 2 blocks and 2 of the contract, 1 callback and 1 call for the order, 2 jobs collectCollection at once, 1 incident; minted and burnt, sold and burnt, sold, or offered and added | types; the quiet worker's rows tell the chain; the counts cover the rows; no offer outlives its token |
| `indexer_nested` | 2 tokens, one nested in the other, 2 transfers or approvals, 1 incident | tokens move in and out of others: every batch ends, and the rows converge (liveness) |
| `catalog` | 2 collections with a token each, 2 offers, 1 change of the other tables, trades and changes together 2, 98 requests for offers, 20 for tokens, 36 for trades and 24 sorts of them, two sorts to page offers by | lists of offers are exact, and one offer is told as in the list; counts agree with them; pages skip nothing; lists of tokens split and agree with their counts; trades keep to the request, page by page; amounts round-trip |
| `rest` | 2 or 3 requests, 2 currencies, 3 fees of which one is refused, 1 banner, 2 prices, 4 events, 1 failure; 2 collections, 2 jobs, 2 offers, up to 4 changes | types; settings and contract agree; banners have their files; checks keep the mirror of an order; what an admin says of a collection stays; the settings page tells its time; counts are true |
| `market_nft_amount`, `market_signer`, `events_interleaved`, `events_replayed`, `indexer_loops` | as above, one bound or input changed | the findings below |

**Bounds.** Order ids run to 2: a first order, and one that must not be
confused with it; `MaxUint32` is 3, so that the counter reaches its end and the
next `put` reverts (2 in `market_currencies`, which is about one order at a time). Two
fractions are the least of which one can be sold and
one stay, and two tokens the least that a list of revocations can mix up. Two accounts, one of each kind of address, play seller, buyer and
outsider by turns, and the deployer is one of them, so that privileges and
ownership meet; `market_signer` has a third to pay for another. Fees in `market_orders` include
one over 100, which must be rejected. Those of `market_currencies` switch under open orders to each side of `FeeBars`: two fractions at 62 percent
of the price 4 are sold only because the fee of 4.96 is rounded down to 4, and at 100
nothing is. The price 4 and the shares make both roundings happen. Royalties are sampled with bits at both ends of every
field.

In ContractEvents three events hold a listing, a change or partial sale and its end, or
any mix with a second order; two blocks are the least for which `processed_at` can pass an
event, and a crash can fall between any two awaits of any of them. In TokenIndexer two
events are the least that can be handled, dropped or replaced by each other's jobs, and
one incident (a failed await, a failed job, a crash, a notification or a recount) can fall
at any step; the nested instance adds a parent, whose row every transfer concerns too.
In RestApp three requests are two that race and one that meets their result. In
Collections two jobs are what it takes to add a row twice, two counts to overlap, two offers
to have one open and one over, and four changes to have something change between any two
reads of a page (three where counts overlap); an item has up to three pieces, with each
boundary of the token's number among them.
In Catalog a page holds one offer and two offers make two pages and an empty
one; `SizeOfPage` 2 is more than `MaxPageSize`, so that the limit bites. The tables start
indexed, partly indexed, with and without rates, and one change more reaches the rest. Two
turns are two trades, whose order then matters, or a trade and a change.

Everything else is bounded by `MaxEvents`, `MaxBlock`, `MaxCrashes`, `MaxFailures`,
`MaxIncidents`, `MaxStarted`, `MaxOffers`, `MaxNumber`, `MaxTurns`, `MaxChanges`, `MaxListed`, and in
`MCRest` `MaxCounts` and `MaxMoves`. Deadlock is not
checked: a market may be quiet, and a bounded chain ends.
`rest` uses symmetry over requests, `market_orders` over tokens of one collection and owner, and
`indexer` over the workers that run collectCollection: no definition tells them apart, and
these runs check no liveness.

**Fairness.** `events_restart`, `indexer_nested` and `indexer_loops` use the
`FairSpec` of their modules. The steps of a callback are weakly fair: promises that
settle are run by the event loop, and a query that fails throws, which is `Fail`.
The indexer is taken to deliver what there is, graphile-worker to run the jobs it
has, and a worker that died to be started again and to connect (the supervisor
of the deployment does that, not the code: a failed `connect` is only
logged). A job that fails is run again; that it fails only finitely often is the
bound `MaxIncidents`. Nothing is assumed of users, of the chain or of crashes.

## Findings

- `market_nft_amount`: `put` takes an NFT with amount 2. A purchase of 1 moves
  the token and leaves its order on sale. The comment on `put` says the amount must
  be 1 for an NFT; nothing checks it.
- `market_signer`: a third account calls `buy`, pays, and the account it names as the
  buyer gets the token. The comment on `buy` says that the buyer's eth part must be equal to the
  signer's address; nothing compares them.
- `events_interleaved`: with two callbacks under way the later batch can raise
  `processed_at` past the events of the earlier; a crash then loses them.
- `events_replayed`: an event that a restart hands over again gets a second row in
  offer_events. The check for duplicates (`common/modules/database/services/offer-event.service.ts:20`)
  looks for it by every column of the offer and its contract, which have changed since.
- `indexer_loops`: `findAllParents` (`escrow/src/collections/tokens.service.ts:100`)
  follows rows from owner to owner without noticing where it has been. Two tokens nested
  in each other in turn leave, until the first row is rewritten, a circle of rows, and the
  call for the next event never ends, though the comment on `observer` says that it updates
  the database.

Faults met while modelling that no run is about. Where a property would meet one, its
comment or a definition it uses names the exemption.

- At a fee of 100 percent no order can be bought, and one of several fractions not in one piece
  when the fee on all of them is above the price of one (`contracts/src/Market.sol:322`, `:326`).
  `SellsUnlessTheFeeBars` says exactly which.
- A contract event under way when a token is burnt may insert the offer again after it was deleted
  (`escrow/src/app/contract-events/handlers/collection-events.handler.ts:295`), and nothing deletes it then.
- A bound of both prices: maxPrice and maxUsdtPrice share one query parameter name, and so
  do the least ones, so that the later bound is taken for both
  (`market/src/offers/view-offers.service.ts:321`).
- The list of tokens cannot be sorted by Price, nor by any single sort string, nor bounded by a
  price in USD (`market/src/tokens/tokens.service.ts:145`, `:270`).
- A text searched for among trades is joined with OR to the other filters
  (`market/src/trades/trades.service.ts:179`); a trade in a collection without cover makes
  the list fail; a trade is shown with the price its offer has now.
- Sorts by TradeDate, and of offers by what the view does not have, fall back to
  the newest first. The facets by attribute, of offers as of tokens, are always
  empty (`market/src/offers/view-offers.service.ts:489`): they ask for rows with a locale, and the
  worker writes none. The look-up of token 0 is a look-up of any offer (`:149`), and the price
  shown with a token is no number, since its column is not selected. A sort without a total order may skip offers between pages.
- A fee above 100 is stored in the settings while the contract refuses it
  (`market/src/contracts/contracts.service.ts:137`).
- A banner whose upload failed cannot be deleted (`market/src/banners/banners.service.ts:181`),
  and an edit that fails after the old file is removed leaves a row without file.
- A job that read a token before it was burnt writes its row back after the
  deletion (`escrow/src/tasks/tokens.task.ts:123`), until the next event of that token. `LiveTokensAreIndexed`
  therefore speaks of live tokens.
- Two collectCollection jobs that run at once add two rows of one collection
  (`escrow/src/tasks/collection.task.ts:48`; ten jobs may run at once,
  `common/modules/config/worker.module.ts:40`); an admin's allowed tokens and metadata then
  reach one of them, and the second row's tokensOnMarket begins at 0 though tokens may be counted
  already. `AdminsWordStays` and `CountCoversTheRows` exempt it.
- With no open offer the settings page lists every enabled collection, though its comment
  says that they are based on offers (`market/src/settings/settings.service.ts:110`). `Active` has it.
- The price statistics of a collection include offers that are over
  (`market/src/collections/collections.service.ts:173`); `CountsAreTrue` asks only that they
  bound the open ones.
- The list of collections awaits none of the counts it starts (`:53`), and a collection
  with holders but no token on the chain has an infinite share of unique holders (`:168`): the
  count is refused, as an unhandled rejection.
- An empty item of allowed tokens and whatever follows a second hyphen are accepted (`:223`).
- tokensOnMarket is a count of tokens for the worker and of open offers for the REST app.
- `fromUniqueRoyalties` scales the value the wrong way round (`contracts/src/royalty/LibPart.sol:79`).

## Proofs

The theorems hold for every value of the constants that meets the assumptions of
the model's modules. These are types (`Market`: addresses, natural numbers, a positive
largest uint32), that names differ that the code could not confuse (a token is not an
account, "no row" is no owner, `Unminted` is not `Burnt`, the name of a file is not its
absence), that there are finitely many tokens, that an item of allowed tokens
has a piece at least, as `split` always gives one, that a refusal is no request
(`RefusalIsNoRequest`), that the tables of `Catalog` hold what the worker writes
(`CatalogInputs`, `WhatIsWritten`: ids of tokens are positive, prices and rates no less than 0, attributes a
key and a value, media pictures and films), and that a royalty part names one
address and the value of a legacy part fits into 64 bits (`RoyaltyInputs`), as the formats
of the code require. Nothing is assumed of how many
accounts, tokens, orders, requests, events, crashes or failures there are, and the
bounds of the runs are any natural numbers.

| Module | Theorem | States |
| --- | --- | --- |
| `MarketProofs` | `TypeCorrect` | `Spec => []TypeOK` |
| | `LogMirrorsBook` | `Spec => []EventsTellTheOrderBook` |
| | `DistinctIds` | `Spec => []OrdersHaveDistinctIds` |
| | `RefinesOrderBook` | `Spec => ImplementsOrderBook` |
| `MarketSales` | `OnlyConsentedSales` | `Spec => SaleIsConsented` |
| | `FeeIsKept` | `Spec => MarketKeepsItsFee` |
| | `OnlyTheBuyerPays` | `Spec => BuyerPaysThePrice` |
| | `OrdersSellUnlessTheFeeBars` | `Spec => []SellsUnlessTheFeeBars`, on `ProductsFit` and `RoyaltiesLeaveSome` |
| `RoyaltyProofs` | `RoyaltiesComeBack` | `RoyaltiesRoundTrip` |
| | `SharesStayWithinThePrice` | `TwoSharesStayWithin`, and `Spec => []RoyaltiesStayWithinThePrice` |
| `EventsProofs` | `EventsTypeCorrect` | `Spec => []TypeOK` |
| | `OneRowPerStart` | `Spec => []RecordedOncePerStart` |
| | `RestartLosesNothing` | `Spec => []NoEventIsLost`, one callback at a time |
| | `TablesMirror` | `Spec => []CaughtUpMirrors`, one callback at a time |
| | `RowsStayRecent` | `Spec => RowsFollowTheChain`, one callback at a time |
| `IndexerProofs` | `IndexerTypeCorrect` | `Spec => []TypeOK` |
| | `LiveTokensComeToBeIndexed` | `Spec => []LiveTokensAreIndexed` |
| | `CountNeverMissesARow` | `Spec => []CountCoversTheRows` |
| | `OffersEndWithTheirTokens` | `Spec => []BurntOffersGo` |
| `RestProofs` | `CurrenciesStayAgreed` | `Spec => []CurrenciesAgree` |
| | `BannersKeepTheirFiles` | `Spec => []BannersHaveTheirFiles` |
| | `MirrorSurvivesChecks` | `Spec => []ChecksKeepTheMirror` |
| `CollectionsProofs` | `CollectionsTypeCorrect` | `CollectionsSpec => []TypeOK` |
| | `AdminsWordIsKept` | `CollectionsSpec => []AdminsWordStays` |
| | `PagesAreOfTheirTime` | `CollectionsSpec => []PagesTellTheirTime` |
| | `CountsTellTheTruth` | `CollectionsSpec => []CountsAreTrue` |
| `CatalogProofs` | `PagesHold` | `Spec => []PagesSkipNothing`, if `SortsAreSteady` |
| | `OfferListsHold` | `Spec => [](EveryOfferListIsExact /\ OfferListsAreExact)` |
| | `AttributeCountsHold` | `Spec => [](EveryCountAddsUp /\ AttributeCountsAddUp)` |
| | `TokenListsHold` | `Spec => [](EveryTokenListSplits /\ TokenListsSplit)` |
| | `TradeListsHold` | `Spec => [](EveryTradeListKeepsTo /\ TradeListsKeepTo)` |
| | `AmountsComeBack` | `EveryAmountRoundTrips`, and `Spec => []AmountsRoundTrip` |

**Some hypotheses say less than the model allows.** Three theorems of `EventsProofs` speak of one
callback, a service that handles each batch before the next arrives; with two, `NoEventIsLost`
fails, as `events_interleaved` shows. Its type theorem and `OneRowPerStart` are about any
number. `OrdersSellUnlessTheFeeBars` covers every fee and every amount, and asks that the products of
prices and amounts fit into a word (`ProductsFit`: beyond them `buy` reverts by overflow) and that
a helper's shares of a token are below the whole price, of finitely many accounts
(`RoyaltiesLeaveSome`: with all given away `buy` always reverts).
The instance of `market_currencies` meets both.

Two royalties are proved to stay within the price where their `value` counts whole prices,
tenths or hundredths; what the provers know of powers of ten ends there. In `CatalogProofs`,
`SortsAreSteady` asks that pages are read by a sort that has a date in it and none of
the prices, which change with the rates or in place: without it pages may skip offers, as the list of
faults above says. The sorts of the run meet it. `EveryOfferListIsExact` leaves out requests
that bound both prices (`BoundsClash`); those that are malformed it proves refused. The lists of
tokens are about requests that are not `TokensMalformed`, which the service answers with an
error. `EveryTradeListKeepsTo` speaks of pages sorted by a date (`Dated`), and of texts searched for that are
a number or none, since any other is joined to the filters with OR.

**Market.** Neither `EventsTellTheOrderBook` nor `OrdersHaveDistinctIds` is inductive.
The former speaks of ids, but
`put` needs to know that the next id is in use nowhere, and `revoke` that the
event of an order is about that very order and not about an older one of the same
token. The invariant is `IndInv`, that is `TypeOK` with `BookInv`: an order on sale
is under its own token, has an id below the counter and is what the log says
last of that id; ids not handed out are in no event with fractions left; what
the log shows with fractions left is on sale. Two orders with one id would both
have to be the same log entry, so distinct ids follow.

The argument goes along the transactions. Except `revokeListAdmin`, every
transaction on orders *records* one order: it stores an order, or deletes it if nothing is left,
and emits it under its id (`Recorded`). `RecordedKeepsBook` shows once that
this keeps `BookInv`; one lemma per function shows that it records.
`revokeListAdmin` ends many orders in one step and has a proof of its own,
where distinct ids keep the events apart. For types the only hard function is
`buy`: `PriceIsSplit` shows that fee, royalties and proceeds are natural numbers that make up the
price, and `PayNativeType` and `PayFungibleType` that no balance goes below zero.

The refinement uses the same invariant. `SeesHolds` reads the mapping off it: an id
on sale shows its order, an id from the counter on is new, every other one is
closed (`Sees`). `RecordedListing` then shows that recording an order changes the
listing of its id and no other, so that `put` is List, `buy` and `revoke` are Take, or
Close when nothing is left, an admin's revocation is Close and `changePrice`
stutters. `revokeListAdmin` closes a set of listings at once.

`MarketSales` is about steps. A step after which an id's last event is a new purchase is a
`buy` of that very order, and of the fractions the event says (`PurchaseIsBought`, which
needs the distinct ids again); what `buy` does to tokens and balances is then followed to each of
its recipients. An account may be payer, seller and royalty recipient at once, so that
each balance is a sum of what may coincide. `OrdersSellUnlessTheFeeBars` needs that an order keeps
the terms somebody gave it while it is sold piece by piece, and that fees in force were
set by an admin (`TermsInv`). From these `SettlesOrBarred` derives both directions: the products of `buy` fit
(`ProductsOfBuy`), the fee is more than the price of one or not, and the royalties are below
what they are computed of, or nothing of nothing (`RoyaltiesStayBelow`). What is paid out is a sum over all accounts of
amounts each rounded down: `SumOfShares` shows that it is at most what the sum of the
shares gives. The sum is a function chosen for having a recursive equation, so that
`SumExists` has to show first that there is one; both go by a least counterexample in the
number of elements (`LeastNumber`).

**Royalty.** A bit of an encoded word belongs to one field, which its position tells
(`MetaBits`); cutting a field out again gives the bits that were put in. The second word is
the address that is not zero. From one part (`PartComesBack`) to lists: the words come in
pairs. A share earns at most its hundredths of the price (`RoundedDown`); that two of them stay within it
follows by adding.

**ContractEvents.** The invariant, `IndInv(c)` for the one callback c, relates positions of the
chain. The queue holds, in order, the delivered events that are not done with, and none of them,
nor of what is to be delivered, lies in a block below `processedAt` (`ProgressInv`). What
the callback has found is still true when it goes on (`CallbackInv`): the row it is
about to write, the row of the event it has written.
No order has two rows (`TablesInv`). Each event done with is `Settled`: in the tables, or on
record as dropped, or the end of an order that has no row because all its other events
failed; after a crash this is known only of the blocks below `processedAt`, for a replay
takes rows back through states they had left (`HandledInv`).

`OneRowPerStart` has an invariant of its own, `OnceInv`, for any number of callbacks: no event is in two
queues or twice in one, and the rows made of an event are at most as many as the crashes so far, and
one more only if it is not `Pending`, that is, neither to be delivered nor to be recorded by
a callback (`CountOf`). A callback that records an event leaves it behind, whatever the look-up
says, and only a crash makes it pending again.

**TokenIndexer.** A token is right if its row is, if a job is on its way, or if something will ask for
one. `Coming(S)` says that an event of the set S is still to be handled: not yet
delivered, in the queue of a callback or, while the worker is down, in a block that will be
replayed. No step ends `Coming` without leaving what the event was for: a request, a job, or
a record that it was lost (`missed`, `overlooked`). `WillTell` is what the row will say when
the job under way is over, so that a job that has read the chain already counts as
done. For the count, `Counting` has the tokens with a row and those whose job is between the
row and the count, and `CountInv` holds of each row of the collection, whichever job inserted it.
Nothing here depends on how many callbacks or jobs overlap.

**RestApp.** One invariant for each thing that requests are about, which only its own steps
disturb. `MoneyInv`: of a currency that is not suspect, every list that a request has read is
still right, and the settings and the contract differ only by the one call that is still to
come. `FilesInv`: a number names one file of one banner, and is in a row or known to a request
only once the upload of that request is done. `OrderInv`: the row tells an event that the
escrow is not past, and a check that is no suspect has the last event in hand, and the status
that goes with it.

**Collections.** `AdminsWordStays` needs that a job or request writes to a row of its own
collection (`JobInv`, `WordInv`), that the list a request is about to write was checked, and that
nothing was said of a collection without a row.
Pages and counts carry histories of what was so while they were read; the invariant
says, step by step, what a page or count has read so far in terms of these
histories. That the sum of prices is a natural number is shown by a least
counterexample, as in `MarketSales` (from the library's lemma that the natural numbers are well founded), since
the theorems on induction take an operator as a parameter, which the provers cannot
instantiate. `CollectionsSpec` lets all families of requests run in one behaviour, where the
run takes one family at a time.

**Catalog.** The run evaluates its properties for the requests of `MCCatalog`; the
theorems are about every request that can be sent, every sort and all tables (`Every...`),
and say the properties of the run beside that. Lists have no history: they are exact in every state whose tables are
well formed (`TablesOK`), which every step keeps. From the request to the answer the proof follows the
code: what the pipe makes of the parameters (`OffersParsed`, `TokensParsed`), what the
rows of a view tell of an offer or a token (`RowsTell`), that an offer has a row that passes the filters
exactly if it fits the request (`OfferFits`, `ListedFit`), and that DISTINCT leaves it
once (`ToldOnce`). Counts are numbers of pairs, and map one to one to the lists (`AmountOf`, `OneToOne`).
For the pages of trades `PageOfOne` shows that, when no two rows are equal for the sort, a page is the one row
with as many before it as its number says, and `EveryPlaceTaken` that each number of rows before
occurs.

`PagesSkipNothing` does have a history. Its invariant is `ReaderInv`: an offer that was
there when the reading began, and that the reader has yet to see, has at least as many offers
before it as the reader has gone past. Offers that open can only add to them; one that closes
sets `upset`. A page takes the rows with fewer before them than its end, so that what it leaves
has enough before it again; and a page past the last offer has none left to see. This needs
that a steady sort is a total order of the open offers which no change of the tables
disturbs.

Amounts: zeros in front make no difference (`ZerosBefore`), padEnd puts back the zeros that
were cut (`FilledUp`), and the whole and the fraction are adjacent parts of one sequence.

Each inductive invariant was checked as an invariant of a run before it was proved.

**Only model-checked.** Liveness (`EventuallyMirrors`, `EventuallyIndexed`, `EveryBatchEnds`), since
fairness and ENABLED are beyond the prover. The sum of three royalties or more
out of one list, which goes by induction over the list. (In `Market` what the helpers of a token pay is a
percentage for each account, and `SumOfShares` bounds the sum for any number of them.)

## Plan

All modules planned are written. Every invariant and action property that a passing run
checks is stated by a theorem; what remains with TLC is liveness.

## Not modelled, and why

- **Compiled ABIs, generated types and tests** (`contracts/assemblies/`, which is most
  of the repository's lines, and the `.spec` files) are data of the build or
  check the code; there is no behaviour of their own in them. Looking up the ABI for a contract's version is
  parsing.
- **Postgres transport**: one NOTIFY per message and no state. What matters of it, that
  nobody hears a message while the worker is down, is in `AddCollection`.
- **Deployment and migration scripts** run once by hand; what they leave, a
  contract row with the block of its deployment, is an initial state here.
- **Admin sessions and `VerifyMessage.sol`** are cryptography and a token library.
- **What nobody calls**: `BundleService`, and of the service of the offers' view `filter`,
  `attributes` and `attributesCount`; `remove` and `hasCollection` of the collections.
- **Several contracts at once**: subscriptions share nothing but the loop that starts them.

The chain, the indexer, PostgreSQL, the file storage and graphile-worker are
external: they are modelled from what the code asks of them.
