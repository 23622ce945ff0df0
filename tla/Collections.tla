---------------------------- MODULE Collections ----------------------------
(***************************************************************************)
(* The collections of the REST app: what an admin sets of them, the counts *)
(* that a look at one renews, and the page of settings that shows them.    *)
(* Each request is again what it does up to its next await.  Offers and    *)
(* tokens change as the escrow worker has them, whose jobs collectCollection*)
(* write the same rows.                                                    *)
(***************************************************************************)
EXTENDS RestApp

CONSTANTS
  Ids,         \* of the collections
  Workers,     \* jobs that may run at the same time
  Texts,       \* what an admin may allow: sequences of items, these of numbers
  MaxToken,    \* the MAX_TOKEN_NUMBER
  MaxListed, MaxChanges   \* bounds

\* split gives no less than one piece.
ASSUME CollectionsInputs ==
  /\ {MaxToken, MaxListed, MaxChanges} \subseteq Nat
  /\ \A text \in Texts : \A i \in 1 .. Len(text) : text[i] \in Seq(Nat \cup {None}) \ {<<>>}

VARIABLES
  rows,      \* rows of collections
  jobs,      \* jobs[w]: the row that it has found, or 0, and the tokens it was told of
  listed,    \* rows of offers: the collection, the price and whether they are open
  stock,     \* stock[c]: tokens on the chain, rows of tokens, and the owners these have
  curated,   \* the collections of banners
  page,      \* the last page of settings
  said,      \* history: what the admin has said last
  changed,   \* history: how often listed and stock have changed
  counted,   \* history: counted[c], of those the ones its last count has seen
  watched    \* history: what has been true while a page is read

told == <<rows, jobs, listed, stock, curated>>
seen == <<page, said, changed, counted>>

RowsOf(c) == {k \in 1 .. Len(rows) : rows[k].id = c}
Opened(c) == {k \in 1 .. Len(listed) : listed[k].id = c /\ listed[k].open}

-----------------------------------------------------------------------------
(* CollectionTask.handler.                                                 *)

NoJob == [id |-> None, key |-> 0, total |-> 0]
FindCollection(w, c) ==
  /\ jobs[w] = NoJob /\ changed < MaxChanges /\ changed' = changed + 1
  /\ \E key \in IF RowsOf(c) = {} THEN {0} ELSE RowsOf(c) :
       jobs' = [jobs EXCEPT ![w] = [id |-> c, key |-> key, total |-> stock[c].total]]
  /\ UNCHANGED <<rows, listed, stock, curated, page, said, counted, request, started>>

NoPrices == [min |-> None, max |-> None, sum |-> None]
New(job) == [id |-> job.id, status |-> "Enabled", allowed |-> <<>>, metadata |-> None, onMarket |-> 0,
             tokens |-> 0, total |-> job.total, holders |-> 0, prices |-> NoPrices]

\* decodedCollection: of a row that is there these columns only.  The mutant saves
\* a whole row.
MutCollected(row, job) == New(job)
Collected(row, job) == [row EXCEPT !.onMarket = 0, !.tokens = 0, !.total = job.total]

SaveCollection(w) ==
  LET job == jobs[w]
  IN /\ job # NoJob /\ jobs' = [jobs EXCEPT ![w] = NoJob]
     /\ rows' = IF job.key = 0 THEN Append(rows, New(job)) ELSE [rows EXCEPT ![job.key] = Collected(@, job)]
     /\ counted' = [counted EXCEPT ![job.id] = None]
     /\ UNCHANGED <<listed, stock, curated, page, said, changed, request, started>>

-----------------------------------------------------------------------------
(* What an admin sets.                                                     *)

\* checkoutTokens of an item, split at its hyphens.  None is the empty piece: it
\* compares with no number, so that it passes where there is no hyphen; what comes
\* after a second hyphen is not looked at.
OutOfRange(n) == n # None /\ (n = 0 \/ n > MaxToken)

\* The mutant does not look at the order.
MutBadRange(item) == None \in {item[1], item[2]} \/ OutOfRange(item[1]) \/ OutOfRange(item[2])
BadRange(item) ==
  \/ None \in {item[1], item[2]} \/ OutOfRange(item[1]) \/ OutOfRange(item[2])
  \/ item[1] > item[2]
CheckoutTokens(text) ==
  \A i \in 1 .. Len(text) : IF Len(text[i]) > 1 THEN ~BadRange(text[i]) ELSE ~OutOfRange(text[i][1])

\* allowedTokens and updateMetaData find the row, then update it by its id.
AllowTokens(r, c, text) ==
  /\ CheckoutTokens(text)
  /\ \E key \in RowsOf(c) : Start(r, "allowed", "set_column", c, text, key)
  /\ UNCHANGED <<told, seen>>
UpdateMetaData(r, c, data) ==
  /\ \E key \in RowsOf(c) : Start(r, "metadata", "set_column", c, data, key)
  /\ UNCHANGED <<told, seen>>

\* updateAllowedTokens, and the update of updateMetaData.
SetColumn(r) ==
  LET column == request[r].op
  IN /\ At(r, "set_column")
     /\ rows' = [rows EXCEPT ![Read(r)][column] = request[r].with]
     /\ said' = [said EXCEPT ![On(r)][column] = request[r].with]
     /\ End(r)
     /\ UNCHANGED <<jobs, listed, stock, curated, page, changed, counted, started>>

\* toggleCollection, in one statement: of all rows the collection has.
ToggleCollection(r, c, status) ==
  /\ request[r] = Idle /\ started < MaxStarted /\ started' = started + 1
  /\ RowsOf(c) # {}
  /\ rows' = [k \in 1 .. Len(rows) |-> IF k \in RowsOf(c) THEN [rows[k] EXCEPT !.status = status] ELSE rows[k]]
  /\ said' = [said EXCEPT ![c].status = status]
  /\ UNCHANGED <<jobs, listed, stock, curated, page, changed, counted, request>>

-----------------------------------------------------------------------------
(* updateTokensOneMarket.                                                  *)

\* Of a collection that somebody looks at, or of each of a list, which nobody awaits.
\* The mutant counts the offers that are over, too.
MutOnMarket(c) == Cardinality({k \in 1 .. Len(listed) : listed[k].id = c})
OnMarket(c) == Cardinality(Opened(c))

NoCount == [onMarket |-> 0, total |-> 0, tokens |-> 0, holders |-> 0, prices |-> NoPrices, after |-> 0]
UpdateTokens(r, c, awaited) ==
  /\ Start(r, "count", "ask_total", c, awaited, [NoCount EXCEPT !.onMarket = OnMarket(c), !.after = changed])
  /\ UNCHANGED <<told, seen>>

CountOn(r, step, next, count) ==
  At(r, step) /\ Goto(r, next, count) /\ UNCHANGED <<told, seen, started>>

\* sdkService.getTokensCollection
AskTotal(r) == CountOn(r, "ask_total", "count_tokens", [Read(r) EXCEPT !.total = stock[On(r)].total])
CountTokens(r) == CountOn(r, "count_tokens", "count_holders", [Read(r) EXCEPT !.tokens = stock[On(r)].tokens])
CountHolders(r) == CountOn(r, "count_holders", "price_stats", [Read(r) EXCEPT !.holders = stock[On(r)].holders])

\* getPriceStats: of all offers, those that are over as well.
SumOf(all) ==
  LET sum[k \in 0 .. Len(listed)] == IF k = 0 THEN 0 ELSE sum[k - 1] + (IF k \in all THEN listed[k].price ELSE 0)
  IN sum[Len(listed)]
PriceStats(c) ==
  LET all == {k \in 1 .. Len(listed) : listed[k].id = c}
      prices == {listed[k].price : k \in all}
  IN IF all = {} THEN NoPrices
     ELSE [min |-> CHOOSE p \in prices : \A q \in prices : p <= q,
           max |-> CHOOSE p \in prices : \A q \in prices : p >= q, sum |-> SumOf(all)]
GetPriceStats(r) == CountOn(r, "price_stats", "save_count", [Read(r) EXCEPT !.prices = PriceStats(On(r))])

\* A share of no tokens is infinite, which the column refuses.
Infinite(count) == count.total = 0 /\ count.holders > 0
SaveCount(r) ==
  LET count == Read(r)
      of(row) == [row EXCEPT !.onMarket = count.onMarket, !.tokens = count.tokens, !.total = count.total,
                             !.holders = count.holders, !.prices = count.prices]
  IN /\ At(r, "save_count") /\ ~Infinite(count)
     /\ rows' = [k \in 1 .. Len(rows) |-> IF k \in RowsOf(On(r)) THEN of(rows[k]) ELSE rows[k]]
     /\ counted' = [counted EXCEPT ![On(r)] = count.after]
     /\ End(r)
     /\ UNCHANGED <<jobs, listed, stock, curated, page, said, changed, started>>

\* What nobody awaits may take the process down with it.
Throw(r) ==
  /\ \/ End(r)
     \/ request[r].op = "count" /\ ~request[r].with /\ request' = [q \in Requests |-> Idle]
  /\ UNCHANGED <<told, seen, started>>
RefuseCount(r) == At(r, "save_count") /\ Infinite(Read(r)) /\ Throw(r)
FailRequest(r) == request[r] # Idle /\ failures < MaxFailures /\ failures' = failures + 1 /\ Throw(r)

-----------------------------------------------------------------------------
(* The page of settings: getCollectionSettings.                            *)

Offered == {c \in Ids : Opened(c) # {}}
Enabled == {rows[k].id : k \in {j \in 1 .. Len(rows) : rows[j].status = "Enabled"}}
\* With no open offer at all there is no filter.
Active(offered) == IF offered = {} THEN Ids ELSE offered

Reading == \E r \in Requests : request[r].op = "page"

\* findCuratedCollections.  Bound: one page at a time.
StartPage(r) ==
  /\ ~Reading
  /\ Start(r, "page", "read_offers", None, None, [curated |-> curated, active |-> {}])
  /\ UNCHANGED <<told, seen>>

ReadOffers(r) ==
  /\ At(r, "read_offers")
  /\ Goto(r, "read_collections", [Read(r) EXCEPT !.active = Active(Offered)])
  /\ UNCHANGED <<told, seen, started>>

\* The mutant shows what is disabled, too.
MutShown(active) == {rows[k].id : k \in 1 .. Len(rows)} \cap active
Shown(active) == Enabled \cap active
ReadCollections(r) ==
  LET shown == Shown(Read(r).active)
  IN /\ At(r, "read_collections")
     /\ page' = [shown |-> shown, curated |-> shown \cap Read(r).curated, meanwhile |-> watched]
     /\ End(r)
     /\ UNCHANGED <<told, said, changed, counted, started>>

-----------------------------------------------------------------------------
(* What the escrow worker does, and the banners.                           *)

Change == changed < MaxChanges /\ changed' = changed + 1 /\ UNCHANGED <<rows, jobs, page, said, counted, request, started>>

ListOffer(c, price) ==
  /\ Len(listed) < MaxListed /\ listed' = Append(listed, [id |-> c, price |-> price, open |-> TRUE])
  /\ Change /\ UNCHANGED <<stock, curated>>
CloseOffer(k) == listed' = [listed EXCEPT ![k].open = FALSE] /\ Change /\ UNCHANGED <<stock, curated>>

\* Tokens are minted, burnt and given away, and the worker comes to know of it.
Restock(c) ==
  /\ \/ \E n \in {0, 2} : stock' = [stock EXCEPT ![c].total = n]
     \/ \E n \in 0 .. stock[c].total : \E h \in 0 .. n :
          (n > 0 => h > 0) /\ stock' = [stock EXCEPT ![c].tokens = n, ![c].holders = h]
  /\ stock' # stock /\ Change /\ UNCHANGED <<listed, curated>>
Curate(c) ==
  /\ curated' = IF c \in curated THEN curated \ {c} ELSE curated \cup {c}
  /\ Change /\ UNCHANGED <<listed, stock>>

-----------------------------------------------------------------------------

Nothing == [enabled |-> {}, active |-> {}, always |-> Ids, curated |-> Ids]
Watch ==
  watched' = IF Reading'
             THEN [enabled |-> watched.enabled \cup Enabled', active |-> watched.active \cup Active(Offered)',
                   always |-> watched.always \cap Enabled' \cap Active(Offered)',
                   curated |-> watched.curated \cap curated']
             ELSE Nothing

CollectionsInit ==
  /\ Init
  /\ rows = <<>> /\ jobs = [w \in Workers |-> NoJob] /\ listed = <<>> /\ curated = {}
  /\ stock = [c \in Ids |-> [total |-> 2, tokens |-> 0, holders |-> 0]]
  /\ page = None /\ changed = 0 /\ watched = Nothing
  /\ said = [c \in Ids |-> [status |-> "Enabled", allowed |-> <<>>, metadata |-> None]]
  /\ counted = [c \in Ids |-> None]

Collect(c) == \E w \in Workers : FindCollection(w, c) \/ (jobs[w].id = c /\ SaveCollection(w))

Admin(r, c) ==
  \/ \E text \in Texts : AllowTokens(r, c, text)
  \/ UpdateMetaData(r, c, "links")
  \/ On(r) = c /\ SetColumn(r)
Toggle(r, c) == \E status \in {"Enabled", "Disabled"} : ToggleCollection(r, c, status)

Page(r) == StartPage(r) \/ ReadOffers(r) \/ ReadCollections(r)

Count(r, c) ==
  \/ \E awaited \in BOOLEAN : UpdateTokens(r, c, awaited)
  \/ /\ On(r) = c
     /\ AskTotal(r) \/ CountTokens(r) \/ CountHolders(r) \/ GetPriceStats(r) \/ SaveCount(r) \/ RefuseCount(r)

Offers(c) ==
  \/ \E price \in Prices : ListOffer(c, price)
  \/ \E k \in Opened(c) : CloseOffer(k)

CollectionsNext ==
  /\ \/ \E r \in Requests : FailRequest(r)
     \/ /\ \/ \E r \in Requests : Page(r)
           \/ \E c \in Ids : Collect(c) \/ Offers(c) \/ Restock(c) \/ Curate(c)
           \/ \E r \in Requests, c \in Ids : Admin(r, c) \/ Toggle(r, c) \/ Count(r, c)
        /\ UNCHANGED failures
  /\ Watch /\ UNCHANGED <<money, files, market, suspects>>

CollectionsSpec == CollectionsInit /\ [][CollectionsNext]_<<vars, told, seen, watched>>

-----------------------------------------------------------------------------
(* Properties.                                                             *)

\* Types.
TypeOK ==
  /\ RequestsTypeOK
  /\ \A k \in 1 .. Len(rows) : DOMAIN rows[k] = DOMAIN New(NoJob) /\ rows[k].id \in Ids /\ rows[k].allowed \in Texts \cup {<<>>}
  /\ jobs \in [Workers -> [id : Ids \cup {None}, key : 0 .. Len(rows), total : Nat]]
  /\ listed \in Seq([id : Ids, price : Prices, open : BOOLEAN])
  /\ stock \in [Ids -> [total : Nat, tokens : Nat, holders : Nat]]
  /\ curated \subseteq Ids /\ changed \in 0 .. MaxChanges /\ counted \in [Ids -> Nat \cup {None}]

\* The tokens an item names.
Tokens(item) ==
  IF Len(item) > 1 THEN item[1] .. item[2] ELSE IF item[1] = None THEN {} ELSE {item[1]}

\* Whatever an admin and the worker's jobs write into the row of a collection in
\* between, it keeps what the admin has said of it last, unless two jobs have each
\* added a row; and what it allows are tokens that there may be, in ranges that are
\* not empty.
AdminsWordStays ==
  \A k \in 1 .. Len(rows) :
    /\ RowsOf(rows[k].id) = {k} =>
         \A column \in {"status", "allowed", "metadata"} : rows[k][column] = said[rows[k].id][column]
    /\ \A i \in 1 .. Len(rows[k].allowed) :
         LET item == rows[k].allowed[i]
         IN Tokens(item) \subseteq 1 .. MaxToken /\ (Len(item) > 1 => Tokens(item) # {})

\* A page of settings, read table by table, shows every collection that was enabled
\* and on sale (or nothing was on sale) all the while, and none that was not
\* enabled, or not on sale, at any moment of it; it calls curated what had a banner
\* all the while.
PagesTellTheirTime ==
  page # None =>
    /\ page.meanwhile.always \subseteq page.shown
    /\ page.shown \subseteq page.meanwhile.enabled \cap page.meanwhile.active
    /\ page.shown \cap page.meanwhile.curated \subseteq page.curated

\* When the last count of a collection that was saved has begun after the last change
\* of the tables, however many overlap with it, the row tells what there is.
CountsAreTrue ==
  \A k \in 1 .. Len(rows) :
    LET c == rows[k].id
        open == {listed[j].price : j \in Opened(c)}
    IN counted[c] = changed =>
         /\ rows[k].onMarket = Cardinality(Opened(c))
         /\ rows[k].tokens = stock[c].tokens /\ rows[k].total = stock[c].total /\ rows[k].holders = stock[c].holders
         /\ \A p \in open : rows[k].prices.min <= p /\ p <= rows[k].prices.max
=============================================================================
