---------------------------- MODULE TokenIndexer ----------------------------
(***************************************************************************)
(* How the escrow worker follows the tokens of a collection: the events    *)
(* CollectionEventsHandler receives over the second subscription, what     *)
(* TokensService.observer makes of them, the graphile-worker jobs          *)
(* collectTokens, collectProperties and collectCollection, and the rows    *)
(* they leave in tokens, properties, collections and offers.               *)
(*                                                                         *)
(* And what the events of the marketplace contract do to the same rows:    *)
(* ContractEventsHandler, of which ContractEvents tells the rest.          *)
(*                                                                         *)
(* Batches, jobs, requests for jobs and the adding of a collection run     *)
(* interleaved; each step is what runs between two awaits.  The chain, the *)
(* contract, the indexer and graphile-worker are external.                 *)
(***************************************************************************)
EXTENDS Integers, Sequences, FiniteSets

CONSTANTS
  Tokens,       \* the tokens of the collection
  Parents,      \* those that others may be nested in
  Accounts,     \* owners that are no tokens
  Unminted, Burnt, NoRow,
  Callbacks,    \* calls of handleCollectionEvents that can be under way at once
  Workers,      \* jobs collectCollection that can be
  AtStart,      \* what the owners of the tokens can be when the worker is first started
  Happening,    \* bound: sets of events that happen together, and to which token
  MaxEvents, MaxSales, MaxBlock, MaxIncidents  \* bounds

ASSUME IndexerInputs ==
  /\ Parents \subseteq Tokens /\ Tokens \subseteq Nat \ {0} /\ IsFiniteSet(Tokens)
  /\ {Unminted, Burnt, NoRow} \cap (Tokens \cup Accounts) = {} /\ Unminted # Burnt
  /\ Callbacks \cap Tokens = {} /\ IsFiniteSet(Workers)
  /\ AtStart \subseteq [Tokens -> Parents \cup Accounts \cup {Unminted}]
  /\ {MaxEvents, MaxSales, MaxIncidents} \subseteq Nat /\ MaxBlock \in Nat \ {0}

VARIABLES
  owner,      \* external: the owner of each token, a token if it is nested in one
  chain,      \* external: the events of the collection so far
  orders,     \* external: orders[t]: the contract's events of the order of token t
  heard,      \* heard[t]: how many of them have been handed over
  delivered,  \* how many events this subscription has handed over
  up,         \* the worker runs
  callback,   \* callback[c]: the events call c has left and where it is in the first
  requests,   \* calls of addJob that nothing waits for
  adding,     \* adding[c]: where a call of addNewCollection is, and the jobs to add
  running,    \* running[t]: the job of token t under way; one per queue
  collecting, \* collecting[w]: the row a job collectCollection has found, NoKey if none
  jobs,       \* external: jobs of the tokens in the table of jobs
  toCollect,  \* external: jobs collectCollection there
  block,      \* the setting subscribe_collection_block; 0: none
  tokens,     \* tokens[t]: owner_token of its row
  index,      \* tokens with rows in properties
  offers,     \* offers[t]: the row of the order of token t
  onMarket,   \* tokensOnMarket of the rows of the collection, as they were inserted
  missed,     \* history: jobs that a change has not led to
  overlooked, \* history: tokens whose end no open offer was told of
  reset,      \* history: rows whose tokensOnMarket was written over, or began too late
  incidents,  \* failures, crashes and calls of the REST app
  happening   \* the set that does

external == <<owner, chain, orders, happening>>
outside == <<external, heard, delivered, up>>
background == <<requests, adding, running, collecting>>
calls == <<callback, background>>
rows == <<block, tokens, index, offers, onMarket>>
queue == <<jobs, toCollect>>
history == <<missed, overlooked, reset>>
vars == <<outside, calls, rows, queue, history, incidents>>

Owners == Tokens \cup Accounts
Kinds == {"collectTokens", "collectProperties"}
Methods == {"Transfer", "Approved", "ItemDestroyed", "ItemCreated", "other"}
Sales == {"TokenIsUpForSale", "TokenPriceChanged", "TokenRevoke", "TokenIsPurchased"}
None == 0
\* parents: the tokens whose addresses from and to are.  left: of an event of the
\* contract, whether anything is still on sale.
Event == [method : Methods \cup Sales, token : Tokens \cup {None}, parents : SUBSET Tokens,
          block : 0 .. MaxBlock, left : BOOLEAN]
\* The events of an order are handled one after another, by the call of its token.
Calls == Callbacks \cup Tokens
Job == Tokens \X Kinds
JobsOf(some) == some \X Kinds

Live(t) == owner[t] \in Owners
Nested(addresses) == addresses \cap Tokens

-----------------------------------------------------------------------------
(* The chain.                                                              *)

HeadBlock == IF chain = <<>> THEN 1 ELSE chain[Len(chain)].block

\* transformEvent: only of a Transfer are both addresses taken, of an Approved the
\* approved one; the owner in the other events is not looked at.
Parsed(method, t, from, to, b) ==
  [method |-> method, token |-> t, block |-> b, left |-> FALSE,
   parents |-> CASE method = "Transfer" -> Nested({from, to})
                 [] method = "Approved" -> Nested({to})
                 [] OTHER -> {}]

Emit(method, t, from, to) ==
  /\ Len(chain) < MaxEvents
  /\ \E b \in {HeadBlock, HeadBlock + 1} \cap 1 .. MaxBlock :
       chain' = Append(chain, Parsed(method, t, from, to, b))
  /\ UNCHANGED <<happening, heard, delivered, up, calls, rows, queue, history, incidents>>

\* The tokens a token is nested in, and itself.
Above(t) ==
  LET above[n \in 0 .. Cardinality(Tokens)] ==
        IF n = 0 THEN {t} ELSE above[n - 1] \cup Nested({owner[u] : u \in above[n - 1]})
  IN above[Cardinality(Tokens)]

Home(o) == o \in Accounts \cup {p \in Parents : Live(p)}

Happens(method, t) == <<method, t>> \in happening

Mint(t, o) ==
  /\ Happens("ItemCreated", t) /\ owner[t] = Unminted /\ Home(o)
  /\ owner' = [owner EXCEPT ![t] = o] /\ Emit("ItemCreated", t, NoRow, o)
  /\ UNCHANGED orders

Transfer(t, o) ==
  /\ Happens("Transfer", t) /\ Live(t) /\ o # owner[t]
  /\ Home(o) /\ (o \in Tokens => t \notin Above(o))
  /\ owner' = [owner EXCEPT ![t] = o] /\ Emit("Transfer", t, owner[t], o)
  /\ UNCHANGED orders

\* Approved to an account or a contract.
Approve(t, o) ==
  /\ Happens("Approved", t) /\ Live(t) /\ o \in Accounts
  /\ Emit("Approved", t, owner[t], o) /\ UNCHANGED <<owner, orders>>

\* A token with tokens in it cannot be burnt.
Burn(t) ==
  /\ Happens("ItemDestroyed", t) /\ Live(t) /\ \A u \in Tokens : owner[u] # t
  /\ owner' = [owner EXCEPT ![t] = Burnt] /\ Emit("ItemDestroyed", t, owner[t], NoRow)
  /\ UNCHANGED orders

\* An event of a token 0 or of another collection.
OtherEvent ==
  Happens("other", None) /\ Emit("other", None, NoRow, NoRow) /\ UNCHANGED <<owner, orders>>

\* The contract's events of the one order of a token, as Market emits them.
OnSale(t) == orders[t] # <<>> /\ orders[t][Len(orders[t])].left

Tell(method, t, left) ==
  /\ Happens(method, t) /\ Len(orders[t]) < MaxSales
  /\ orders' = [orders EXCEPT ![t] = Append(@,
       [method |-> method, token |-> t, block |-> 0, left |-> left, parents |-> {}])]

Sell(t) ==
  /\ \/ owner[t] \in Accounts /\ orders[t] = <<>> /\ Tell("TokenIsUpForSale", t, TRUE)
     \/ owner[t] \in Accounts /\ OnSale(t) /\ Tell("TokenPriceChanged", t, TRUE)
     \/ owner[t] \in Accounts /\ OnSale(t) /\ Tell("TokenRevoke", t, TRUE)
     \/ OnSale(t) /\ Tell("TokenRevoke", t, FALSE)  \* an administrator may, of a burnt token too
  /\ UNCHANGED <<owner, chain, happening, heard, delivered, up, calls, rows, queue, history, incidents>>

Purchase(t, o, left) ==
  /\ owner[t] \in Accounts /\ o \in Accounts /\ OnSale(t)
  /\ Tell("TokenIsPurchased", t, left)
  /\ owner' = [owner EXCEPT ![t] = o] /\ Emit("Transfer", t, owner[t], o)

Chain ==
  \/ \E t \in Tokens : Burn(t) \/ Sell(t)
  \/ \E t \in Tokens, o \in Owners : Mint(t, o) \/ Transfer(t, o) \/ Approve(t, o)
  \/ \E t \in Tokens, o \in Accounts, left \in BOOLEAN : Purchase(t, o, left)
  \/ OtherEvent

-----------------------------------------------------------------------------
(* Calls of the handlers.                                                  *)

IdleCallback == [queue |-> <<>>, at |-> "save_block", walks |-> {}, found |-> {}]
Free(c) == up /\ callback[c].queue = <<>>
At(c, step) == up /\ callback[c].queue # <<>> /\ callback[c].at = step
Current(c) == Head(callback[c].queue)

Goto(c, step) == callback' = [callback EXCEPT ![c].at = step]
\* The mutant forgets to start the next event from the beginning.
MutEndOf(task) == [task EXCEPT !.queue = Tail(task.queue)]
EndOf(task) == [IdleCallback EXCEPT !.queue = Tail(task.queue)]
Advance(c) == callback' = [callback EXCEPT ![c] = EndOf(@)]

\* The collection has a row.
Known == onMarket # <<>>

\* A batch starts a call, whether or not one is under way already.
Deliver(c, n) ==
  /\ Free(c) /\ n > 0 /\ delivered + n <= Len(chain)
  /\ delivered' = delivered + n
  /\ callback' = [callback EXCEPT ![c].queue = SubSeq(chain, delivered + 1, delivered + n)]
  /\ UNCHANGED <<external, heard, up, background, rows, queue, history, incidents>>

\* So does an event of the contract, after those of its order before it.
HearSale(t) ==
  /\ Free(t) /\ heard[t] < Len(orders[t])
  /\ heard' = [heard EXCEPT ![t] = @ + 1]
  /\ callback' = [callback EXCEPT
       ![t].queue = <<orders[t][heard[t] + 1]>>, ![t].at = "find_order"]
  /\ UNCHANGED <<external, delivered, up, background, rows, queue, history, incidents>>

\* saveBlockId overwrites the setting.  Token id 0 makes an event one of the
\* collection, and of those none leads to a write: deleteCollectionOffers only
\* comes to runContractCheckApproved, which does nothing yet.
SaveBlock(c) ==
  /\ At(c, "save_block")
  /\ block' = Current(c).block
  /\ IF Current(c).token = None THEN Advance(c) ELSE Goto(c, "observe")
  /\ UNCHANGED <<outside, background, tokens, index, offers, onMarket, queue, history, incidents>>

\* What is left when observer has returned: of the events of a token only
\* ItemDestroyed writes, runCheckApproved does nothing yet.
\* The mutant returns for every event.
MutAfterObserver(task) == EndOf(task)
AfterObserver(task) ==
  IF Head(task.queue).method = "ItemDestroyed"
  THEN [task EXCEPT !.at = "find_offer", !.walks = {}, !.found = {}] ELSE EndOf(task)

IsSale(e) == e.method \in Sales

\* observer looks for the collection, without which it ignores the token, and
\* then takes getTokenSchema: what the chain says now, whatever the event tells.
\* A collection's row stays, so that the two reads are as one.
Observe(c) ==
  LET e == Current(c)
  IN /\ At(c, "observe")
     /\ callback' = [callback EXCEPT ![c] =
          CASE ~Known -> AfterObserver(@)
            [] Known /\ Live(e.token) /\ e.method # "ItemDestroyed" ->
                 [@ EXCEPT !.at = "walk", !.walks = e.parents]
            [] OTHER -> [@ EXCEPT !.at = "find_rows"]]
     /\ missed' = IF Known \/ IsSale(e) THEN missed ELSE missed \cup JobsOf({e.token})
     /\ UNCHANGED <<outside, background, rows, queue, overlooked, reset, incidents>>

\* cleanTokenAndProperties: both finds, then a deletion for each that found a row.
FindRows(c) ==
  LET t == Current(c).token
      found == {table \in {"properties", "tokens"} :
                  IF table = "tokens" THEN tokens[t] # NoRow ELSE t \in index}
  IN /\ At(c, "find_rows")
     /\ callback' = [callback EXCEPT ![c] =
          IF found = {} THEN AfterObserver(@)
          ELSE [@ EXCEPT !.at = IF "properties" \in found THEN "delete_properties" ELSE "delete_token",
                         !.found = IF "tokens" \in found THEN {t} ELSE {}]]
     /\ UNCHANGED <<outside, background, rows, queue, history, incidents>>

DeleteProperties(c) ==
  /\ At(c, "delete_properties")
  /\ index' = index \ {Current(c).token}
  /\ callback' = [callback EXCEPT ![c] =
       IF @.found = {} THEN AfterObserver(@) ELSE [@ EXCEPT !.at = "delete_token"]]
  /\ UNCHANGED <<outside, background, block, tokens, offers, onMarket, queue, history, incidents>>

\* tokensOnMarket keeps counting it.
DeleteToken(c) ==
  /\ At(c, "delete_token")
  /\ tokens' = [tokens EXCEPT ![Current(c).token] = NoRow]
  /\ callback' = [callback EXCEPT ![c] = AfterObserver(@)]
  /\ UNCHANGED <<outside, background, block, index, offers, onMarket, queue, history, incidents>>

\* findAllParents: one token up, as far as the rows tell.  The mutant does not
\* leave the token it has looked at.
MutClimb(walks, u) == walks \cup Nested({tokens[u]})
Climb(walks, u) == (walks \ {u}) \cup Nested({tokens[u]})

FindParent(c) ==
  /\ At(c, "walk")
  /\ \E u \in callback[c].walks :
       callback' = [callback EXCEPT
         ![c].walks = Climb(@, u), ![c].found = @ \cup {u}]
  /\ UNCHANGED <<outside, background, rows, queue, history, incidents>>

\* The mutant asks for the parents only.
MutToUpdate(c) == callback[c].found
ToUpdate(c) == callback[c].found \cup {Current(c).token}

\* Jobs for all that the walk has found and for the token.
EndWalk(c) ==
  /\ At(c, "walk") /\ callback[c].walks = {}
  /\ requests' = requests \cup (ToUpdate(c) \X {"collectTokens"})
  /\ Advance(c)
  /\ UNCHANGED <<outside, adding, running, collecting, rows, queue, history, incidents>>

FindOffer(c) ==
  /\ At(c, "find_offer")
  /\ IF offers[Current(c).token] = "open" THEN Goto(c, "delete_offer") ELSE Advance(c)
  /\ UNCHANGED <<outside, background, rows, queue, history, incidents>>

DeleteOffer(c) ==
  /\ At(c, "delete_offer")
  /\ offers' = [offers EXCEPT ![Current(c).token] = "none"]
  /\ Advance(c)
  /\ UNCHANGED <<outside, background, block, tokens, index, onMarket, queue, history, incidents>>

-----------------------------------------------------------------------------
(* Calls for an event of the contract.                                     *)

IdleAdding == [at |-> "idle", left |-> {}]

\* addNewCollection looks for the row first: without force a collection that is
\* known is left alone.
Entered(force) == IF Known /\ ~force THEN "idle" ELSE "read"

\* offerService.update looks for the row of the order.  One that is over is not
\* inserted any more.
FindOrder(t) ==
  /\ At(t, "find_order")
  /\ IF offers[t] = "none" /\ ~Current(t).left THEN Advance(t) ELSE Goto(t, "save_order")
  /\ UNCHANGED <<outside, background, rows, queue, history, incidents>>

AfterOrder(e) == IF e.method = "TokenPriceChanged" THEN EndOf(callback[e.token])
                 ELSE [callback[e.token] EXCEPT !.at = "record"]

SetOffer(t, e) ==
  /\ offers' = [offers EXCEPT ![t] = IF e.left THEN "open" ELSE "over"]
  /\ overlooked' = IF e.left /\ offers[t] # "open" /\ ~Live(t)
                   THEN overlooked \cup {t} ELSE overlooked
  /\ callback' = [callback EXCEPT ![t] = AfterOrder(e)]

\* It saves the row: one that has been deleted since is inserted again.  Into the
\* insertion OffersSubscriber puts a call of addNewCollection.
SaveOrder(t) ==
  /\ At(t, "save_order")
  /\ \/ offers[t] # "none" /\ SetOffer(t, Current(t)) /\ UNCHANGED adding
     \/ /\ offers[t] = "none" /\ adding' = [adding EXCEPT ![t].at = Entered(FALSE)]
        /\ Goto(t, "add_collection") /\ UNCHANGED <<offers, overlooked>>
  /\ UNCHANGED <<outside, requests, running, collecting,
                 block, tokens, index, onMarket, queue, missed, reset, incidents>>

\* afterInsert is awaited within save's transaction: nobody else finds the row
\* before it is committed.
CommitOrder(t) ==
  /\ At(t, "add_collection") /\ adding[t].at = "idle" /\ SetOffer(t, Current(t))
  /\ UNCHANGED <<outside, background, block, tokens, index, onMarket,
                 queue, missed, reset, incidents>>

Observed(e) == e.method \in {"TokenIsUpForSale", "TokenIsPurchased"}

\* The event is looked for in offer_events and, unless it is found, inserted; then
\* observer is called, without an event.  None of it touches the tables told here.
RecordSale(t) ==
  /\ At(t, "record")
  /\ \/ Advance(t)
     \/ Observed(Current(t)) /\ Goto(t, "observe")
  /\ UNCHANGED <<outside, background, rows, queue, history, incidents>>

Handle(c) ==
  \/ SaveBlock(c) \/ Observe(c) \/ FindRows(c) \/ DeleteProperties(c) \/ DeleteToken(c)
  \/ FindParent(c) \/ EndWalk(c) \/ FindOffer(c) \/ DeleteOffer(c)

HandleSale(t) == FindOrder(t) \/ SaveOrder(t) \/ CommitOrder(t) \/ RecordSale(t)

Receive == \E c \in Callbacks, n \in 1 .. MaxEvents : Deliver(c, n)
Hear == \E t \in Tokens : HearSale(t)

\* An await throws: the error is logged and the call takes its next event.
\* addNewCollection itself does not throw.
Fail(c) ==
  LET t == Current(c).token
  IN /\ up /\ callback[c].queue # <<>> /\ incidents < MaxIncidents
     /\ callback[c].at = "add_collection" => adding[c].at = "idle"
     /\ incidents' = incidents + 1
     /\ missed' = IF callback[c].at \in {"find_offer", "delete_offer"} \/ t = None \/ IsSale(Current(c))
                  THEN missed ELSE missed \cup JobsOf({t})
     /\ overlooked' = IF Current(c).method = "ItemDestroyed" THEN overlooked \cup {t} ELSE overlooked
     /\ Advance(c)
     /\ UNCHANGED <<outside, background, rows, queue, reset>>

-----------------------------------------------------------------------------
(* Jobs.  GraphileService.addToken adds a job of each kind, each under a   *)
(* key that replaces the one that waits already; the queue of a token runs *)
(* one job at a time, and a job that fails is run again.                   *)

IdleJob == [kind |-> "none", at |-> "idle", owner |-> NoRow]

Second(kind) == IF kind = "collectTokens" THEN {"collectProperties"} ELSE {}

AddJob(r) ==
  /\ up /\ r \in requests
  /\ jobs' = jobs \cup {r}
  /\ requests' = (requests \ {r}) \cup ({r[1]} \X Second(r[2]))
  /\ missed' = missed \ {r}
  /\ UNCHANGED <<outside, callback, adding, running, collecting,
                 rows, toCollect, overlooked, reset, incidents>>

\* A job is taken with its first step.
Take(t, kind) ==
  /\ running[t] = IdleJob /\ <<t, kind>> \in jobs
  /\ jobs' = jobs \ {<<t, kind>>}

Doing(t, kind, step) == running[t].kind = kind /\ running[t].at = step /\ UNCHANGED jobs
JobAt(t, step) == running' = [running EXCEPT ![t].at = step]
EndJob(t) == running' = [running EXCEPT ![t] = IdleJob]

\* getTokenSchema, which gives nothing for a token that is not found; prepareTokenData
\* takes the owner from it.
TokenSchema(t) == IF Live(t) THEN owner[t] ELSE NoRow
ReadOwner(t) ==
  /\ Take(t, "collectTokens")
  /\ running' = [running EXCEPT ![t] =
       [kind |-> "collectTokens", at |-> IF TokenSchema(t) = NoRow THEN "find_gone" ELSE "find",
        owner |-> TokenSchema(t)]]
  /\ UNCHANGED <<rows, reset>>

\* upsertTokens: find, count if there is no row, write.
FindRow(t) ==
  /\ Doing(t, "collectTokens", "find")
  /\ JobAt(t, IF tokens[t] = NoRow THEN "increment" ELSE "upsert")
  /\ UNCHANGED <<rows, reset>>

\* In every row of the collection.  The mutant forgets to count.
MutCounted(n) == onMarket
Counted(n) == [k \in DOMAIN onMarket |-> onMarket[k] + n]

Increment(t) ==
  /\ Doing(t, "collectTokens", "increment")
  /\ onMarket' = Counted(1)
  /\ JobAt(t, "upsert")
  /\ UNCHANGED <<block, tokens, index, offers, reset>>

Upsert(t) ==
  /\ Doing(t, "collectTokens", "upsert")
  /\ tokens' = [tokens EXCEPT ![t] = running[t].owner]
  /\ EndJob(t)
  /\ UNCHANGED <<block, index, offers, onMarket, reset>>

\* deleteToken: find, delete, count.
FindGone(t) ==
  /\ Doing(t, "collectTokens", "find_gone")
  /\ IF tokens[t] = NoRow THEN EndJob(t) ELSE JobAt(t, "delete")
  /\ UNCHANGED <<rows, reset>>

DeleteRow(t) ==
  /\ Doing(t, "collectTokens", "delete")
  /\ tokens' = [tokens EXCEPT ![t] = NoRow]
  /\ JobAt(t, "decrement")
  /\ UNCHANGED <<block, index, offers, onMarket, reset>>

Decrement(t) ==
  /\ Doing(t, "collectTokens", "decrement")
  /\ onMarket' = Counted(-1)
  /\ EndJob(t)
  /\ UNCHANGED <<block, tokens, index, offers, reset>>

\* addSearchIndexIfNotExists: the old rows go before the token is read.
DeleteIndex(t) ==
  /\ Take(t, "collectProperties")
  /\ index' = index \ {t}
  /\ running' = [running EXCEPT ![t].kind = "collectProperties", ![t].at = "read"]
  /\ UNCHANGED <<block, tokens, offers, onMarket, reset>>

ReadProperties(t) ==
  /\ Doing(t, "collectProperties", "read")
  /\ IF Live(t) THEN JobAt(t, "save") ELSE EndJob(t)
  /\ UNCHANGED <<rows, reset>>

SaveProperties(t) ==
  /\ Doing(t, "collectProperties", "save")
  /\ index' = index \cup {t}
  /\ EndJob(t)
  /\ UNCHANGED <<block, tokens, offers, onMarket, reset>>

RunJob(t) ==
  /\ up
  /\ \/ ReadOwner(t) \/ FindRow(t) \/ Increment(t) \/ Upsert(t)
     \/ FindGone(t) \/ DeleteRow(t) \/ Decrement(t)
     \/ DeleteIndex(t) \/ ReadProperties(t) \/ SaveProperties(t)
  /\ UNCHANGED <<outside, callback, requests, adding, collecting,
                 toCollect, missed, overlooked, incidents>>

FailJob(t) ==
  /\ up /\ running[t].at # "idle" /\ incidents < MaxIncidents
  /\ incidents' = incidents + 1
  /\ jobs' = jobs \cup {<<t, running[t].kind>>}
  /\ EndJob(t)
  /\ UNCHANGED <<outside, callback, requests, adding, collecting,
                 rows, toCollect, history>>

-----------------------------------------------------------------------------
(* A collection is added.                                                  *)

Idle == -1
NoKey == 0
AtWork == {w \in Workers : collecting[w] # Idle}

\* An administrator does, by a notification: nobody hears it when the worker is
\* down.
AddCollection(c, force) ==
  /\ Happens("new-collection-added", None)
  /\ up /\ adding[c].at = "idle" /\ incidents < MaxIncidents
  /\ incidents' = incidents + 1
  /\ adding' = [adding EXCEPT ![c].at = Entered(force)]
  /\ UNCHANGED <<outside, callback, requests, running, collecting, rows, queue, history>>

\* The collection and the list of its tokens: getTokensCollection.
ListOfTokens == {t \in Tokens : Live(t)}
ReadTokens(c) ==
  /\ up /\ adding[c].at = "read"
  /\ adding' = [adding EXCEPT ![c] = [at |-> "collection", left |-> ListOfTokens \X Kinds]]
  /\ UNCHANGED queue

AddCollectionJob(c) ==
  /\ up /\ adding[c].at = "collection"
  /\ toCollect' = toCollect + 1
  /\ adding' = [adding EXCEPT ![c] = IF @.left = {} THEN IdleAdding ELSE [@ EXCEPT !.at = "tokens"]]
  /\ UNCHANGED jobs

\* Token after token, as the list is sorted.
AddTokenJob(c, j) ==
  /\ up /\ adding[c].at = "tokens" /\ j \in adding[c].left
  /\ \A i \in adding[c].left : j[1] < i[1] \/ (j[1] = i[1] /\ i[2] \in {j[2]} \cup Second(j[2]))
  /\ jobs' = jobs \cup {j}
  /\ adding' = IF adding[c].left = {j} THEN [adding EXCEPT ![c] = IdleAdding]
               ELSE [adding EXCEPT ![c].left = @ \ {j}]
  /\ UNCHANGED toCollect

StepOfAdding(c) ==
  /\ \/ (ReadTokens(c) \/ AddCollectionJob(c)) /\ UNCHANGED missed
     \/ \E j \in Tokens \X Kinds :
          AddTokenJob(c, j) /\ missed' = missed \ {j}
  /\ UNCHANGED <<outside, callback, requests, running, collecting,
                 rows, overlooked, reset, incidents>>

\* The error is logged; the jobs that were not added are not.
FailAdding(c) ==
  /\ up /\ adding[c].at # "idle" /\ incidents < MaxIncidents
  /\ incidents' = incidents + 1 /\ adding' = [adding EXCEPT ![c] = IdleAdding]
  /\ UNCHANGED <<outside, callback, requests, running, collecting,
                 rows, queue, history>>

\* The jobs have no key and no queue: graphile-worker runs them side by side.
\* findOne gives any of the rows.
FindRowOfCollection(w) ==
  /\ up /\ collecting[w] = Idle /\ toCollect > 0
  /\ toCollect' = toCollect - 1
  /\ \E k \in IF Known THEN DOMAIN onMarket ELSE {NoKey} :
       collecting' = [collecting EXCEPT ![w] = k]
  /\ UNCHANGED <<rows, reset>>

\* Tokens that have been counted, or are about to be taken off: those tokensOnMarket
\* does not tell when it is written as 0.
CountedTokens ==
  {t \in Tokens : tokens[t] # NoRow \/ running[t].at \in {"upsert", "delete", "decrement"}}

\* Both write tokensOnMarket: 0, into the row that was found or into another one.
WriteCollection(w) ==
  LET key == IF collecting[w] = NoKey THEN Len(onMarket) + 1 ELSE collecting[w]
  IN /\ up /\ collecting[w] # Idle
     /\ onMarket' = IF collecting[w] = NoKey THEN Append(onMarket, 0)
                    ELSE [onMarket EXCEPT ![key] = 0]
     /\ reset' = IF CountedTokens = {} THEN reset ELSE reset \cup {key}
     /\ collecting' = [collecting EXCEPT ![w] = Idle]
     /\ UNCHANGED <<block, tokens, index, offers, toCollect>>

Collect(w) ==
  /\ FindRowOfCollection(w) \/ WriteCollection(w)
  /\ UNCHANGED <<outside, callback, requests, adding, running,
                 jobs, missed, overlooked, incidents>>

\* The job logs an error of its own and is over.
FailCollecting(w) ==
  /\ up /\ collecting[w] # Idle /\ incidents < MaxIncidents
  /\ incidents' = incidents + 1 /\ collecting' = [collecting EXCEPT ![w] = Idle]
  /\ UNCHANGED <<outside, callback, requests, adding, running, rows, queue, history>>

\* The REST app counts the open offers into the same column of every row whenever
\* somebody looks at the collection.  Its queries are one step here: of the column
\* nothing is said afterwards.
UpdateTokensOneMarket ==
  /\ Happens("getOneColection", None)
  /\ Known /\ incidents < MaxIncidents
  /\ incidents' = incidents + 1
  /\ onMarket' = [k \in DOMAIN onMarket |-> Cardinality({t \in Tokens : offers[t] = "open"})]
  /\ reset' = reset \cup DOMAIN onMarket
  /\ UNCHANGED <<outside, calls, block, tokens, index, offers, queue, missed, overlooked>>

-----------------------------------------------------------------------------
(* The worker dies and starts again.                                       *)

\* getSubscribeCollectionBlock() || 1
FromBlock == IF block = 0 THEN 1 ELSE block

Events(c) == {callback[c].queue[i] : i \in 1 .. Len(callback[c].queue)}
Lost == {e \in UNION {Events(c) : c \in Callbacks} : e.block < FromBlock}

\* What the contract's subscription hands over again: the event in progress, and
\* whatever is of its block.
Replayed(some) ==
  \A t \in Tokens : some[t] <= (IF callback[t].queue = <<>> THEN heard[t] ELSE heard[t] - 1)

\* The jobs stay in the table; whatever was only in memory is gone.
Crash ==
  /\ up /\ incidents < MaxIncidents
  /\ incidents' = incidents + 1 /\ up' = FALSE
  /\ callback' = [c \in Calls |-> IdleCallback]
  /\ requests' = {} /\ adding' = [c \in Calls |-> IdleAdding]
  /\ running' = [t \in Tokens |-> IdleJob] /\ collecting' = [w \in Workers |-> Idle]
  /\ jobs' = jobs \cup {<<t, running[t].kind>> : t \in {u \in Tokens : running[u].at # "idle"}}
  /\ toCollect' = toCollect + Cardinality(AtWork)
  /\ missed' = missed \cup requests \cup (UNION {{r[1]} \X Second(r[2]) : r \in requests})
                    \cup JobsOf({e.token : e \in Lost} \ {None})
  /\ overlooked' = overlooked \cup {e.token : e \in {d \in Lost : d.method = "ItemDestroyed"}}
  /\ \E some \in [Tokens -> 0 .. MaxSales] : Replayed(some) /\ heard' = some
  /\ UNCHANGED <<external, delivered, rows, reset>>

\* initCollectionSubscriptions: the indexer starts again at that block.
Restart ==
  /\ ~up /\ up' = TRUE
  /\ \E d \in 0 .. Len(chain) :
       /\ \A i \in 1 .. Len(chain) : i <= d <=> chain[i].block < FromBlock
       /\ delivered' = d
  /\ UNCHANGED <<external, heard, calls, rows, queue, history, incidents>>

\* The collection is in the database, with its tokens, or it is not.
Init ==
  /\ owner \in AtStart /\ chain = <<>> /\ happening \in Happening
  /\ orders = [t \in Tokens |-> <<>>] /\ heard = [t \in Tokens |-> 0]
  /\ delivered = 0 /\ up = TRUE
  /\ callback = [c \in Calls |-> IdleCallback]
  /\ requests = {} /\ adding = [c \in Calls |-> IdleAdding]
  /\ running = [t \in Tokens |-> IdleJob] /\ collecting = [w \in Workers |-> Idle]
  /\ jobs = {} /\ toCollect = 0
  /\ block = 0 /\ offers = [t \in Tokens |-> "none"] /\ overlooked = {} /\ reset = {}
  /\ \E known \in BOOLEAN :
       /\ index = IF known THEN {t \in Tokens : Live(t)} ELSE {}
       /\ onMarket = IF known THEN <<Cardinality(index)>> ELSE <<>>
  /\ missed = JobsOf({t \in Tokens : Live(t)} \ index)
  /\ tokens = [t \in Tokens |-> IF t \in index THEN owner[t] ELSE NoRow]
  /\ incidents = 0

Next ==
  \/ Chain \/ Receive \/ Hear
  \/ \E c \in Calls : Handle(c) \/ Fail(c) \/ StepOfAdding(c) \/ FailAdding(c)
  \/ \E t \in Tokens : HandleSale(t)
  \/ \E r \in Tokens \X Kinds : AddJob(r)
  \/ \E t \in Tokens : RunJob(t) \/ FailJob(t)
  \/ \E c \in Callbacks, force \in BOOLEAN : AddCollection(c, force)
  \/ \E w \in Workers : Collect(w) \/ FailCollecting(w)
  \/ UpdateTokensOneMarket \/ Crash \/ Restart

Spec == Init /\ [][Next]_vars

\* The event loop, the indexer and graphile-worker do not stop, and a worker that
\* died is started again.
Fairness ==
  /\ WF_vars(Receive) /\ WF_vars(Hear) /\ WF_vars(Restart)
  /\ \A c \in Calls : WF_vars(Handle(c)) /\ WF_vars(StepOfAdding(c))
  /\ WF_vars(\E r \in Tokens \X Kinds : AddJob(r))
  /\ \A t \in Tokens : WF_vars(HandleSale(t)) /\ WF_vars(RunJob(t))
  /\ \A w \in Workers : WF_vars(Collect(w))

FairSpec == Spec /\ Fairness

-----------------------------------------------------------------------------
(* Properties.                                                             *)

\* Types.
TypeOK ==
  /\ owner \in [Tokens -> Owners \cup {Unminted, Burnt}] /\ chain \in Seq(Event)
  /\ orders \in [Tokens -> Seq(Event)]
  /\ \A t \in Tokens : heard[t] \in 0 .. Len(orders[t])
  /\ delivered \in 0 .. Len(chain) /\ up \in BOOLEAN
  /\ \A c \in Calls :
       /\ callback[c].queue \in Seq(Event)
       /\ callback[c].queue = <<>> => callback[c] = IdleCallback
       /\ callback[c].walks \cup callback[c].found \subseteq Tokens
       /\ adding[c].left \subseteq Job
  /\ requests \subseteq Job /\ jobs \subseteq Job
  /\ \A t \in Tokens : running[t].owner \in Owners \cup {NoRow}
  /\ toCollect \in Nat /\ \A w \in Workers : collecting[w] \in {Idle, NoKey} \cup DOMAIN onMarket
  /\ block \in 0 .. MaxBlock /\ tokens \in [Tokens -> Owners \cup {NoRow}]
  /\ index \cup overlooked \subseteq Tokens /\ missed \subseteq Job
  /\ offers \in [Tokens -> {"none", "open", "over"}]
  /\ onMarket \in Seq(Int) /\ reset \subseteq DOMAIN onMarket

\* Of the collection's events none is left to handle.
Handled == delivered = Len(chain) /\ \A c \in Callbacks : callback[c].queue = <<>>

\* Nothing is under way in the worker and nothing waits for it.
Quiet ==
  /\ up /\ Handled
  /\ \A c \in Calls : callback[c].queue = <<>> /\ adding[c] = IdleAdding
  /\ requests = {} /\ jobs = {} /\ toCollect = 0
  /\ AtWork = {} /\ \A t \in Tokens : running[t] = IdleJob

UpToDate(t) ==
  Live(t) => /\ tokens[t] = owner[t] \/ <<t, "collectTokens">> \in missed
             /\ t \in index \/ <<t, "collectProperties">> \in missed

\* Whatever the order the events, the jobs and the adding of the collection ran
\* in, and with jobs that failed and were run again: once the worker is quiet the
\* row of a token tells its owner and its properties can be searched, unless the
\* change was dropped.
LiveTokensAreIndexed == Quiet => \A t \in Tokens : UpToDate(t)

\* As the worker counts, tokensOnMarket of a row of the collection may include
\* tokens that have gone and never leaves one out, however many jobs save the
\* collection at once: unless the row was inserted when tokens were there already,
\* or was put back to 0, or the REST app has put its own count there.
CountCoversTheRows ==
  \A k \in DOMAIN onMarket \ reset :
    onMarket[k] >= Cardinality({t \in Tokens : tokens[t] # NoRow})

\* An offer does not outlive its token, whatever the contract's event under way does
\* to its row meanwhile, unless the row was opened after the burning or the event of
\* the burning was dropped.
BurntOffersGo ==
  up /\ Handled => \A t \in Tokens \ overlooked : offers[t] = "open" => Live(t)

\* With events to come no more, the live tokens come to be indexed.
EventuallyIndexed == <>[](\A t \in Tokens : UpToDate(t))

\* The observer brings the database up to date: every batch comes to its end.
EveryBatchEnds == <>[]Handled
=============================================================================
