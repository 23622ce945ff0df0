--------------------------- MODULE ContractEvents ---------------------------
(***************************************************************************)
(* How the escrow worker mirrors the marketplace contract's events into    *)
(* the offers and offer_events tables: IndexerSubscriptionsService and     *)
(* ContractEventsHandler of packages/escrow/src/app/contract-events, with  *)
(* the OfferService, OfferEventService and ContractService they call.      *)
(*                                                                         *)
(* A batch of events from the indexer starts a callback that nothing waits *)
(* for.  A callback handles its events one after another; each step is     *)
(* what it does between two awaits, so callbacks, the chain and crashes    *)
(* interleave between any two of them.  The chain and the indexer are      *)
(* external: an order's events are those of Market, in Market's order.     *)
(***************************************************************************)
EXTENDS Integers, Sequences, FiniteSets

CONSTANTS
  Orders,      \* order ids, which the contract gives out in order
  Prices, Buyers, Seller, MaxAmount,  \* what the orders are about
  Callbacks,   \* calls of handleContractEvents that can be under way at once
  MaxEvents, MaxBlock, MaxCrashes, MaxFailures   \* bounds

ASSUME EventInputs ==
  /\ Orders \subseteq Nat /\ Seller \notin Buyers
  /\ MaxAmount \in Nat \ {0} /\ MaxEvents \in Nat /\ MaxBlock \in Nat \ {0}
  /\ MaxCrashes \in Nat /\ MaxFailures \in Nat

VARIABLES
  chain,        \* external: the contract's events so far
  delivered,    \* external: how many of them this subscription has handed over
  up,           \* the worker runs and is subscribed
  callback,     \* callback[c]: the events it has left and where it is in the first
  processedAt,  \* contract.processed_at
  offers,       \* rows of offers, in the order they were inserted
  trades,       \* rows of offer_events
  refreshed,    \* orders whose token was handed to tokensService.observer
  dropped,      \* history: events that a failed await kept from the tables
  crashes, failures

external == <<chain, delivered>>
tables == <<processedAt, offers, trades, refreshed>>
bounds == <<dropped, crashes, failures>>
vars == <<external, up, callback, tables, bounds>>

Names == {"TokenIsUpForSale", "TokenPriceChanged", "TokenIsApproved",
          "TokenRevoke", "TokenIsPurchased"}
\* left is item.amount, what the event leaves on sale; n the fractions it moves.
\* of: history: which event of the chain a row was made of.
Event == [block : 1 .. MaxBlock, name : Names, order : Orders, price : Prices,
          left : 0 .. MaxAmount, n : 0 .. MaxAmount, address : Buyers \cup {Seller}]
Offer == [order : Orders, price : Prices, amount : 0 .. MaxAmount,
          status : {"Opened", "Canceled", "Completed"}]
Trade == [of : Nat \ {0}, offer : Nat \ {0}, type : {"Open", "Revoke", "Cancel", "Buy"},
          block : 1 .. MaxBlock, address : Buyers \cup {Seller}, amount : 0 .. MaxAmount]
\* A call's offer and contract: the row it has in hand, and processed_at as it has read it.
Steps == {"save_block", "find_offer", "save_offer", "find_event", "create_event", "observe"}
Idle == [queue |-> <<>>, at |-> "save_block", offer |-> 0, contract |-> 0]

-----------------------------------------------------------------------------
(* The contract on the chain.                                              *)

EventsOf(o) == {i \in 1 .. Len(chain) : chain[i].order = o}
IsLast(i) == \A j \in EventsOf(chain[i].order) : j <= i

HeadBlock == IF chain = <<>> THEN 1 ELSE chain[Len(chain)].block

Emit(e) ==
  /\ Len(chain) < MaxEvents
  /\ e.block \in HeadBlock .. HeadBlock + 1 /\ e.block <= MaxBlock
  /\ chain' = Append(chain, e)
  /\ UNCHANGED <<delivered, up, callback, tables, bounds>>

List(o, b, p, n) ==
  /\ EventsOf(o) = {} /\ \A lower \in Orders : lower < o => EventsOf(lower) # {}
  /\ Emit([block |-> b, name |-> "TokenIsUpForSale", order |-> o, price |-> p,
           left |-> n, n |-> n, address |-> Seller])

\* i: the last event of an order that is on sale.
ChangePrice(i, b, p) ==
  Emit([chain[i] EXCEPT !.block = b, !.name = "TokenPriceChanged", !.price = p, !.n = 0,
                        !.address = Seller])
CheckApproved(i, b) ==
  Emit([chain[i] EXCEPT !.block = b, !.name = "TokenIsApproved", !.n = 0, !.address = Seller])
Revoke(i, b, n) ==
  Emit([chain[i] EXCEPT !.block = b, !.name = "TokenRevoke", !.left = @ - n, !.n = n,
                        !.address = Seller])
Buy(i, b, n, buyer) ==
  Emit([chain[i] EXCEPT !.block = b, !.name = "TokenIsPurchased", !.left = @ - n, !.n = n,
                        !.address = buyer])

Contract ==
  \E b \in 1 .. MaxBlock :
    \/ \E o \in Orders, p \in Prices, n \in 1 .. MaxAmount : List(o, b, p, n)
    \/ \E i \in 1 .. Len(chain) :
         /\ IsLast(i) /\ chain[i].left > 0
         /\ \/ \E p \in Prices : ChangePrice(i, b, p)
            \/ CheckApproved(i, b)
            \/ \E n \in 1 .. chain[i].left : Revoke(i, b, n)
            \/ \E n \in 1 .. chain[i].left, buyer \in Buyers : Buy(i, b, n, buyer)

-----------------------------------------------------------------------------
(* What the handlers make of an event.                                     *)

Ends(e) == e.left = 0

\* The mutant takes every purchase for the last one.
MutStatusOf(e) ==
  IF e.name = "TokenIsPurchased" THEN "Completed"
  ELSE IF e.name = "TokenRevoke" /\ Ends(e) THEN "Canceled" ELSE "Opened"
StatusOf(e) ==
  IF e.name = "TokenIsPurchased" /\ Ends(e) THEN "Completed"
  ELSE IF e.name = "TokenRevoke" /\ Ends(e) THEN "Canceled" ELSE "Opened"

Row(e) == [order |-> e.order, price |-> e.price, amount |-> e.left, status |-> StatusOf(e)]

Recorded(e) == e.name \in {"TokenIsUpForSale", "TokenRevoke", "TokenIsPurchased"}
Observed(e) == e.name \in {"TokenIsUpForSale", "TokenIsPurchased"}

TypeOf(e) ==
  CASE e.name = "TokenIsUpForSale" -> "Open"
    [] e.name = "TokenIsPurchased" -> "Buy"
    [] OTHER -> IF Ends(e) THEN "Cancel" ELSE "Revoke"

TradeOf(key, i) ==
  [of |-> i, offer |-> key, type |-> TypeOf(chain[i]), block |-> chain[i].block,
   address |-> chain[i].address, amount |-> chain[i].n]

\* The mutant never looks for the row of an order.
MutRowsOf(o) == {}
RowsOf(o) == {k \in 1 .. Len(offers) : offers[k].order = o}

\* Of the row itself offerEventService.find compares these columns.
SameTrade(t, u) ==
  t.offer = u.offer /\ t.type = u.type /\ t.block = u.block /\ t.address = u.address

Duplicate(t) == \E k \in 1 .. Len(trades) : SameTrade(trades[k], t)

-----------------------------------------------------------------------------
(* The worker.                                                             *)

\* getFromBlock.  One mutant forgets to pass it, the other goes on after it.
MutFromStart == 0
MutFromNextBlock == processedAt + 1
FromBlock == processedAt

\* The callback goes on with event handling at step s, or with its next event.
Goto(c, s, key) == callback' = [callback EXCEPT ![c].at = s, ![c].offer = key]
MutEndOf(task) == [task EXCEPT !.queue = Tail(@), !.offer = 0, !.contract = 0]
EndOf(task) == [Idle EXCEPT !.queue = Tail(task.queue)]
Advance(c) == callback' = [callback EXCEPT ![c] = EndOf(@)]

At(c, s) == up /\ callback[c].queue # <<>> /\ callback[c].at = s
Number(c) == Head(callback[c].queue)
Current(c) == chain[Number(c)]

\* A batch starts a callback, whether or not one is under way already.
Deliver(c, n) ==
  /\ up /\ callback[c].queue = <<>>
  /\ n > 0 /\ delivered + n <= Len(chain)
  /\ delivered' = delivered + n
  /\ callback' = [callback EXCEPT ![c].queue = [k \in 1 .. n |-> delivered + k]]
  /\ UNCHANGED <<chain, up, tables, bounds>>

\* Before the event is handled, and after the contract's row was read: as processed_at
\* only rises the two awaits are as one.  A lower block leaves the row alone.  Nothing
\* is left to do for a TokenIsApproved.
SaveBlock(c) ==
  /\ At(c, "save_block")
  /\ processedAt' = IF processedAt < Current(c).block THEN Current(c).block ELSE processedAt
  /\ IF Current(c).name = "TokenIsApproved" THEN Advance(c)
     ELSE callback' = [callback EXCEPT ![c] =
            [@ EXCEPT !.at = "find_offer", !.contract = processedAt]]
  /\ UNCHANGED <<external, up, offers, trades, refreshed, bounds>>

\* 0: no row yet.  An order that is over is not inserted any more.
FindOffer(c) ==
  LET rows == RowsOf(Current(c).order)
  IN /\ At(c, "find_offer")
     /\ IF rows = {} /\ Ends(Current(c)) THEN Advance(c)
        ELSE \E key \in IF rows = {} THEN {0} ELSE rows : Goto(c, "save_offer", key)
     /\ UNCHANGED <<external, up, tables, bounds>>

SaveOffer(c) ==
  LET found == callback[c].offer
      key == IF found = 0 THEN Len(offers) + 1 ELSE found
  IN /\ At(c, "save_offer")
     /\ offers' = IF found = 0 THEN Append(offers, Row(Current(c)))
                  ELSE [offers EXCEPT ![found] = Row(Current(c))]
     /\ IF Recorded(Current(c)) THEN Goto(c, "find_event", key) ELSE Advance(c)
     /\ UNCHANGED <<external, up, processedAt, trades, refreshed, bounds>>

\* The condition of offerEventService.find is the whole offer: TypeORM compares every
\* column of the row and of its contract's row with what the call has of them.  And
\* dates to the millisecond with columns of microseconds: what could be found mostly is not.
MayFind(c) ==
  /\ Duplicate(TradeOf(callback[c].offer, Number(c)))
  /\ callback[c].contract = processedAt
  /\ offers[callback[c].offer] = Row(Current(c))

FindEvent(c) ==
  /\ At(c, "find_event")
  /\ \/ MayFind(c) /\ Advance(c)
     \/ Goto(c, "create_event", callback[c].offer)
  /\ UNCHANGED <<external, up, tables, bounds>>

CreateEvent(c) ==
  LET key == callback[c].offer
  IN /\ At(c, "create_event")
     /\ trades' = Append(trades, TradeOf(key, Number(c)))
     /\ IF Observed(Current(c)) THEN Goto(c, "observe", key) ELSE Advance(c)
     /\ UNCHANGED <<external, up, processedAt, offers, refreshed, bounds>>

Observe(c) ==
  /\ At(c, "observe")
  /\ refreshed' = refreshed \cup {Current(c).order}
  /\ Advance(c)
  /\ UNCHANGED <<external, up, processedAt, offers, trades, bounds>>

\* An await throws: the error is logged and the callback takes its next event.
\* The mutant takes the same one again.
MutAfterFailure(task) == [Idle EXCEPT !.queue = task.queue]
AfterFailure(task) == EndOf(task)

Fail(c) ==
  /\ up /\ callback[c].queue # <<>> /\ failures < MaxFailures
  /\ failures' = failures + 1
  /\ dropped' = IF callback[c].at = "observe" THEN dropped ELSE dropped \cup {Number(c)}
  /\ callback' = [callback EXCEPT ![c] = AfterFailure(@)]
  /\ UNCHANGED <<external, up, tables, crashes>>

Crash ==
  /\ up /\ crashes < MaxCrashes
  /\ crashes' = crashes + 1
  /\ up' = FALSE
  /\ callback' = [c \in Callbacks |-> Idle]
  /\ UNCHANGED <<external, tables, dropped, failures>>

\* initContractSubscriptions: the indexer starts again at the block processedAt.
Restart ==
  /\ ~up /\ up' = TRUE
  /\ \E d \in 0 .. Len(chain) :
       /\ \A i \in 1 .. Len(chain) : i <= d <=> chain[i].block < FromBlock
       /\ delivered' = d
  /\ UNCHANGED <<chain, callback, tables, bounds>>

Handle(c) ==
  \/ SaveBlock(c) \/ FindOffer(c) \/ SaveOffer(c)
  \/ FindEvent(c) \/ CreateEvent(c) \/ Observe(c)

Receive == \E c \in Callbacks, n \in 1 .. MaxEvents : Deliver(c, n)

Init ==
  /\ chain = <<>> /\ delivered = 0 /\ up = TRUE
  /\ callback = [c \in Callbacks |-> Idle]
  /\ processedAt = 1     \* the block the contract was deployed in
  /\ offers = <<>> /\ trades = <<>> /\ refreshed = {}
  /\ dropped = {} /\ crashes = 0 /\ failures = 0

Next ==
  \/ Contract \/ Receive
  \/ \E c \in Callbacks : Handle(c) \/ Fail(c)
  \/ Crash \/ Restart

Spec == Init /\ [][Next]_vars

\* The event loop and the indexer do not stop, and a worker that died is
\* started again.
Fairness ==
  /\ \A c \in Callbacks : WF_vars(Handle(c))
  /\ WF_vars(Receive) /\ WF_vars(Restart)

FairSpec == Spec /\ Fairness

-----------------------------------------------------------------------------
(* Properties.                                                             *)

\* Types.  A callback holds an offer only in the middle of an event.
TypeOK ==
  /\ chain \in Seq(Event) /\ delivered \in 0 .. Len(chain) /\ up \in BOOLEAN
  /\ \A c \in Callbacks :
       /\ callback[c].queue \in Seq(1 .. Len(chain)) /\ callback[c].at \in Steps
       /\ callback[c].offer \in 0 .. Len(offers) /\ callback[c].contract \in 0 .. MaxBlock
       /\ callback[c].at \in {"find_event", "create_event", "observe"} =>
            callback[c].offer # 0
       /\ callback[c].at \in {"save_block", "find_offer"} => callback[c].offer = 0
  /\ processedAt \in 1 .. MaxBlock
  /\ offers \in Seq(Offer) /\ trades \in Seq(Trade) /\ refreshed \subseteq Orders
  /\ dropped \subseteq 1 .. Len(chain) /\ crashes \in 0 .. MaxCrashes /\ failures \in 0 .. MaxFailures

\* An offer is open exactly as long as something is left of it.
Shows(row, e) ==
  row.price = e.price /\ row.amount = e.left /\ (row.status = "Opened" <=> e.left > 0)

\* The event is in the tables: in offer_events if it is one recorded there, and
\* the one row of its order shows it, or a later event of that order.  A
\* TokenIsApproved changes nothing.
InOffers(i) ==
  chain[i].name # "TokenIsApproved" =>
  \E k \in RowsOf(chain[i].order) :
    /\ RowsOf(chain[i].order) = {k}
    /\ \E j \in EventsOf(chain[i].order) : j >= i /\ Shows(offers[k], chain[j])
InTrades(i) ==
  Recorded(chain[i]) =>
    \E k \in RowsOf(chain[i].order) : Duplicate(TradeOf(k, i))
Reflected(i) == InOffers(i) /\ InTrades(i)

\* A failed await dropped the event, or the one that would have made the row of
\* its order.
Dropped(i) ==
  \E j \in dropped \cap EventsOf(chain[i].order) : j = i \/ RowsOf(chain[i].order) = {}

Held(i) ==
  \E c \in Callbacks : \E k \in 1 .. Len(callback[c].queue) : callback[c].queue[k] = i

\* A block below the one recorded as processed is done with: a restart does not
\* ask for it again, so its events are all in the tables, or held by a callback,
\* unless an await failed.
NoEventIsLost ==
  \A i \in 1 .. Len(chain) : chain[i].block < processedAt => Reflected(i) \/ Held(i) \/ Dropped(i)

MirrorsContract == \A i \in 1 .. Len(chain) : Reflected(i) \/ Dropped(i)

CaughtUp == up /\ delivered = Len(chain) /\ \A c \in Callbacks : callback[c].queue = <<>>

\* When there is nothing left to handle the tables tell the contract's orders,
\* whatever crash came before, and in the middle of which event: all that a failed
\* await loses is its own event.
CaughtUpMirrors == CaughtUp => MirrorsContract

\* An event is handed to one callback and recorded by it once, whatever fails and
\* whatever other callbacks do: only a restart, which asks for the block in progress
\* again, can give it another row.
RecordedOncePerStart ==
  \A i \in 1 .. Len(chain) : Cardinality({k \in 1 .. Len(trades) : trades[k].of = i}) <= crashes + 1

\* A row that is new or changes takes the state of an event that is not of a block
\* below the one recorded as processed.
NewRowsAreRecent ==
  \A k \in 1 .. Len(offers') :
    k \notin 1 .. Len(offers) \/ offers'[k] # offers[k] =>
      \E i \in 1 .. Len(chain) :
        offers'[k] = Row(chain[i]) /\ chain[i].block >= processedAt

\* A row only ever takes the state of an event of the block in progress or a later
\* one: a replay after a crash does not take an offer further back than that.
RowsFollowTheChain == [][NewRowsAreRecent]_vars

\* Once the contract is quiet and the crashes are over, the tables come to
\* mirror it and do so from then on.
EventuallyMirrors == <>[]MirrorsContract

\* What the lookup in createEventData is for, "Check for duplicate events": an event
\* that is handed over again after a restart has its row already and gets no other.
RecordedOnce ==
  \A j, k \in 1 .. Len(trades) : trades[j].of = trades[k].of => j = k
=============================================================================
