---------------------------- MODULE EventsProofs ----------------------------
(***************************************************************************)
(* Theorems about ContractEvents for all its constants.  TypeOK, and how   *)
(* often an event can be recorded, are proved for any number of callbacks. *)
(* The rest is about the service under load it keeps up with, one callback *)
(* at a time: with two it does not hold, as the run that expects a         *)
(* violation of it shows.                                                  *)
(***************************************************************************)
EXTENDS ContractEvents, FiniteSetTheorems, SequenceTheorems, TLAPS

\* TypeOK says of a callback what its fields hold, this that it has them.
Task == [queue : Seq(Nat), at : Steps, offer : Nat, contract : Nat]
CallbackType == callback \in [Callbacks -> Task]
TypeInv == TypeOK /\ CallbackType

-----------------------------------------------------------------------------
(* The inductive invariant, for the one callback c.                        *)

\* Blocks never fall.  Every event comes after the listing of its order, and one
\* that leaves nothing is a sale or a revocation, and its order's last.
ChainInv ==
  /\ \A i, j \in 1 .. Len(chain) : i <= j => chain[i].block <= chain[j].block
  /\ \A i \in 1 .. Len(chain) : \E f \in 1 .. i :
       chain[f].order = chain[i].order /\ chain[f].name = "TokenIsUpForSale"
  /\ \A i \in 1 .. Len(chain) : Ends(chain[i]) =>
       chain[i].name \in {"TokenIsPurchased", "TokenRevoke"} /\ IsLast(i)

\* How many events the callbacks since the last start have done with.
Done(c) == delivered - Len(callback[c].queue)

\* The queue holds the events after these, in order, and no event left to do is in
\* a block below the one recorded as processed.
ProgressInv(c) ==
  /\ ~up => callback[c].queue = <<>>
  /\ Done(c) >= 0
  /\ \A k \in 1 .. Len(callback[c].queue) : callback[c].queue[k] = Done(c) + k
  /\ \A i \in 1 .. Len(chain) : i > Done(c) => processedAt <= chain[i].block
  /\ processedAt <= HeadBlock

\* No order has two rows.
TablesInv == \A j, k \in 1 .. Len(offers) : offers[j].order = offers[k].order => j = k

\* What the callback found is still true when it goes on.
CallbackInv(c) ==
  LET e == Current(c)
      key == callback[c].offer
  IN IF callback[c].queue = <<>> THEN callback[c].at = "save_block"
     ELSE
     /\ callback[c].at = "save_offer" =>
          IF key = 0 THEN RowsOf(e.order) = {} ELSE key \in RowsOf(e.order)
     /\ callback[c].at \in {"find_event", "create_event", "observe"} =>
          Recorded(e) /\ key \in RowsOf(e.order) /\ offers[key] = Row(e)
     /\ callback[c].at = "observe" => Duplicate(TradeOf(key, Number(c)))

\* The event is in the tables, or an await failed over it, or it ended an order
\* whose earlier events are all that failed, and that has no row.
Settled(i) ==
  \/ Reflected(i)
  \/ i \in dropped
  \/ Ends(chain[i]) /\ RowsOf(chain[i].order) = {} /\ dropped \cap EventsOf(chain[i].order) # {}

\* After a crash this is known of the blocks below processed_at only.
HandledInv(c) ==
  \A i \in 1 .. Len(chain) :
    i <= Done(c) /\ (up \/ chain[i].block < processedAt) => Settled(i)

IndInv(c) ==
  /\ TypeInv /\ ChainInv /\ ProgressInv(c)
  /\ TablesInv /\ CallbackInv(c) /\ HandledInv(c)

-----------------------------------------------------------------------------
(* Types.                                                                  *)

\* What TypeOK says of a callback whose events are among n and whose row is among m.
TaskOK(task, n, m) ==
  /\ task.queue \in Seq(1 .. n) /\ task.at \in Steps /\ task.offer \in 0 .. m
  /\ task.contract \in 0 .. MaxBlock
  /\ task.at \in {"find_event", "create_event", "observe"} => task.offer # 0
  /\ task.at \in {"save_block", "find_offer"} => task.offer = 0

CallbacksOK == CallbackType /\ \A c \in Callbacks : TaskOK(callback[c], Len(chain), Len(offers))

\* What is known of a callback that has an event in hand.
LEMMA CurrentType ==
  ASSUME TypeInv, NEW c \in Callbacks, callback[c].queue # <<>>
  PROVE  /\ Head(callback[c].queue) \in 1 .. Len(chain)
         /\ Current(c) \in Event
         /\ callback[c].offer \in 0 .. Len(offers)
         /\ Number(c) = Head(callback[c].queue) /\ Current(c) = chain[Number(c)]
<1>1. callback[c].queue \in Seq(1 .. Len(chain)) /\ chain \in Seq(Event)
  BY DEF TypeInv, TypeOK
<1>2. Head(callback[c].queue) \in 1 .. Len(chain)
  BY <1>1, HeadTailProperties
<1>3. chain[Head(callback[c].queue)] \in Event
  BY <1>1, <1>2, ElementOfSeq
<1> QED BY <1>2, <1>3 DEF Current, Number, TypeInv, TypeOK

\* The callback c goes on with its event at step s, with the row key in hand.
GoesOn(c, s, key) ==
  /\ CallbackType'
  /\ callback'[c].queue = callback[c].queue
  /\ callback'[c].at = s /\ callback'[c].offer = key /\ callback'[c].contract \in 0 .. MaxBlock
  /\ \A d \in Callbacks \ {c} : callback'[d] = callback[d]

\* What Goto and Advance leave in the callbacks.
LEMMA GotoFields ==
  ASSUME TypeInv, NEW c \in Callbacks, NEW s \in Steps, NEW key \in Nat, Goto(c, s, key)
  PROVE  GoesOn(c, s, key)
<1> DEFINE t == callback[c]
           t1 == [t EXCEPT !.at = s]
           t2 == [t1 EXCEPT !.offer = key]
<1>1. t \in Task /\ t.contract \in 0 .. MaxBlock
  BY DEF TypeInv, TypeOK, CallbackType
<1>2. t2 \in Task /\ t2.queue = t.queue /\ t2.at = s /\ t2.offer = key /\ t2.contract = t.contract
  BY <1>1 DEF Task
<1>3. callback' = [callback EXCEPT ![c] = t2]
  BY DEF Goto, TypeInv, CallbackType
<1> HIDE DEF t2
<1> QED BY <1>1, <1>2, <1>3 DEF GoesOn, TypeInv, CallbackType

LEMMA AdvanceFields ==
  ASSUME CallbackType, NEW c \in Callbacks, callback[c].queue # <<>>, Advance(c)
  PROVE  /\ CallbackType'
         /\ callback'[c].queue = Tail(callback[c].queue)
         /\ callback'[c].at = "save_block" /\ callback'[c].offer = 0 /\ callback'[c].contract = 0
         /\ \A d \in Callbacks \ {c} : callback'[d] = callback[d]
<1>1. Tail(callback[c].queue) \in Seq(Nat)
  BY HeadTailProperties DEF CallbackType, Task
<1>2. callback' = [callback EXCEPT ![c] = EndOf(callback[c])]
  BY DEF Advance
<1>3. EndOf(callback[c]) \in Task
  BY <1>1 DEF EndOf, Idle, Steps, Task
<1>4. callback'[c] = EndOf(callback[c])
  BY <1>2 DEF CallbackType
<1> QED BY <1>2, <1>3, <1>4 DEF EndOf, Idle, CallbackType

\* A callback that goes on with its event stays well typed, and so do the others.
LEMMA GotoType ==
  ASSUME TypeInv, NEW c \in Callbacks, NEW s \in Steps, NEW key \in 0 .. Len(offers'),
         GoesOn(c, s, key), UNCHANGED chain, Len(offers') \in Nat, Len(offers) <= Len(offers'),
         s \in {"find_event", "create_event", "observe"} => key # 0,
         s \in {"save_block", "find_offer"} => key = 0
  PROVE  CallbacksOK'
<1>1. Len(chain) \in Nat /\ Len(offers) \in Nat
  BY LenProperties DEF TypeInv, TypeOK
<1>2. ASSUME NEW d \in Callbacks
      PROVE  /\ callback[d].queue \in Seq(Nat) /\ callback[d].at \in Steps
             /\ TaskOK(callback[d], Len(chain), Len(offers'))
  BY <1>1 DEF TypeInv, TypeOK, CallbackType, Task, TaskOK
<1>3. GoesOn(c, s, key)
  OBVIOUS
<1>4. TaskOK(callback'[c], Len(chain), Len(offers'))
  BY <1>2, <1>3 DEF TaskOK, GoesOn
<1> QED BY <1>2, <1>3, <1>4 DEF CallbacksOK, GoesOn

\* So does one that is done with its event.
LEMMA AdvanceType ==
  ASSUME TypeInv, NEW c \in Callbacks, callback[c].queue # <<>>, Advance(c),
         UNCHANGED chain, Len(offers') \in Nat, Len(offers) <= Len(offers')
  PROVE  CallbacksOK'
<1>1. Len(chain) \in Nat /\ Len(offers) \in Nat
  BY LenProperties DEF TypeInv, TypeOK
<1>2. ASSUME NEW d \in Callbacks
      PROVE  TaskOK(callback[d], Len(chain), Len(offers'))
  BY <1>1 DEF TypeInv, TypeOK, TaskOK
<1>3. Tail(callback[c].queue) \in Seq(1 .. Len(chain))
  BY HeadTailProperties DEF TypeInv, TypeOK
<1>4. /\ CallbackType'
      /\ callback'[c].queue = Tail(callback[c].queue)
      /\ callback'[c].at = "save_block" /\ callback'[c].offer = 0 /\ callback'[c].contract = 0
      /\ \A d \in Callbacks \ {c} : callback'[d] = callback[d]
  BY AdvanceFields DEF TypeInv
<1>5. TaskOK(callback'[c], Len(chain), Len(offers'))
  BY <1>1, <1>3, <1>4, EventInputs DEF TaskOK, Steps
<1> QED BY <1>2, <1>4, <1>5 DEF CallbacksOK

\* Whatever the contract does adds one event: the listing of a new order, or an event
\* of an order that is on sale, which ends it only by a sale or a revocation.
Follows(e) ==
  \/ EventsOf(e.order) = {} /\ e.name = "TokenIsUpForSale" /\ ~Ends(e)
  \/ \E i \in 1 .. Len(chain) :
       /\ IsLast(i) /\ ~Ends(chain[i]) /\ chain[i].order = e.order
       /\ Ends(e) => e.name \in {"TokenIsPurchased", "TokenRevoke"}

\* The events made of an event c of the order.
PriceEvent(c, b, p) ==
  [c EXCEPT !.block = b, !.name = "TokenPriceChanged", !.price = p, !.n = 0, !.address = Seller]
ApprovedEvent(c, b) ==
  [c EXCEPT !.block = b, !.name = "TokenIsApproved", !.n = 0, !.address = Seller]
LessEvent(c, b, m, n, a) ==
  [c EXCEPT !.block = b, !.name = m, !.left = @ - n, !.n = n, !.address = a]

\* A new price and a check leave as much on sale.
LEMMA SameEventType ==
  ASSUME NEW c \in Event, NEW b \in 1 .. MaxBlock
  PROVE  /\ \A p \in Prices : /\ PriceEvent(c, b, p) \in Event
                              /\ PriceEvent(c, b, p).order = c.order
                              /\ PriceEvent(c, b, p).left = c.left
         /\ ApprovedEvent(c, b) \in Event
         /\ ApprovedEvent(c, b).order = c.order /\ ApprovedEvent(c, b).left = c.left
<1>1. 0 \in 0 .. MaxAmount
  BY EventInputs
<1>2. "TokenPriceChanged" \in Names /\ "TokenIsApproved" \in Names
  BY DEF Names
<1>3. ASSUME NEW p \in Prices
      PROVE  /\ PriceEvent(c, b, p) \in Event /\ PriceEvent(c, b, p).order = c.order
             /\ PriceEvent(c, b, p).left = c.left
  BY <1>1, <1>2 DEF Event, PriceEvent
<1>4. /\ ApprovedEvent(c, b) \in Event
      /\ ApprovedEvent(c, b).order = c.order /\ ApprovedEvent(c, b).left = c.left
  BY <1>1, <1>2 DEF Event, ApprovedEvent
<1> QED BY <1>3, <1>4

\* A sale and a revocation say themselves what they leave.
LEMMA LessEventType ==
  ASSUME NEW c \in Event, NEW b \in 1 .. MaxBlock, NEW n \in 1 .. c.left,
         NEW m \in {"TokenIsPurchased", "TokenRevoke"}, NEW a \in Buyers \cup {Seller}
  PROVE  /\ LessEvent(c, b, m, n, a) \in Event /\ LessEvent(c, b, m, n, a).order = c.order
         /\ LessEvent(c, b, m, n, a).name = m
<1>1. c.left \in 0 .. MaxAmount /\ MaxAmount \in Nat
  BY EventInputs DEF Event
<1>2. c.left - n \in 0 .. MaxAmount /\ n \in 0 .. MaxAmount
  BY <1>1
<1>3. m \in Names
  BY DEF Names
<1> QED BY <1>2, <1>3 DEF Event, LessEvent

LEMMA ContractEmits ==
  ASSUME TypeInv, Contract
  PROVE  \E e \in Event : Emit(e) /\ Follows(e)
<1>1. PICK b \in 1 .. MaxBlock :
        \/ \E o \in Orders, p \in Prices, n \in 1 .. MaxAmount : List(o, b, p, n)
        \/ \E i \in 1 .. Len(chain) :
             /\ IsLast(i) /\ chain[i].left > 0
             /\ \/ \E p \in Prices : ChangePrice(i, b, p)
                \/ CheckApproved(i, b)
                \/ \E n \in 1 .. chain[i].left : Revoke(i, b, n)
                \/ \E n \in 1 .. chain[i].left, buyer \in Buyers : Buy(i, b, n, buyer)
  BY DEF Contract
<1>2. MaxAmount \in Nat \ {0}
  BY EventInputs
<1>3. ASSUME NEW o \in Orders, NEW p \in Prices, NEW n \in 1 .. MaxAmount, List(o, b, p, n)
      PROVE  \E e \in Event : Emit(e) /\ Follows(e)
  <2> DEFINE e == [block |-> b, name |-> "TokenIsUpForSale", order |-> o, price |-> p,
                   left |-> n, n |-> n, address |-> Seller]
  <2>1. e \in Event /\ e.order = o /\ e.name = "TokenIsUpForSale" /\ ~Ends(e)
    BY <1>2 DEF Event, Names, Ends
  <2>2. Emit(e) /\ EventsOf(o) = {}
    BY <1>3 DEF List
  <2> HIDE DEF e
  <2> QED BY <2>1, <2>2 DEF Follows
<1>4. ASSUME NEW i \in 1 .. Len(chain), IsLast(i), chain[i].left > 0,
             \/ \E p \in Prices : ChangePrice(i, b, p)
             \/ CheckApproved(i, b)
             \/ \E n \in 1 .. chain[i].left : Revoke(i, b, n)
             \/ \E n \in 1 .. chain[i].left, buyer \in Buyers : Buy(i, b, n, buyer)
      PROVE  \E e \in Event : Emit(e) /\ Follows(e)
  <2>1. chain[i] \in Event /\ chain[i].left \in 1 .. MaxAmount
    <3>1. chain[i] \in Event
      BY ElementOfSeq DEF TypeInv, TypeOK
    <3> QED BY <1>2, <1>4, <3>1 DEF Event
  <2>2. ASSUME NEW p \in Prices, ChangePrice(i, b, p)
        PROVE  \E e \in Event : Emit(e) /\ e.order = chain[i].order /\ ~Ends(e)
    <3>1. Emit(PriceEvent(chain[i], b, p))
      BY <2>2 DEF ChangePrice, PriceEvent
    <3> QED BY <1>4, <2>1, <3>1, SameEventType DEF Ends
  <2>3. ASSUME CheckApproved(i, b)
        PROVE  \E e \in Event : Emit(e) /\ e.order = chain[i].order /\ ~Ends(e)
    <3>1. Emit(ApprovedEvent(chain[i], b))
      BY <2>3 DEF CheckApproved, ApprovedEvent
    <3> QED BY <1>4, <2>1, <3>1, SameEventType DEF Ends
  <2>4. ASSUME NEW n \in 1 .. chain[i].left, Revoke(i, b, n)
        PROVE  \E e \in Event : /\ Emit(e) /\ e.order = chain[i].order
                                /\ e.name \in {"TokenIsPurchased", "TokenRevoke"}
    <3>1. Emit(LessEvent(chain[i], b, "TokenRevoke", n, Seller))
      BY <2>4 DEF Revoke, LessEvent
    <3> QED BY <2>1, <3>1, LessEventType
  <2>5. ASSUME NEW n \in 1 .. chain[i].left, NEW buyer \in Buyers, Buy(i, b, n, buyer)
        PROVE  \E e \in Event : /\ Emit(e) /\ e.order = chain[i].order
                                /\ e.name \in {"TokenIsPurchased", "TokenRevoke"}
    <3>1. Emit(LessEvent(chain[i], b, "TokenIsPurchased", n, buyer))
      BY <2>5 DEF Buy, LessEvent
    <3> QED BY <2>1, <3>1, LessEventType
  <2>6. \E e \in Event : /\ Emit(e) /\ e.order = chain[i].order
                         /\ Ends(e) => e.name \in {"TokenIsPurchased", "TokenRevoke"}
    BY <1>4, <2>2, <2>3, <2>4, <2>5
  <2>7. ~Ends(chain[i]) /\ IsLast(i)
    BY <1>4, <2>1 DEF Ends
  <2>8. ASSUME NEW e \in Event, e.order = chain[i].order,
               Ends(e) => e.name \in {"TokenIsPurchased", "TokenRevoke"}
        PROVE  Follows(e)
    BY <2>7, <2>8 DEF Follows
  <2> QED BY <2>6, <2>8
<1> QED BY <1>1, <1>3, <1>4

\* An event of the right type keeps the types.
LEMMA EmitType ==
  ASSUME TypeInv, NEW e \in Event, Emit(e)
  PROVE  TypeInv'
<1>1. chain' = Append(chain, e) /\ chain \in Seq(Event)
  BY DEF Emit, TypeInv, TypeOK
<1>2. chain' \in Seq(Event) /\ Len(chain') = Len(chain) + 1 /\ Len(chain) \in Nat
  BY <1>1, AppendProperties, LenProperties
<1>3. 1 .. Len(chain) \subseteq 1 .. Len(chain')
  BY <1>2
<1>4. \A d \in Callbacks : callback[d].queue \in Seq(1 .. Len(chain'))
  BY <1>3, SeqMonotonic DEF TypeInv, TypeOK
<1>5. delivered \in 0 .. Len(chain') /\ dropped \subseteq 1 .. Len(chain')
  BY <1>2, <1>3 DEF TypeInv, TypeOK
<1> QED BY <1>2, <1>4, <1>5 DEF Emit, TypeInv, TypeOK, CallbackType, tables, bounds

LEMMA ChainLength ==
  ASSUME TypeInv
  PROVE  Len(chain) \in Nat /\ 1 .. Len(chain) \subseteq Nat \ {0}
BY LenProperties DEF TypeInv, TypeOK

\* What an event in hand is written as.
LEMMA RowType ==
  ASSUME NEW e \in Event
  PROVE  Row(e) \in Offer /\ Row(e).order = e.order
<1>1. StatusOf(e) \in {"Opened", "Canceled", "Completed"}
  BY DEF StatusOf
<1> QED BY <1>1 DEF Row, Offer, Event

LEMMA TradeType ==
  ASSUME NEW i \in Nat \ {0}, chain[i] \in Event, NEW key \in Nat \ {0}
  PROVE  TradeOf(key, i) \in Trade
<1>1. TypeOf(chain[i]) \in {"Open", "Revoke", "Cancel", "Buy"}
  BY DEF TypeOf
<1> QED BY <1>1 DEF TradeOf, Trade, Event

\* A batch is a queue of events that exist.
LEMMA DeliverType ==
  ASSUME TypeInv, NEW c \in Callbacks, NEW n \in Nat, Deliver(c, n)
  PROVE  TypeInv'
<1> DEFINE q == [k \in 1 .. n |-> delivered + k]
<1>1. Len(chain) \in Nat /\ delivered \in Nat /\ delivered + n <= Len(chain)
  BY LenProperties DEF Deliver, TypeInv, TypeOK
<1>2. q \in Seq(1 .. Len(chain))
  <2>1. \A k \in 1 .. n : delivered + k \in 1 .. Len(chain)
    BY <1>1
  <2> QED BY <2>1
<1>3. q \in Seq(Nat)
  <2>1. \A k \in 1 .. n : delivered + k \in Nat
    BY <1>1
  <2> QED BY <2>1
<1>4. callback' = [callback EXCEPT ![c].queue = q]
  BY DEF Deliver
<1> HIDE DEF q
<1> DEFINE t == callback[c]
           t1 == [t EXCEPT !.queue = q]
<1>5. t \in Task
  BY DEF TypeInv, CallbackType
<1>6. t1 \in Task
      /\ t1.queue = q /\ t1.at = t.at /\ t1.offer = t.offer /\ t1.contract = t.contract
  BY <1>3, <1>5 DEF Task
<1>7. callback' = [callback EXCEPT ![c] = t1]
  BY <1>4 DEF TypeInv, CallbackType
<1> HIDE DEF t1
<1>8. CallbackType' /\ callback'[c] = t1 /\ \A d \in Callbacks \ {c} : callback'[d] = callback[d]
  BY <1>6, <1>7 DEF TypeInv, CallbackType
<1>9. TaskOK(callback[c], Len(chain), Len(offers))
  BY DEF TypeInv, TypeOK, TaskOK
<1>10. TaskOK(t1, Len(chain), Len(offers))
  BY <1>2, <1>6, <1>9 DEF TaskOK
<1>11. \A d \in Callbacks : TaskOK(callback'[d], Len(chain), Len(offers))
  BY <1>8, <1>10 DEF TypeInv, TypeOK, TaskOK
<1>12. delivered' \in 0 .. Len(chain)
  BY <1>1 DEF Deliver
<1> QED BY <1>8, <1>11, <1>12 DEF Deliver, TypeInv, TypeOK, TaskOK, tables, bounds

\* An event that something is left to do for is entered.
LEMMA EnterFields ==
  ASSUME TypeInv, NEW c \in Callbacks, SaveBlock(c), Current(c).name # "TokenIsApproved"
  PROVE  GoesOn(c, "find_offer", 0)
<1> DEFINE t == callback[c]
           t1 == [t EXCEPT !.at = "find_offer", !.contract = processedAt]
<1>1. t \in Task /\ t.offer = 0 /\ processedAt \in 0 .. MaxBlock /\ processedAt \in Nat
  BY EventInputs DEF SaveBlock, At, TypeInv, TypeOK, CallbackType
<1>2. t1 \in Task /\ t1.queue = t.queue /\ t1.at = "find_offer" /\ t1.offer = 0 /\ t1.contract = processedAt
  BY <1>1 DEF Task, Steps
<1>3. callback' = [callback EXCEPT ![c] = t1]
  BY DEF SaveBlock, TypeInv, CallbackType
<1> HIDE DEF t1
<1> QED BY <1>1, <1>2, <1>3 DEF GoesOn, TypeInv, CallbackType

\* The steps of a callback that write no table but the contract's block.
LEMMA SaveBlockType ==
  ASSUME TypeInv, NEW c \in Callbacks, SaveBlock(c)
  PROVE  TypeInv'
<1>1. callback[c].queue # <<>> /\ UNCHANGED <<chain, offers>> /\ Len(offers) \in Nat
  BY LenProperties DEF SaveBlock, At, external, TypeInv, TypeOK
<1>2. Current(c).block \in 1 .. MaxBlock
  BY <1>1, CurrentType DEF Event
<1>3. processedAt' \in 1 .. MaxBlock
  BY <1>2 DEF SaveBlock, TypeInv, TypeOK
<1>4. CallbacksOK'
  <2>1. CASE Current(c).name = "TokenIsApproved"
    BY <1>1, <2>1, AdvanceType DEF SaveBlock
  <2>2. CASE Current(c).name # "TokenIsApproved"
    <3>1. GoesOn(c, "find_offer", 0) /\ "find_offer" \in Steps
      BY <2>2, EnterFields DEF Steps
    <3> QED BY <1>1, <3>1, GotoType
  <2> QED BY <2>1, <2>2
<1> QED BY <1>3, <1>4 DEF SaveBlock, TypeInv, TypeOK, CallbacksOK, TaskOK, external, bounds

LEMMA FindOfferType ==
  ASSUME TypeInv, NEW c \in Callbacks, FindOffer(c)
  PROVE  TypeInv'
<1>1. callback[c].queue # <<>> /\ UNCHANGED <<chain, offers>> /\ Len(offers) \in Nat
  BY LenProperties DEF FindOffer, At, external, tables, TypeInv, TypeOK
<1>2. CallbacksOK'
  <2>1. CASE Advance(c)
    BY <1>1, <2>1, AdvanceType
  <2>2. CASE \E key \in 0 .. Len(offers) : Goto(c, "save_offer", key)
    <3>1. PICK key \in 0 .. Len(offers) : Goto(c, "save_offer", key)
      BY <2>2
    <3>2. GoesOn(c, "save_offer", key)
      BY <1>1, <3>1, GotoFields DEF Steps
    <3> QED BY <1>1, <3>2, GotoType DEF Steps
  <2> QED BY <1>1, <2>1, <2>2 DEF FindOffer, RowsOf
<1> QED BY <1>2 DEF FindOffer, TypeInv, TypeOK, CallbacksOK, TaskOK, external, tables, bounds

LEMMA FindEventType ==
  ASSUME TypeInv, NEW c \in Callbacks, FindEvent(c)
  PROVE  TypeInv'
<1>1. callback[c].queue # <<>> /\ UNCHANGED <<chain, offers>> /\ Len(offers) \in Nat
      /\ callback[c].offer \in 0 .. Len(offers) /\ callback[c].offer # 0
  BY LenProperties DEF FindEvent, At, external, tables, TypeInv, TypeOK
<1>2. CallbacksOK'
  <2>1. CASE Advance(c)
    BY <1>1, <2>1, AdvanceType
  <2>2. CASE Goto(c, "create_event", callback[c].offer)
    <3>1. GoesOn(c, "create_event", callback[c].offer)
      BY <1>1, <2>2, GotoFields DEF Steps
    <3> QED BY <1>1, <3>1, GotoType DEF Steps
  <2> QED BY <2>1, <2>2 DEF FindEvent
<1> QED BY <1>2 DEF FindEvent, TypeInv, TypeOK, CallbacksOK, TaskOK, external, tables, bounds

\* The steps that write rows.
LEMMA SaveOfferType ==
  ASSUME TypeInv, NEW c \in Callbacks, SaveOffer(c)
  PROVE  TypeInv'
<1> DEFINE e == Current(c)
           found == callback[c].offer
           key == IF found = 0 THEN Len(offers) + 1 ELSE found
<1>1. callback[c].queue # <<>> /\ UNCHANGED chain /\ Len(offers) \in Nat /\ offers \in Seq(Offer)
  BY LenProperties DEF SaveOffer, At, external, TypeInv, TypeOK
<1>2. e \in Event /\ found \in 0 .. Len(offers) /\ Row(e) \in Offer
  BY <1>1, CurrentType, RowType
<1>3. /\ offers' \in Seq(Offer) /\ Len(offers') \in Nat /\ Len(offers) <= Len(offers')
      /\ key \in 1 .. Len(offers')
  <2>1. CASE found = 0
    <3>1. offers' = Append(offers, Row(e))
      BY <2>1 DEF SaveOffer
    <3>2. offers' \in Seq(Offer) /\ Len(offers') = Len(offers) + 1
      BY <1>1, <1>2, <3>1, AppendProperties
    <3> QED BY <1>1, <2>1, <3>2
  <2>2. CASE found # 0
    <3>1. offers' = [offers EXCEPT ![found] = Row(e)] /\ found \in 1 .. Len(offers)
      BY <1>2, <2>2 DEF SaveOffer
    <3>2. offers' \in Seq(Offer) /\ Len(offers') = Len(offers)
      BY <1>1, <1>2, <3>1, ExceptSeq
    <3> QED BY <1>1, <2>2, <3>1, <3>2
  <2> QED BY <2>1, <2>2
<1>4. CallbacksOK'
  <2>1. CASE Recorded(e)
    <3>1. Goto(c, "find_event", key)
      BY <2>1 DEF SaveOffer
    <3>2. key \in 0 .. Len(offers') /\ key # 0
      BY <1>3
    <3> HIDE DEF key
    <3>3. Len(offers') \in Nat
      BY <1>3
    <3>4. GoesOn(c, "find_event", key)
      BY <3>1, <3>2, <3>3, GotoFields DEF Steps
    <3> QED BY <1>1, <1>3, <3>2, <3>4, GotoType DEF Steps
  <2>2. CASE ~Recorded(e)
    BY <1>1, <1>3, <2>2, AdvanceType DEF SaveOffer
  <2> QED BY <2>1, <2>2
<1> QED BY <1>3, <1>4 DEF SaveOffer, TypeInv, TypeOK, CallbacksOK, TaskOK, external, bounds

LEMMA CreateEventType ==
  ASSUME TypeInv, NEW c \in Callbacks, CreateEvent(c)
  PROVE  TypeInv'
<1> DEFINE e == Current(c)
           key == callback[c].offer
<1>1. callback[c].queue # <<>> /\ UNCHANGED <<chain, offers>> /\ Len(offers) \in Nat
      /\ key \in 0 .. Len(offers) /\ key # 0
  BY LenProperties DEF CreateEvent, At, external, TypeInv, TypeOK
<1>2. TradeOf(key, Number(c)) \in Trade
  BY <1>1, CurrentType, TradeType, ChainLength
<1>3. trades' \in Seq(Trade)
  BY <1>2, AppendProperties DEF CreateEvent, TypeInv, TypeOK
<1>4. CallbacksOK'
  <2>1. CASE Observed(e)
    <3>1. Goto(c, "observe", key) /\ "observe" \in Steps
      BY <2>1 DEF CreateEvent, Steps
    <3>2. GoesOn(c, "observe", key)
      BY <1>1, <3>1, GotoFields
    <3> QED BY <1>1, <3>1, <3>2, GotoType
  <2>2. CASE ~Observed(e)
    BY <1>1, <2>2, AdvanceType DEF CreateEvent
  <2> QED BY <2>1, <2>2
<1> QED BY <1>3, <1>4 DEF CreateEvent, TypeInv, TypeOK, CallbacksOK, TaskOK, external, bounds

LEMMA ObserveType ==
  ASSUME TypeInv, NEW c \in Callbacks, Observe(c)
  PROVE  TypeInv'
<1>1. callback[c].queue # <<>> /\ UNCHANGED <<chain, offers>> /\ Len(offers) \in Nat /\ Advance(c)
  BY LenProperties DEF Observe, At, external, TypeInv, TypeOK
<1>2. CallbacksOK'
  BY <1>1, AdvanceType
<1>3. Current(c).order \in Orders
  BY <1>1, CurrentType DEF Event
<1> QED BY <1>2, <1>3 DEF Observe, TypeInv, TypeOK, CallbacksOK, TaskOK, external, bounds

\* Failures, crashes and restarts.
LEMMA FailType ==
  ASSUME TypeInv, NEW c \in Callbacks, Fail(c)
  PROVE  TypeInv'
<1>1. callback[c].queue # <<>> /\ UNCHANGED <<chain, offers>> /\ Len(offers) \in Nat /\ Advance(c)
  BY LenProperties DEF Fail, AfterFailure, Advance, external, tables, TypeInv, TypeOK
<1>2. CallbacksOK'
  BY <1>1, AdvanceType
<1>3. dropped' \subseteq 1 .. Len(chain)
  BY <1>1, CurrentType DEF Fail, TypeInv, TypeOK
<1>4. failures' \in 0 .. MaxFailures
  BY EventInputs DEF Fail, TypeInv, TypeOK
<1> QED BY <1>2, <1>3, <1>4 DEF Fail, TypeInv, TypeOK, CallbacksOK, TaskOK, external, tables

LEMMA CrashType ==
  ASSUME TypeInv, Crash
  PROVE  TypeInv'
<1>1. callback' = [c \in Callbacks |-> Idle] /\ UNCHANGED <<chain, offers>> /\ Len(offers) \in Nat
  BY LenProperties DEF Crash, external, tables, TypeInv, TypeOK
<1>2. TaskOK(Idle, Len(chain), Len(offers)) /\ Idle \in Task
  BY <1>1, EmptySeq, EventInputs DEF Idle, Task, TaskOK, Steps
<1>3. CallbackType' /\ \A d \in Callbacks : TaskOK(callback'[d], Len(chain), Len(offers))
  BY <1>1, <1>2 DEF CallbackType
<1>4. crashes' \in 0 .. MaxCrashes
  BY EventInputs DEF Crash, TypeInv, TypeOK
<1>5. up' = FALSE
  BY DEF Crash
<1> QED BY <1>1, <1>3, <1>4, <1>5 DEF Crash, TypeInv, TypeOK, TaskOK, external, tables

LEMMA RestartType ==
  ASSUME TypeInv, Restart
  PROVE  TypeInv'
  BY DEF Restart, TypeInv, TypeOK, CallbackType, tables, bounds

\* Every step keeps the types.
LEMMA NextType ==
  ASSUME TypeInv, [Next]_vars
  PROVE  TypeInv'
<1>1. CASE Contract
  BY <1>1, ContractEmits, EmitType
<1>2. CASE Receive
  BY <1>2, DeliverType, EventInputs DEF Receive
<1>3. CASE \E c \in Callbacks : Handle(c) \/ Fail(c)
  BY <1>3, SaveBlockType, FindOfferType, SaveOfferType, FindEventType, CreateEventType,
     ObserveType, FailType DEF Handle
<1>4. CASE UNCHANGED vars
  BY <1>4 DEF vars, external, tables, bounds, TypeInv, TypeOK, CallbackType
<1> QED BY <1>1, <1>2, <1>3, <1>4, CrashType, RestartType DEF Next

LEMMA InitType == Init => TypeInv
<1> SUFFICES ASSUME Init PROVE TypeInv
  OBVIOUS
<1>1. Idle.queue = <<>> /\ Idle.at = "save_block" /\ Idle.offer = 0 /\ Idle.contract = 0
      /\ "save_block" \in Steps /\ Idle \in Task
  BY EmptySeq DEF Idle, Task, Steps
<1>2. \A c \in Callbacks : callback[c] = Idle
  BY DEF Init
<1>3. CallbackType
  BY <1>1 DEF Init, CallbackType
<1>4. <<>> \in Seq(1 .. 0) /\ <<>> \in Seq(Event) /\ <<>> \in Seq(Offer) /\ <<>> \in Seq(Trade)
      /\ Len(<<>>) = 0
  BY EmptySeq
<1>5. \A c \in Callbacks :
        /\ callback[c].queue \in Seq(1 .. 0) /\ callback[c].at = "save_block"
        /\ callback[c].offer = 0 /\ callback[c].at \in Steps /\ callback[c].contract \in 0 .. MaxBlock
  <2>1. 0 \in 0 .. MaxBlock
    BY EventInputs
  <2> QED BY <1>1, <1>2, <1>4, <2>1
<1> QED BY <1>3, <1>4, <1>5, EventInputs DEF Init, TypeInv, TypeOK

\* Every variable keeps its type, and a callback holds a row only in the middle of
\* an event, whatever the number of callbacks, crashes and failures.
THEOREM EventsTypeCorrect == Spec => []TypeOK
<1>1. TypeInv /\ [Next]_vars => TypeInv'
  BY NextType
<1>2. Spec => []TypeInv
  BY <1>1, InitType, PTL DEF Spec
<1> QED BY <1>2, PTL DEF TypeInv

-----------------------------------------------------------------------------
(* The chain.                                                              *)

LEMMA EmitFacts ==
  ASSUME TypeInv, NEW e \in Event, Emit(e)
  PROVE  /\ Len(chain) \in Nat /\ Len(chain') = Len(chain) + 1
         /\ \A i \in 1 .. Len(chain) : chain'[i] = chain[i]
         /\ chain'[Len(chain')] = e
  BY AppendProperties, LenProperties DEF Emit, TypeInv, TypeOK

LEMMA ChainType ==
  ASSUME TypeInv
  PROVE  /\ Len(chain) \in Nat /\ HeadBlock \in Nat
         /\ \A i \in 1 .. Len(chain) : chain[i] \in Event /\ chain[i].block \in 1 .. MaxBlock
         /\ chain = <<>> <=> Len(chain) = 0
<1>1. chain \in Seq(Event) /\ Len(chain) \in Nat
  BY LenProperties DEF TypeInv, TypeOK
<1>2. ASSUME NEW i \in 1 .. Len(chain)
      PROVE  chain[i] \in Event /\ chain[i].block \in 1 .. MaxBlock
  <2>1. chain[i] \in Event
    BY <1>1, ElementOfSeq
  <2> QED BY <2>1 DEF Event
<1>3. chain = <<>> <=> Len(chain) = 0
  BY <1>1, EmptySeq
<1>4. HeadBlock \in Nat
  BY <1>1, <1>2, <1>3, EventInputs DEF HeadBlock
<1> QED BY <1>1, <1>2, <1>3, <1>4

\* No block is above the last one.
LEMMA BlocksUpToHead ==
  ASSUME TypeInv, ChainInv
  PROVE  \A i \in 1 .. Len(chain) : chain[i].block <= HeadBlock
  BY ChainType DEF ChainInv, HeadBlock

\* What the contract adds keeps the chain in order.
LEMMA EmitKeepsChain ==
  ASSUME TypeInv, ChainInv, NEW e \in Event, Emit(e), Follows(e)
  PROVE  ChainInv'
<1> DEFINE n == Len(chain)
<1>1. /\ n \in Nat /\ Len(chain') = n + 1 /\ \A i \in 1 .. n : chain'[i] = chain[i]
      /\ chain'[n + 1] = e
  BY EmitFacts
<1>2. e.block >= HeadBlock /\ HeadBlock \in Nat /\ e.block \in Nat
  BY ChainType DEF Emit, Event
<1>3. \A i \in 1 .. n : chain[i].block <= HeadBlock /\ chain[i].block \in Nat
  BY BlocksUpToHead, ChainType
<1> HIDE DEF n
<1>4. ASSUME NEW i \in 1 .. Len(chain'), NEW j \in 1 .. Len(chain'), i <= j
      PROVE  chain'[i].block <= chain'[j].block
  <2>1. CASE j = n + 1
    BY <1>1, <1>2, <1>3, <2>1
  <2>2. CASE j # n + 1
    <3>1. i \in 1 .. n /\ j \in 1 .. n
      BY <1>1, <1>4, <2>2
    <3> QED BY <1>1, <1>4, <3>1 DEF ChainInv, n
  <2> QED BY <2>1, <2>2
<1>5. ASSUME NEW i \in 1 .. Len(chain')
      PROVE  \E f \in 1 .. i : chain'[f].order = chain'[i].order
                               /\ chain'[f].name = "TokenIsUpForSale"
  <2>1. ASSUME NEW k \in 1 .. n, k <= i, chain[k].order = chain'[i].order
        PROVE  \E f \in 1 .. i : chain'[f].order = chain'[i].order
                                 /\ chain'[f].name = "TokenIsUpForSale"
    <3>1. PICK f \in 1 .. k :
            chain[f].order = chain[k].order /\ chain[f].name = "TokenIsUpForSale"
      BY DEF ChainInv, n
    <3>2. f \in 1 .. i /\ f \in 1 .. n
      BY <1>1, <2>1
    <3> QED BY <1>1, <2>1, <3>1, <3>2
  <2>2. CASE i \in 1 .. n
    BY <1>1, <2>1, <2>2
  <2>3. CASE i = n + 1 /\ e.name = "TokenIsUpForSale"
    BY <1>1, <2>3
  <2>4. CASE i = n + 1 /\ \E k \in 1 .. n : chain[k].order = e.order
    BY <1>1, <2>1, <2>4
  <2> QED BY <1>1, <2>2, <2>3, <2>4 DEF Follows, n
<1>6. ASSUME NEW i \in 1 .. Len(chain'), Ends(chain'[i])
      PROVE  chain'[i].name \in {"TokenIsPurchased", "TokenRevoke"} /\ IsLast(i)'
  <2>1. CASE i = n + 1
    <3>1. chain'[i].name \in {"TokenIsPurchased", "TokenRevoke"}
      BY <1>1, <1>6, <2>1 DEF Follows
    <3> QED BY <1>1, <2>1, <3>1 DEF IsLast, EventsOf
  <2>2. CASE i \in 1 .. n
    <3>1. Ends(chain[i]) /\ chain[i].name \in {"TokenIsPurchased", "TokenRevoke"} /\ IsLast(i)
      BY <1>1, <1>6, <2>2 DEF ChainInv, n
    <3>2. chain[i].order # e.order
      <4>1. CASE EventsOf(e.order) = {}
        BY <2>2, <4>1 DEF EventsOf, n
      <4>2. ASSUME NEW k \in 1 .. n, IsLast(k), ~Ends(chain[k]), chain[k].order = e.order,
                   chain[i].order = e.order
            PROVE  FALSE
        <5>1. k \in EventsOf(chain[i].order) /\ i \in EventsOf(chain[k].order)
          BY <2>2, <4>2 DEF EventsOf, n
        <5>2. k <= i /\ i <= k
          BY <3>1, <4>2, <5>1 DEF IsLast
        <5>3. k = i
          BY <1>1, <2>2, <5>2
        <5> QED BY <3>1, <4>2, <5>3
      <4> QED BY <4>1, <4>2 DEF Follows, n
    <3> QED BY <1>1, <2>2, <3>1, <3>2 DEF IsLast, EventsOf, n
  <2> QED BY <1>1, <2>1, <2>2
<1> QED BY <1>4, <1>5, <1>6 DEF ChainInv

-----------------------------------------------------------------------------
(* Going on with an event, and going on to the next.                       *)

\* The event in hand is the first one not done with.
LEMMA InHand ==
  ASSUME TypeInv, NEW c \in Callbacks, ProgressInv(c), callback[c].queue # <<>>
  PROVE  /\ Done(c) \in Nat /\ Len(callback[c].queue) \in Nat \ {0}
         /\ Head(callback[c].queue) = Done(c) + 1 /\ Done(c) + 1 \in 1 .. Len(chain)
         /\ Current(c) = chain[Done(c) + 1] /\ Current(c) \in Event /\ Number(c) = Done(c) + 1
<1>1. callback[c].queue \in Seq(Nat)
  BY DEF TypeInv, CallbackType, Task
<1>2. Len(callback[c].queue) \in Nat \ {0}
  BY <1>1, EmptySeq
<1>3. Done(c) \in Nat
  BY <1>2 DEF Done, ProgressInv, TypeInv, TypeOK
<1>4. callback[c].queue[1] = Done(c) + 1
  BY <1>2 DEF ProgressInv
<1>5. Head(callback[c].queue) = callback[c].queue[1]
  BY <1>1
<1> QED BY <1>2, <1>3, <1>4, <1>5, CurrentType

LEMMA DoneType ==
  ASSUME TypeInv, NEW c \in Callbacks, ProgressInv(c)
  PROVE  Done(c) \in Nat /\ Done(c) <= Len(chain)
<1>1. callback[c].queue \in Seq(Nat) /\ chain \in Seq(Event)
  BY DEF TypeInv, CallbackType, Task, TypeOK
<1>2. Len(callback[c].queue) \in Nat /\ Len(chain) \in Nat /\ delivered \in 0 .. Len(chain)
  BY <1>1, LenProperties DEF TypeInv, TypeOK
<1> QED BY <1>2 DEF Done, ProgressInv

\* A callback that goes on with its event has done with as many as before.
LEMMA GotoProgress ==
  ASSUME TypeInv, NEW c \in Callbacks, ProgressInv(c), callback[c].queue # <<>>, up,
         NEW s \in Steps, NEW key \in Nat, GoesOn(c, s, key), UNCHANGED <<chain, delivered, up>>,
         \A i \in 1 .. Len(chain) : i > Done(c) => processedAt' <= chain[i].block,
         processedAt' <= HeadBlock
  PROVE  ProgressInv(c)' /\ Done(c)' = Done(c)
<1>1. callback'[c].queue = callback[c].queue
  BY DEF GoesOn
<1>2. Done(c)' = Done(c)
  BY <1>1 DEF Done
<1>3. HeadBlock' = HeadBlock
  BY DEF HeadBlock
<1> QED BY <1>1, <1>2, <1>3 DEF ProgressInv

\* One that goes on to the next has done with one more.
LEMMA AdvanceProgress ==
  ASSUME TypeInv, NEW c \in Callbacks, ProgressInv(c), callback[c].queue # <<>>, up,
         Advance(c), UNCHANGED <<chain, delivered, up>>,
         \A i \in 1 .. Len(chain) : i > Done(c) => processedAt' <= chain[i].block,
         processedAt' <= HeadBlock
  PROVE  ProgressInv(c)' /\ Done(c)' = Done(c) + 1 /\ CallbackInv(c)'
<1> DEFINE q == callback[c].queue
<1>1. /\ callback'[c].queue = Tail(q)
      /\ callback'[c].at = "save_block" /\ callback'[c].offer = 0
  BY AdvanceFields DEF TypeInv
<1>2. q \in Seq(Nat) /\ q # <<>> /\ Len(q) \in Nat /\ delivered \in Nat
  BY LenProperties DEF TypeInv, CallbackType, Task, TypeOK
<1>3. Len(Tail(q)) = Len(q) - 1 /\ \A k \in 1 .. Len(Tail(q)) : Tail(q)[k] = q[k + 1]
  BY <1>2, HeadTailProperties
<1>4. \A k \in 1 .. Len(q) : q[k] = Done(c) + k
  BY DEF ProgressInv
<1>5. Done(c)' = delivered - Len(Tail(q)) /\ Done(c) = delivered - Len(q)
  BY <1>1 DEF Done
<1> HIDE DEF q
<1>6. Done(c)' = Done(c) + 1
  BY <1>2, <1>3, <1>5
<1>7. Done(c) \in Nat
  BY DoneType
<1>8. \A k \in 1 .. Len(Tail(q)) : Tail(q)[k] = Done(c)' + k
  BY <1>2, <1>3, <1>4, <1>6, <1>7
<1>9. \A i \in 1 .. Len(chain) : i > Done(c)' => processedAt' <= chain[i].block
  BY <1>6, <1>7
<1>10. HeadBlock' = HeadBlock
  BY DEF HeadBlock
<1>11. ProgressInv(c)'
  BY <1>1, <1>6, <1>7, <1>8, <1>9, <1>10 DEF ProgressInv
<1>12. CallbackInv(c)'
  BY <1>1 DEF CallbackInv
<1> QED BY <1>6, <1>11, <1>12

\* What was settled stays so as long as no offer is written.
LEMMA SettledStays ==
  ASSUME TypeInv, NEW i \in 1 .. Len(chain), Settled(i), UNCHANGED offers,
         Len(chain') \in Nat, Len(chain) <= Len(chain'),
         \A j \in 1 .. Len(chain) : chain'[j] = chain[j],
         Len(trades') \in Nat, Len(trades) <= Len(trades'),
         \A k \in 1 .. Len(trades) : trades'[k] = trades[k],
         dropped \subseteq dropped'
  PROVE  Settled(i)'
<1>1. Len(chain) \in Nat /\ Len(trades) \in Nat
  BY LenProperties DEF TypeInv, TypeOK
<1>2. chain'[i] = chain[i] /\ i \in 1 .. Len(chain')
  BY <1>1
<1>3. \A o : RowsOf(o)' = RowsOf(o)
  BY DEF RowsOf
<1>4. \A o : EventsOf(o) \subseteq EventsOf(o)'
  BY <1>1 DEF EventsOf
<1>5. \A t : Duplicate(t) => Duplicate(t)'
  BY <1>1 DEF Duplicate
<1>6. InOffers(i) => InOffers(i)'
  <2>1. \A j \in EventsOf(chain[i].order) : chain'[j] = chain[j]
    BY DEF EventsOf
  <2> QED BY <1>2, <1>3, <1>4, <2>1 DEF InOffers
<1>7. InTrades(i) => InTrades(i)'
  <2>1. Recorded(chain[i])' = Recorded(chain[i])
    BY <1>2 DEF Recorded
  <2>2. \A k : TradeOf(k, i)' = TradeOf(k, i)
    BY <1>2 DEF TradeOf, TypeOf, Ends
  <2> QED BY <1>2, <1>3, <1>5, <2>1, <2>2 DEF InTrades
<1> QED BY <1>2, <1>3, <1>4, <1>6, <1>7 DEF Settled, Reflected, Ends

\* What a callback must show when it is done with its event.
LEMMA AdvanceHandled ==
  ASSUME TypeInv, NEW c \in Callbacks, ProgressInv(c), HandledInv(c), up,
         NEW d, d = Done(c), UNCHANGED chain, Done(c)' = d + 1,
         \A i \in 1 .. Done(c) : Settled(i) => Settled(i)',
         Settled(d + 1)'
  PROVE  HandledInv(c)'
<1>1. d \in Nat /\ d <= Len(chain) /\ Len(chain) \in Nat
  BY DoneType, ChainType
<1>2. ASSUME NEW i \in 1 .. Len(chain), i <= d + 1
      PROVE  Settled(i)'
  <2>1. CASE i = d + 1
    BY <2>1
  <2>2. CASE i \in 1 .. d
    BY <2>2 DEF HandledInv
  <2> QED BY <1>1, <1>2, <2>1, <2>2
<1> QED BY <1>2 DEF HandledInv

LEMMA GotoHandled ==
  ASSUME TypeInv, NEW c \in Callbacks, ProgressInv(c), HandledInv(c), up,
         UNCHANGED chain, Done(c)' = Done(c),
         \A i \in 1 .. Done(c) : Settled(i) => Settled(i)'
  PROVE  HandledInv(c)'
<1>1. Done(c) \in Nat /\ Len(chain) \in Nat
  BY DoneType, ChainType
<1>2. ASSUME NEW i \in 1 .. Len(chain), i <= Done(c)
      PROVE  Settled(i)'
  BY <1>1, <1>2 DEF HandledInv
<1> QED BY <1>2 DEF HandledInv

\* The events done with stay settled through a step that writes no offer.
LEMMA DoneStaysSettled ==
  ASSUME TypeInv, NEW c \in Callbacks, ProgressInv(c), UNCHANGED <<chain, offers>>,
         Len(trades') \in Nat, Len(trades) <= Len(trades'),
         \A k \in 1 .. Len(trades) : trades'[k] = trades[k],
         dropped \subseteq dropped'
  PROVE  \A i \in 1 .. Done(c) : Settled(i) => Settled(i)'
<1>1. Done(c) \in Nat /\ Done(c) <= Len(chain) /\ Len(chain) \in Nat
  BY DoneType, ChainType
<1>2. ASSUME NEW i \in 1 .. Done(c), Settled(i) PROVE Settled(i)'
  <2>1. i \in 1 .. Len(chain)
    BY <1>1
  <2> QED BY <1>1, <1>2, <2>1, SettledStays
<1> QED BY <1>2

\* A purchase leaves an offer completed exactly if nothing is left, and so on.
LEMMA RowShows ==
  ASSUME TypeInv, ChainInv, NEW i \in 1 .. Len(chain)
  PROVE  Shows(Row(chain[i]), chain[i])
<1>1. chain[i] \in Event /\ MaxAmount \in Nat
  BY ChainType, EventInputs
<1>2. chain[i].left \in 0 .. MaxAmount
  BY <1>1 DEF Event
<1>3. Ends(chain[i]) => chain[i].name \in {"TokenIsPurchased", "TokenRevoke"}
  BY DEF ChainInv
<1>4. Ends(chain[i]) <=> ~(chain[i].left > 0)
  BY <1>1, <1>2 DEF Ends
<1>5. StatusOf(chain[i]) = "Opened" <=> ~Ends(chain[i])
  BY <1>3 DEF StatusOf
<1> QED BY <1>4, <1>5 DEF Shows, Row

\* An event is settled by a step that leaves its row and its trade written.
LEMMA WrittenIsSettled ==
  ASSUME TypeInv, ChainInv, TablesInv', UNCHANGED chain, NEW i \in 1 .. Len(chain),
         NEW o, o = chain[i].order,
         NEW key \in Nat, key \in RowsOf(o)', offers'[key] = Row(chain[i]),
         Recorded(chain[i]) => \E k \in 1 .. Len(trades') : SameTrade(trades'[k], TradeOf(key, i))
  PROVE  Settled(i)'
<1>1. i \in EventsOf(o)' /\ i >= i
  BY DEF EventsOf
<1>2. \A k \in RowsOf(o)' : k = key
  BY DEF TablesInv, RowsOf
<1>3. RowsOf(o)' = {key}
  BY <1>2
<1>4. Shows(offers'[key], chain[i])
  BY RowShows
<1>5. InOffers(i)'
  BY <1>1, <1>3, <1>4 DEF InOffers, Shows
<1>6. InTrades(i)'
  BY <1>3 DEF InTrades, Recorded, Duplicate, SameTrade, TradeOf, TypeOf, Ends
<1> QED BY <1>5, <1>6 DEF Settled, Reflected

-----------------------------------------------------------------------------
(* The steps.                                                              *)

LEMMA SaveBlockKeeps ==
  ASSUME NEW c, Callbacks = {c}, IndInv(c), SaveBlock(c)
  PROVE  IndInv(c)'
<1> USE DEF IndInv
<1>1. /\ TypeInv /\ c \in Callbacks /\ up /\ callback[c].queue # <<>>
      /\ UNCHANGED <<chain, delivered, up, offers, trades, dropped>>
  BY DEF SaveBlock, At, external, bounds
<1>2. PICK d : /\ d = Done(c) /\ d \in Nat /\ d + 1 \in 1 .. Len(chain) /\ Current(c) = chain[d + 1]
  BY <1>1, InHand
<1>3. Len(chain) \in Nat /\ HeadBlock \in Nat
      /\ \A i \in 1 .. Len(chain) : chain[i] \in Event /\ chain[i].block \in 1 .. MaxBlock
  BY <1>1, ChainType
<1>4. processedAt' = Current(c).block
  <2>1. processedAt <= Current(c).block /\ processedAt \in Nat /\ Current(c).block \in Nat
    BY <1>2, <1>3 DEF ProgressInv, TypeInv, TypeOK
  <2> QED BY <2>1 DEF SaveBlock
<1>5. \A i \in 1 .. Len(chain) : i > Done(c) => processedAt' <= chain[i].block
  BY <1>2, <1>3, <1>4 DEF ChainInv
<1>6. processedAt' <= HeadBlock
  BY <1>1, <1>2, <1>4, BlocksUpToHead
<1>7. TypeInv' /\ ChainInv' /\ TablesInv'
  BY <1>1, SaveBlockType DEF ChainInv, TablesInv, IsLast, EventsOf
<1>8. Len(trades) \in Nat
  BY <1>1, LenProperties DEF TypeInv, TypeOK
<1>9. \A i \in 1 .. Done(c) : Settled(i) => Settled(i)'
  BY <1>1, <1>8, DoneStaysSettled
<1>10. CASE Current(c).name = "TokenIsApproved"
  <2>1. Advance(c)
    BY <1>10 DEF SaveBlock
  <2>2. ProgressInv(c)' /\ Done(c)' = Done(c) + 1 /\ CallbackInv(c)'
    BY <1>1, <1>5, <1>6, <2>1, AdvanceProgress
  <2>3. Settled(d + 1)'
    BY <1>1, <1>2, <1>10 DEF Settled, Reflected, InOffers, InTrades, Recorded
  <2> QED BY <1>1, <1>7, <1>9, <1>2, <2>2, <2>3, AdvanceHandled
<1>11. CASE Current(c).name # "TokenIsApproved"
  <2>1. GoesOn(c, "find_offer", 0) /\ "find_offer" \in Steps
    BY <1>1, <1>11, EnterFields DEF Steps
  <2>2. ProgressInv(c)' /\ Done(c)' = Done(c)
    BY <1>1, <1>5, <1>6, <2>1, GotoProgress
  <2>3. callback'[c].queue = callback[c].queue /\ callback'[c].at = "find_offer"
    BY <2>1 DEF GoesOn
  <2>4. CallbackInv(c)'
    BY <1>1, <2>3 DEF CallbackInv
  <2> QED BY <1>1, <1>7, <1>9, <2>2, <2>4, GotoHandled
<1> QED BY <1>10, <1>11

LEMMA FindOfferKeeps ==
  ASSUME NEW c, Callbacks = {c}, IndInv(c), FindOffer(c)
  PROVE  IndInv(c)'
<1> USE DEF IndInv
<1> DEFINE e == Current(c)
<1>1. /\ TypeInv /\ c \in Callbacks /\ up /\ callback[c].queue # <<>>
      /\ UNCHANGED <<chain, delivered, up, processedAt, offers, trades, dropped>>
  BY DEF FindOffer, At, external, tables, bounds
<1>2. PICK d : /\ d = Done(c) /\ d \in Nat /\ d + 1 \in 1 .. Len(chain) /\ e = chain[d + 1]
  BY <1>1, InHand
<1>3. /\ \A i \in 1 .. Len(chain) : i > Done(c) => processedAt' <= chain[i].block
      /\ processedAt' <= HeadBlock
  BY <1>1 DEF ProgressInv
<1>4. TypeInv' /\ ChainInv' /\ TablesInv'
  BY <1>1, FindOfferType DEF ChainInv, TablesInv, IsLast, EventsOf
<1>5. Len(trades) \in Nat /\ Len(chain) \in Nat
  BY <1>1, LenProperties DEF TypeInv, TypeOK
<1>6. \A i \in 1 .. Done(c) : Settled(i) => Settled(i)'
  BY <1>1, <1>5, DoneStaysSettled
<1>7. CASE RowsOf(e.order) = {} /\ Ends(e)
  <2>1. Advance(c)
    BY <1>7 DEF FindOffer
  <2>2. ProgressInv(c)' /\ Done(c)' = Done(c) + 1 /\ CallbackInv(c)'
    BY <1>1, <1>3, <2>1, AdvanceProgress
  <2>3. PICK f \in 1 .. d + 1 :
          chain[f].order = e.order /\ chain[f].name = "TokenIsUpForSale"
    BY <1>2 DEF ChainInv
  <2>4. e.name \in {"TokenIsPurchased", "TokenRevoke"}
    BY <1>2, <1>7 DEF ChainInv
  <2>5. f \in 1 .. Len(chain) /\ f <= d
    BY <1>2, <1>5, <2>3, <2>4
  <2>6. ~Ends(chain[f])
    BY <2>3, <2>5 DEF ChainInv
  <2>7. Settled(f)
    BY <1>1, <1>2, <2>5 DEF HandledInv
  <2>8. ~InOffers(f)
    BY <1>7, <2>3 DEF InOffers
  <2>9. f \in dropped /\ f \in EventsOf(e.order)
    BY <2>3, <2>5, <2>6, <2>7, <2>8 DEF Settled, Reflected, EventsOf
  <2>10. Settled(d + 1)
    BY <1>2, <1>7, <2>9 DEF Settled
  <2>11. Settled(d + 1)'
    BY <1>1, <1>2, <1>5, <2>10, SettledStays
  <2> QED BY <1>1, <1>4, <1>6, <1>2, <2>2, <2>11, AdvanceHandled
<1>8. CASE ~(RowsOf(e.order) = {} /\ Ends(e))
  <2>1. PICK key \in IF RowsOf(e.order) = {} THEN {0} ELSE RowsOf(e.order) :
          Goto(c, "save_offer", key)
    BY <1>8 DEF FindOffer
  <2>2. key \in Nat /\ "save_offer" \in Steps /\ GoesOn(c, "save_offer", key)
    BY <1>1, <2>1, GotoFields DEF RowsOf, Steps
  <2>3. ProgressInv(c)' /\ Done(c)' = Done(c)
    BY <1>1, <1>3, <2>1, <2>2, GotoProgress
  <2>4. /\ callback'[c].queue = callback[c].queue /\ callback'[c].at = "save_offer"
        /\ callback'[c].offer = key
    BY <2>2 DEF GoesOn
  <2>5. IF key = 0 THEN RowsOf(e.order) = {} ELSE key \in RowsOf(e.order)
    BY <2>1 DEF RowsOf
  <2>6. CallbackInv(c)'
    BY <1>1, <2>4, <2>5 DEF CallbackInv, RowsOf, Current, Number
  <2> QED BY <1>1, <1>4, <1>6, <2>3, <2>6, GotoHandled
<1> QED BY <1>7, <1>8

LEMMA FindEventKeeps ==
  ASSUME NEW c, Callbacks = {c}, IndInv(c), FindEvent(c)
  PROVE  IndInv(c)'
<1> USE DEF IndInv
<1> DEFINE e == Current(c)
           key == callback[c].offer
<1>1. /\ TypeInv /\ c \in Callbacks /\ up /\ callback[c].queue # <<>>
      /\ callback[c].at = "find_event" /\ key \in Nat
      /\ UNCHANGED <<chain, delivered, up, processedAt, offers, trades, dropped>>
  BY DEF FindEvent, At, external, tables, bounds, TypeInv, TypeOK
<1>2. PICK d : /\ d = Done(c) /\ d \in Nat /\ d + 1 \in 1 .. Len(chain) /\ e = chain[d + 1]
               /\ Number(c) = d + 1
  BY <1>1, InHand
<1> PICK o : o = e.order
  OBVIOUS
<1>3. /\ \A i \in 1 .. Len(chain) : i > Done(c) => processedAt' <= chain[i].block
      /\ processedAt' <= HeadBlock
  BY <1>1 DEF ProgressInv
<1>4. TypeInv' /\ ChainInv' /\ TablesInv'
  BY <1>1, FindEventType DEF ChainInv, TablesInv, IsLast, EventsOf
<1>5. Len(trades) \in Nat /\ Len(chain) \in Nat
  BY <1>1, LenProperties DEF TypeInv, TypeOK
<1>6. \A i \in 1 .. Done(c) : Settled(i) => Settled(i)'
  BY <1>1, <1>5, DoneStaysSettled
<1>7. Recorded(e) /\ key \in RowsOf(e.order) /\ offers[key] = Row(e)
  BY <1>1 DEF CallbackInv
<1>8. CASE MayFind(c) /\ Advance(c)
  <2>1. Advance(c) /\ Duplicate(TradeOf(key, d + 1))
    BY <1>2, <1>8 DEF MayFind
  <2>2. ProgressInv(c)' /\ Done(c)' = Done(c) + 1 /\ CallbackInv(c)'
    BY <1>1, <1>3, <2>1, AdvanceProgress
  <2>3. key \in RowsOf(o)' /\ offers'[key] = Row(e)
        /\ \E k \in 1 .. Len(trades') : SameTrade(trades'[k], TradeOf(key, d + 1))
    BY <1>1, <1>7, <2>1 DEF RowsOf, Duplicate
  <2>4. Settled(d + 1)'
    BY <1>1, <1>2, <1>4, <2>3, WrittenIsSettled
  <2> QED BY <1>1, <1>2, <1>4, <1>6, <2>2, <2>4, AdvanceHandled
<1>9. CASE Goto(c, "create_event", key)
  <2>1. GoesOn(c, "create_event", key) /\ "create_event" \in Steps
    BY <1>1, <1>9, GotoFields DEF Steps
  <2>2. ProgressInv(c)' /\ Done(c)' = Done(c)
    BY <1>1, <1>3, <2>1, GotoProgress
  <2>3. /\ callback'[c].queue = callback[c].queue /\ callback'[c].at = "create_event"
        /\ callback'[c].offer = key
    BY <2>1 DEF GoesOn
  <2>4. CallbackInv(c)'
    BY <1>1, <1>7, <2>3 DEF CallbackInv, RowsOf, Current, Number
  <2> QED BY <1>1, <1>4, <1>6, <2>2, <2>4, GotoHandled
<1> QED BY <1>8, <1>9 DEF FindEvent

LEMMA CreateEventKeeps ==
  ASSUME NEW c, Callbacks = {c}, IndInv(c), CreateEvent(c)
  PROVE  IndInv(c)'
<1> USE DEF IndInv
<1> DEFINE e == Current(c)
           key == callback[c].offer
           t == TradeOf(key, Number(c))
<1>1. /\ TypeInv /\ c \in Callbacks /\ up /\ callback[c].queue # <<>>
      /\ callback[c].at = "create_event" /\ key \in Nat
      /\ UNCHANGED <<chain, delivered, up, processedAt, offers, dropped>>
  BY DEF CreateEvent, At, external, bounds, TypeInv, TypeOK
<1>2. PICK d : /\ d = Done(c) /\ d \in Nat /\ d + 1 \in 1 .. Len(chain) /\ e = chain[d + 1]
               /\ Number(c) = d + 1
  BY <1>1, InHand
<1> PICK o : o = e.order
  OBVIOUS
<1>3. /\ \A i \in 1 .. Len(chain) : i > Done(c) => processedAt' <= chain[i].block
      /\ processedAt' <= HeadBlock
  BY <1>1 DEF ProgressInv
<1>4. TypeInv' /\ ChainInv'
  BY <1>1, CreateEventType DEF ChainInv, IsLast, EventsOf
<1>5. Recorded(e) /\ key \in RowsOf(e.order) /\ offers[key] = Row(e)
  BY <1>1 DEF CallbackInv
<1>6. /\ Len(trades) \in Nat /\ Len(trades') = Len(trades) + 1 /\ trades'[Len(trades')] = t
      /\ \A k \in 1 .. Len(trades) : trades'[k] = trades[k]
  <2>1. trades' = Append(trades, t) /\ trades \in Seq(Trade)
    BY <1>1 DEF CreateEvent, TypeInv, TypeOK
  <2>2. e \in Event /\ key \in Nat \ {0}
    BY <1>1, CurrentType DEF TypeInv, TypeOK
  <2>3. t \in Trade
    BY <1>2, <2>2, TradeType
  <2> QED BY <2>1, <2>3, AppendProperties, LenProperties
<1>7. \A i \in 1 .. Done(c) : Settled(i) => Settled(i)'
  <2>1. Len(trades') \in Nat /\ Len(trades) <= Len(trades')
    BY <1>6
  <2> QED BY <1>1, <1>6, <2>1, DoneStaysSettled
<1>8. TablesInv'
  BY <1>1 DEF TablesInv
<1>9. /\ key \in RowsOf(o)' /\ offers'[key] = Row(e)
      /\ \E k \in 1 .. Len(trades') : SameTrade(trades'[k], t)
  <2> HIDE DEF t
  <2>1. Len(trades') \in 1 .. Len(trades') /\ SameTrade(trades'[Len(trades')], t)
    BY <1>6 DEF SameTrade
  <2> QED BY <1>1, <1>5, <2>1 DEF RowsOf
<1>10. CASE Observed(e)
  <2>1. GoesOn(c, "observe", key) /\ "observe" \in Steps
    BY <1>1, <1>10, GotoFields DEF CreateEvent, Steps
  <2>2. ProgressInv(c)' /\ Done(c)' = Done(c)
    BY <1>1, <1>3, <2>1, GotoProgress
  <2>3. /\ callback'[c].queue = callback[c].queue /\ callback'[c].at = "observe"
        /\ callback'[c].offer = key
    BY <2>1 DEF GoesOn
  <2>4. Number(c)' = Number(c) /\ Current(c)' = e
    BY <1>1, <2>3 DEF Current, Number
  <2>5. Duplicate(TradeOf(callback[c].offer, Number(c)))'
    BY <1>1, <1>9, <2>3, <2>4 DEF Duplicate, SameTrade, TradeOf, TypeOf, Ends
  <2>6. CallbackInv(c)'
    BY <1>1, <1>5, <1>9, <2>3, <2>4, <2>5 DEF CallbackInv
  <2> QED BY <1>1, <1>4, <1>7, <1>8, <2>2, <2>6, GotoHandled
<1>11. CASE ~Observed(e)
  <2>1. Advance(c)
    BY <1>11 DEF CreateEvent
  <2>2. ProgressInv(c)' /\ Done(c)' = Done(c) + 1 /\ CallbackInv(c)'
    BY <1>1, <1>3, <2>1, AdvanceProgress
  <2>3. Settled(d + 1)'
    BY <1>1, <1>2, <1>8, <1>9, WrittenIsSettled
  <2> QED BY <1>1, <1>2, <1>4, <1>7, <1>8, <2>2, <2>3, AdvanceHandled
<1> QED BY <1>10, <1>11

LEMMA ObserveKeeps ==
  ASSUME NEW c, Callbacks = {c}, IndInv(c), Observe(c)
  PROVE  IndInv(c)'
<1> USE DEF IndInv
<1> DEFINE e == Current(c)
           key == callback[c].offer
<1>1. /\ TypeInv /\ c \in Callbacks /\ up /\ callback[c].queue # <<>> /\ Advance(c)
      /\ callback[c].at = "observe" /\ key \in Nat
      /\ UNCHANGED <<chain, delivered, up, processedAt, offers, trades, dropped>>
  BY DEF Observe, At, external, bounds, TypeInv, TypeOK
<1>2. PICK d : /\ d = Done(c) /\ d \in Nat /\ d + 1 \in 1 .. Len(chain) /\ e = chain[d + 1]
               /\ Number(c) = d + 1
  BY <1>1, InHand
<1> PICK o : o = e.order
  OBVIOUS
<1>3. ProgressInv(c)' /\ Done(c)' = Done(c) + 1 /\ CallbackInv(c)'
  BY <1>1, AdvanceProgress DEF ProgressInv
<1>4. TypeInv' /\ ChainInv' /\ TablesInv'
  BY <1>1, ObserveType DEF ChainInv, TablesInv, IsLast, EventsOf
<1>5. Len(trades) \in Nat
  BY <1>1, LenProperties DEF TypeInv, TypeOK
<1>6. \A i \in 1 .. Done(c) : Settled(i) => Settled(i)'
  BY <1>1, <1>5, DoneStaysSettled
<1>7. key \in RowsOf(o)' /\ offers'[key] = Row(e)
      /\ \E k \in 1 .. Len(trades') : SameTrade(trades'[k], TradeOf(key, d + 1))
  BY <1>1, <1>2 DEF CallbackInv, RowsOf, Duplicate
<1>8. Settled(d + 1)'
  BY <1>1, <1>2, <1>4, <1>7, WrittenIsSettled
<1> QED BY <1>1, <1>2, <1>3, <1>4, <1>6, <1>8, AdvanceHandled

\* A failed await drops the event, unless both its rows are written.
LEMMA FailKeeps ==
  ASSUME NEW c, Callbacks = {c}, IndInv(c), Fail(c)
  PROVE  IndInv(c)'
<1> USE DEF IndInv
<1> DEFINE e == Current(c)
           key == callback[c].offer
<1>1. /\ TypeInv /\ c \in Callbacks /\ up /\ callback[c].queue # <<>> /\ Advance(c)
      /\ key \in Nat
      /\ UNCHANGED <<chain, delivered, up, processedAt, offers, trades>>
  BY DEF Fail, AfterFailure, Advance, external, tables, TypeInv, TypeOK
<1>2. PICK d : /\ d = Done(c) /\ d \in Nat /\ d + 1 \in 1 .. Len(chain) /\ e = chain[d + 1]
               /\ Number(c) = d + 1
  BY <1>1, InHand
<1> PICK o : o = e.order
  OBVIOUS
<1>3. ProgressInv(c)' /\ Done(c)' = Done(c) + 1 /\ CallbackInv(c)'
  BY <1>1, AdvanceProgress DEF ProgressInv
<1>4. TypeInv' /\ ChainInv' /\ TablesInv'
  BY <1>1, FailType DEF ChainInv, TablesInv, IsLast, EventsOf
<1>5. Len(trades) \in Nat /\ dropped \subseteq dropped'
  BY <1>1, LenProperties DEF Fail, TypeInv, TypeOK
<1>6. \A i \in 1 .. Done(c) : Settled(i) => Settled(i)'
  BY <1>1, <1>5, DoneStaysSettled
<1>7. Settled(d + 1)'
  <2>1. CASE callback[c].at = "observe"
    <3>1. key \in RowsOf(o)' /\ offers'[key] = Row(e)
          /\ \E k \in 1 .. Len(trades') : SameTrade(trades'[k], TradeOf(key, d + 1))
      BY <1>1, <1>2, <2>1 DEF CallbackInv, RowsOf, Duplicate
    <3> QED BY <1>1, <1>2, <1>4, <3>1, WrittenIsSettled
  <2>2. CASE callback[c].at # "observe"
    BY <1>2, <2>2 DEF Fail, Settled
  <2> QED BY <2>1, <2>2
<1> QED BY <1>1, <1>2, <1>3, <1>4, <1>6, <1>7, AdvanceHandled

\* An order that had no row gets one only from an event after which it is still on
\* sale, and none of the earlier ones ended it.
LEMMA SaveOfferKeeps ==
  ASSUME NEW c, Callbacks = {c}, IndInv(c), SaveOffer(c)
  PROVE  IndInv(c)'
<1> USE DEF IndInv
<1> DEFINE found == callback[c].offer
<1>1. /\ TypeInv /\ c \in Callbacks /\ up /\ callback[c].queue # <<>>
      /\ callback[c].at = "save_offer" /\ found \in 0 .. Len(offers)
      /\ UNCHANGED <<chain, delivered, up, processedAt, trades, dropped>>
  BY DEF SaveOffer, At, external, bounds, TypeInv, TypeOK
<1>2. PICK d : /\ d = Done(c) /\ d \in Nat /\ d + 1 \in 1 .. Len(chain)
               /\ Current(c) = chain[d + 1] /\ chain[d + 1] \in Event
  BY <1>1, InHand
<1>3. PICK e : e = chain[d + 1] /\ e = Current(c) /\ e \in Event
  BY <1>2
<1>4. PICK o : o = e.order
  OBVIOUS
<1>5. PICK key : key = IF found = 0 THEN Len(offers) + 1 ELSE found
  OBVIOUS
<1>6. Len(offers) \in Nat /\ Len(trades) \in Nat /\ Len(chain) \in Nat /\ offers \in Seq(Offer)
  BY <1>1, LenProperties DEF TypeInv, TypeOK
<1>7. Row(e) \in Offer /\ Row(e).order = o
  BY <1>3, <1>4, RowType
<1>8. IF found = 0 THEN RowsOf(o) = {} ELSE found \in RowsOf(o)
  BY <1>1, <1>3, <1>4 DEF CallbackInv
\* The rows afterwards: the same, but for the one at key.
<1>9. /\ Len(offers') \in Nat /\ key \in 1 .. Len(offers') /\ offers'[key] = Row(e)
      /\ \A k \in 1 .. Len(offers') : k # key => k \in 1 .. Len(offers) /\ offers'[k] = offers[k]
      /\ \A k \in 1 .. Len(offers) : k \in 1 .. Len(offers')
                                     /\ (k = key => offers[k].order = o)
      /\ \A k \in RowsOf(o) : k = key
  <2>1. CASE found = 0
    <3>1. offers' = Append(offers, Row(e)) /\ key = Len(offers) + 1
      BY <1>3, <1>5, <2>1 DEF SaveOffer
    <3>2. /\ Len(offers') = Len(offers) + 1 /\ offers'[key] = Row(e)
          /\ \A k \in 1 .. Len(offers) : offers'[k] = offers[k]
      BY <1>6, <1>7, <3>1, AppendProperties
    <3> QED BY <1>6, <1>8, <2>1, <3>1, <3>2
  <2>2. CASE found # 0
    <3>1. offers' = [offers EXCEPT ![found] = Row(e)] /\ key = found
          /\ found \in 1 .. Len(offers)
      BY <1>1, <1>3, <1>5, <2>2 DEF SaveOffer
    <3>2. /\ Len(offers') = Len(offers) /\ offers'[key] = Row(e)
          /\ \A k \in 1 .. Len(offers) : k # key => offers'[k] = offers[k]
      BY <1>6, <1>7, <3>1, ExceptSeq
    <3>3. \A k \in RowsOf(o) : k = key /\ offers[key].order = o
      BY <1>8, <2>2, <3>1 DEF TablesInv, RowsOf
    <3>4. offers[key].order = o
      BY <1>8, <2>2, <3>1 DEF RowsOf
    <3> QED BY <1>6, <3>1, <3>2, <3>3, <3>4
  <2> QED BY <2>1, <2>2
<1>10. RowsOf(o)' = {key}
  <2>1. ASSUME NEW k \in 1 .. Len(offers'), offers'[k].order = o PROVE k = key
    BY <1>9, <2>1 DEF RowsOf
  <2> QED BY <1>7, <1>9, <2>1 DEF RowsOf
<1>11. ASSUME NEW p, p # o
       PROVE  RowsOf(p)' = RowsOf(p) /\ \A k \in RowsOf(p) : offers'[k] = offers[k]
  BY <1>7, <1>9, <1>11 DEF RowsOf
<1>12. TypeInv' /\ ChainInv'
  BY <1>1, SaveOfferType DEF ChainInv, IsLast, EventsOf
<1>13. TablesInv'
  <2>1. ASSUME NEW j \in 1 .. Len(offers'), NEW k \in 1 .. Len(offers'),
               offers'[j].order = offers'[k].order
        PROVE  j = k
    <3>1. CASE offers'[j].order = o
      <4>1. j \in RowsOf(o)' /\ k \in RowsOf(o)'
        BY <2>1, <3>1 DEF RowsOf
      <4> QED BY <1>10, <4>1
    <3>2. CASE offers'[j].order # o
      <4>1. j # key /\ k # key
        BY <1>7, <1>9, <2>1, <3>2
      <4>2. j \in 1 .. Len(offers) /\ k \in 1 .. Len(offers)
            /\ offers[j].order = offers[k].order
        BY <1>9, <2>1, <4>1
      <4> QED BY <4>2 DEF TablesInv
    <3> QED BY <3>1, <3>2
  <2> QED BY <1>1, <2>1 DEF TablesInv
<1>14. ASSUME NEW i \in 1 .. Done(c), Settled(i) PROVE Settled(i)'
  <2>1. i \in 1 .. Len(chain) /\ i <= d
    BY <1>2, <1>6
  <2>2. CASE chain[i].order # o
    <3>1. InOffers(i) => InOffers(i)'
      BY <1>1, <1>11, <2>2 DEF InOffers, EventsOf
    <3>2. InTrades(i) => InTrades(i)'
      BY <1>1, <1>11, <2>2 DEF InTrades, Recorded, Duplicate, TradeOf, TypeOf, Ends
    <3> QED BY <1>1, <1>11, <1>14, <2>2, <3>1, <3>2 DEF Settled, Reflected, EventsOf, Ends
  <2>3. CASE chain[i].order = o /\ Reflected(i)
    <3>1. InOffers(i)'
      <4>1. d + 1 \in EventsOf(o)' /\ d + 1 >= i
        BY <1>1, <1>2, <1>3, <1>4, <2>1 DEF EventsOf
      <4>2. Shows(offers'[key], chain'[d + 1])
        BY <1>1, <1>2, <1>3, <1>9, RowShows
      <4> QED BY <1>1, <1>10, <2>3, <4>1, <4>2 DEF InOffers, Shows
    <3>2. InTrades(i)'
      <4>1. CASE RowsOf(o) = {}
        <5>1. ~Recorded(chain[i])
          BY <2>3, <4>1 DEF Reflected, InTrades
        <5> QED BY <1>1, <5>1 DEF InTrades, Recorded
      <4>2. CASE RowsOf(o) # {}
        <5>1. RowsOf(o)' = RowsOf(o)
          BY <1>9, <1>10, <4>2
        <5> QED BY <1>1, <2>3, <5>1
                DEF Reflected, InTrades, Recorded, Duplicate, TradeOf, TypeOf, Ends
      <4> QED BY <4>1, <4>2
    <3> QED BY <3>1, <3>2 DEF Settled, Reflected
  <2>4. CASE i \in dropped
    BY <1>1, <2>4 DEF Settled
  <2>5. ~(chain[i].order = o /\ Ends(chain[i]))
    <3>1. d + 1 \in EventsOf(o)
      BY <1>2, <1>3, <1>4 DEF EventsOf
    <3>2. d \in Nat /\ i \in Nat
      BY <1>2
    <3> QED BY <2>1, <3>1, <3>2 DEF ChainInv, IsLast
  <2> QED BY <1>14, <2>2, <2>3, <2>4, <2>5 DEF Settled
<1>15. CASE Recorded(e)
  <2>1. GoesOn(c, "find_event", key) /\ "find_event" \in Steps /\ key \in Nat
    BY <1>1, <1>3, <1>5, <1>9, <1>15, GotoFields DEF SaveOffer, Steps
  <2>2. ProgressInv(c)' /\ Done(c)' = Done(c)
    BY <1>1, <2>1, GotoProgress DEF ProgressInv
  <2>3. /\ callback'[c].queue = callback[c].queue /\ callback'[c].at = "find_event"
        /\ callback'[c].offer = key
    BY <2>1 DEF GoesOn
  <2>4. Current(c)' = e
    BY <1>1, <1>3, <2>3 DEF Current, Number
  <2>5. CallbackInv(c)'
    BY <1>1, <1>4, <1>9, <1>10, <1>15, <2>3, <2>4 DEF CallbackInv
  <2> QED BY <1>1, <1>12, <1>13, <1>14, <2>2, <2>5, GotoHandled
<1>16. CASE ~Recorded(e)
  <2>1. Advance(c)
    BY <1>3, <1>16 DEF SaveOffer
  <2>2. ProgressInv(c)' /\ Done(c)' = Done(c) + 1 /\ CallbackInv(c)'
    BY <1>1, <2>1, AdvanceProgress DEF ProgressInv
  <2>3. Settled(d + 1)'
    <3>1. key \in RowsOf(o)' /\ key \in Nat
      BY <1>9, <1>10
    <3> QED BY <1>1, <1>2, <1>3, <1>4, <1>9, <1>12, <1>13, <1>16, <3>1, WrittenIsSettled
  <2> QED BY <1>1, <1>2, <1>12, <1>13, <1>14, <2>2, <2>3, AdvanceHandled
<1> QED BY <1>15, <1>16

\* A batch takes the events after the last one delivered, all done with by then.
LEMMA DeliverKeeps ==
  ASSUME NEW c, Callbacks = {c}, IndInv(c), NEW n \in 1 .. MaxEvents, Deliver(c, n)
  PROVE  IndInv(c)'
<1> USE DEF IndInv
<1> DEFINE q == [k \in 1 .. n |-> delivered + k]
<1>1. /\ TypeInv /\ c \in Callbacks /\ up /\ callback[c].queue = <<>> /\ n \in Nat
      /\ delivered \in Nat /\ delivered' = delivered + n
      /\ UNCHANGED <<chain, up, processedAt, offers, trades, dropped>>
  <2>1. TypeInv /\ c \in Callbacks /\ n \in Nat /\ delivered \in Nat
    BY EventInputs DEF TypeInv, TypeOK
  <2> HIDE DEF IndInv
  <2> QED BY <2>1 DEF Deliver, tables, bounds
<1>2. TypeInv' /\ ChainInv' /\ TablesInv'
  BY <1>1, DeliverType DEF ChainInv, TablesInv, IsLast, EventsOf
<1>3. callback'[c].queue = q /\ callback'[c].at = callback[c].at
  <2> DEFINE t == callback[c]
             t1 == [t EXCEPT !.queue = q]
  <2>1. t \in Task
    BY <1>1 DEF TypeInv, CallbackType
  <2> HIDE DEF q
  <2>2. t1.queue = q /\ t1.at = t.at
    BY <2>1 DEF Task
  <2>3. callback' = [callback EXCEPT ![c] = t1]
    BY <1>1 DEF Deliver, TypeInv, CallbackType, q
  <2>4. callback'[c] = t1
    BY <1>1, <2>3 DEF TypeInv, CallbackType
  <2> QED BY <2>2, <2>4
<1>4. Len(q) = n /\ \A k \in 1 .. n : q[k] = delivered + k
  BY <1>1
<1> HIDE DEF q
<1>5. Done(c) = delivered /\ Done(c)' = delivered
  BY <1>1, <1>3, <1>4 DEF Done
<1>6. ProgressInv(c)'
  BY <1>1, <1>3, <1>4, <1>5 DEF ProgressInv, HeadBlock
<1>7. callback[c].at = "save_block"
  BY <1>1 DEF CallbackInv
<1>8. CallbackInv(c)'
  BY <1>3, <1>7 DEF CallbackInv
<1>9. Len(trades) \in Nat
  BY <1>1, LenProperties DEF TypeInv, TypeOK
<1>10. \A i \in 1 .. Done(c) : Settled(i) => Settled(i)'
  BY <1>1, <1>9, DoneStaysSettled
<1>11. Done(c)' = Done(c)
  BY <1>5
<1> QED BY <1>1, <1>2, <1>6, <1>8, <1>10, <1>11, GotoHandled

\* The contract's next event is behind all that is delivered, and in no lower block.
LEMMA ContractKeeps ==
  ASSUME NEW c, Callbacks = {c}, IndInv(c), Contract
  PROVE  IndInv(c)'
<1> USE DEF IndInv
<1>1. PICK e \in Event : Emit(e) /\ Follows(e)
  BY ContractEmits
<1>2. /\ TypeInv /\ c \in Callbacks
      /\ UNCHANGED <<delivered, up, callback, processedAt, offers, trades, dropped>>
  BY <1>1 DEF Emit, tables, bounds
<1>3. /\ Len(chain) \in Nat /\ Len(chain') = Len(chain) + 1
      /\ \A i \in 1 .. Len(chain) : chain'[i] = chain[i]
      /\ chain'[Len(chain')] = e
  BY <1>1, EmitFacts
<1>4. TypeInv' /\ ChainInv' /\ TablesInv'
  BY <1>1, <1>2, EmitType, EmitKeepsChain DEF TablesInv
<1>5. /\ e.block >= HeadBlock /\ HeadBlock \in Nat /\ e.block \in Nat
      /\ processedAt \in Nat /\ processedAt <= HeadBlock
  <2>1. HeadBlock \in Nat /\ e.block \in Nat /\ e.block \in HeadBlock .. HeadBlock + 1
    BY <1>1, ChainType DEF Emit, Event
  <2>2. processedAt \in Nat /\ processedAt <= HeadBlock
    BY DEF ProgressInv, TypeInv, TypeOK
  <2> QED BY <2>1, <2>2
<1>6. Done(c)' = Done(c) /\ Done(c) \in Nat /\ Done(c) <= Len(chain)
  BY <1>2, DoneType DEF Done
<1>7. ProgressInv(c)'
  <2>1. HeadBlock' = e.block
    <3>1. chain' # <<>>
      BY <1>3, EmptySeq
    <3> QED BY <1>3, <3>1 DEF HeadBlock
  <2>2. ASSUME NEW i \in 1 .. Len(chain'), i > Done(c)
        PROVE  processedAt <= chain'[i].block
    <3>1. CASE i = Len(chain')
      BY <1>3, <1>5, <3>1
    <3>2. CASE i \in 1 .. Len(chain)
      BY <1>3, <2>2, <3>2 DEF ProgressInv
    <3> QED BY <1>3, <3>1, <3>2
  <2>3. processedAt <= HeadBlock'
    BY <1>5, <2>1
  <2> QED BY <1>2, <1>6, <2>2, <2>3 DEF ProgressInv
<1>8. CallbackInv(c)'
  <2>1. CASE callback[c].queue = <<>>
    BY <1>2, <2>1 DEF CallbackInv
  <2>2. CASE callback[c].queue # <<>>
    <3>1. Current(c)' = Current(c) /\ Number(c)' = Number(c) /\ chain'[Number(c)] = chain[Number(c)]
      BY <1>2, <1>3, <2>2, CurrentType DEF Current, Number
    <3> QED BY <1>2, <3>1
            DEF CallbackInv, RowsOf, Duplicate, SameTrade, TradeOf, TypeOf, Ends, Recorded, Row, StatusOf
  <2> QED BY <2>1, <2>2
<1>9. HandledInv(c)'
  <2>1. Len(trades) \in Nat
    BY LenProperties DEF TypeInv, TypeOK
  <2>2. ASSUME NEW i \in 1 .. Len(chain'), i <= Done(c), up \/ chain'[i].block < processedAt
        PROVE  Settled(i)'
    <3>1. i \in 1 .. Len(chain)
      BY <1>3, <1>6, <2>2
    <3>2. Settled(i)
      BY <1>3, <2>2, <3>1 DEF HandledInv
    <3> QED BY <1>2, <1>3, <2>1, <3>1, <3>2, SettledStays
  <2> QED BY <1>2, <1>6, <2>2 DEF HandledInv
<1> QED BY <1>4, <1>7, <1>8, <1>9

\* A crash in the middle of a block leaves events of it to be done again, but none
\* of a block below.
LEMMA CrashKeeps ==
  ASSUME NEW c, Callbacks = {c}, IndInv(c), Crash
  PROVE  IndInv(c)'
<1> USE DEF IndInv
<1>1. /\ TypeInv /\ c \in Callbacks /\ up /\ up' = FALSE /\ callback'[c] = Idle
      /\ UNCHANGED <<chain, delivered, processedAt, offers, trades, dropped>>
  BY DEF Crash, external, tables
<1>2. TypeInv' /\ ChainInv' /\ TablesInv'
  BY <1>1, CrashType DEF ChainInv, TablesInv, IsLast, EventsOf
<1>3. callback'[c].queue = <<>> /\ callback'[c].at = "save_block" /\ Len(<<>>) = 0
  BY <1>1, EmptySeq DEF Idle
<1>4. /\ Done(c) \in Nat /\ Done(c) <= Len(chain) /\ Len(chain) \in Nat /\ delivered \in Nat
      /\ Len(callback[c].queue) \in Nat
  <2>1. callback[c].queue \in Seq(Nat)
    BY <1>1 DEF TypeInv, CallbackType, Task
  <2> QED BY <1>1, <2>1, DoneType, ChainType, LenProperties DEF TypeInv, TypeOK
<1>5. Done(c)' = delivered /\ Done(c) <= delivered
  BY <1>1, <1>3, <1>4 DEF Done
<1>6. ProgressInv(c)'
  <2>1. \A i \in 1 .. Len(chain) : i > delivered => i > Done(c)
    BY <1>4, <1>5
  <2> QED BY <1>1, <1>3, <1>4, <1>5, <2>1 DEF ProgressInv, HeadBlock
<1>7. CallbackInv(c)'
  BY <1>3 DEF CallbackInv
<1>8. HandledInv(c)'
  <2>1. ASSUME NEW i \in 1 .. Len(chain), chain[i].block < processedAt
        PROVE  Settled(i)'
    <3>1. chain[i].block \in Nat /\ processedAt \in Nat
      BY <1>1, ChainType DEF TypeInv, TypeOK
    <3>2. i <= Done(c)
      BY <1>4, <2>1, <3>1 DEF ProgressInv
    <3>3. Settled(i)
      BY <1>1, <3>2 DEF HandledInv
    <3>4. Len(trades) \in Nat
      BY LenProperties DEF TypeInv, TypeOK
    <3> QED BY <1>1, <1>4, <3>3, <3>4, SettledStays
  <2> QED BY <1>1, <2>1 DEF HandledInv
<1> QED BY <1>2, <1>6, <1>7, <1>8

\* The events that are not asked for again are those known to be settled.
LEMMA RestartKeeps ==
  ASSUME NEW c, Callbacks = {c}, IndInv(c), Restart
  PROVE  IndInv(c)'
<1> USE DEF IndInv
<1>1. /\ TypeInv /\ c \in Callbacks /\ ~up /\ up'
      /\ UNCHANGED <<chain, callback, processedAt, offers, trades, dropped>>
  BY DEF Restart, tables, bounds
<1>2. PICK n \in 0 .. Len(chain) :
        /\ \A i \in 1 .. Len(chain) : i <= n <=> chain[i].block < processedAt
        /\ delivered' = n
  BY DEF Restart, FromBlock
<1>3. TypeInv' /\ ChainInv' /\ TablesInv'
  BY <1>1, RestartType DEF ChainInv, TablesInv, IsLast, EventsOf
<1>4. callback[c].queue = <<>> /\ Len(<<>>) = 0
  BY <1>1, EmptySeq DEF ProgressInv
<1>5. Done(c)' = n /\ Len(chain) \in Nat /\ Done(c) \in Nat
  BY <1>1, <1>2, <1>4, ChainType, DoneType DEF Done
<1>6. \A i \in 1 .. Len(chain) : chain[i].block \in Nat /\ processedAt \in Nat
  BY <1>1, ChainType DEF TypeInv, TypeOK
<1>7. ProgressInv(c)'
  <2>1. \A i \in 1 .. Len(chain) : i > n => processedAt <= chain[i].block
    BY <1>2, <1>5, <1>6
  <2> QED BY <1>1, <1>2, <1>4, <1>5, <2>1 DEF ProgressInv, HeadBlock
<1>8. CallbackInv(c)'
  BY <1>1, <1>4 DEF CallbackInv
<1>9. HandledInv(c)'
  <2>1. ASSUME NEW i \in 1 .. Len(chain), i <= n
        PROVE  Settled(i)'
    <3>1. chain[i].block < processedAt
      BY <1>2, <2>1
    <3>2. i <= Done(c)
      BY <1>5, <1>6, <3>1 DEF ProgressInv
    <3>3. Settled(i)
      BY <3>1, <3>2 DEF HandledInv
    <3>4. Len(trades) \in Nat
      BY LenProperties DEF TypeInv, TypeOK
    <3> QED BY <1>1, <1>5, <3>3, <3>4, SettledStays
  <2> QED BY <1>1, <1>5, <2>1 DEF HandledInv
<1> QED BY <1>3, <1>7, <1>8, <1>9

\* Every step keeps the invariant, as long as there is but one callback.
LEMMA NextKeeps ==
  ASSUME NEW c, Callbacks = {c}, IndInv(c), [Next]_vars
  PROVE  IndInv(c)'
<1>1. CASE Receive
  BY <1>1, DeliverKeeps DEF Receive
<1>2. CASE \E d \in Callbacks : Handle(d) \/ Fail(d)
  BY <1>2, SaveBlockKeeps, FindOfferKeeps, SaveOfferKeeps, FindEventKeeps, CreateEventKeeps,
     ObserveKeeps, FailKeeps DEF Handle
<1>3. CASE UNCHANGED vars
  <2>1. TypeInv'
    BY <1>3, NextType DEF IndInv
  <2>2. ChainInv' /\ TablesInv'
    BY <1>3 DEF vars, external, tables, IndInv, ChainInv, TablesInv, IsLast, EventsOf
  <2>3. ProgressInv(c)' /\ CallbackInv(c)'
    BY <1>3 DEF vars, external, tables, IndInv, ProgressInv, CallbackInv, Done, HeadBlock,
       Current, Number, RowsOf, Duplicate, TradeOf, TypeOf, Ends
  <2>4. HandledInv(c)'
    BY <1>3 DEF vars, external, tables, bounds, IndInv, HandledInv, Done, Settled, Reflected,
       InOffers, InTrades, RowsOf, EventsOf, Duplicate, TradeOf, TypeOf, Ends
  <2> QED BY <2>1, <2>2, <2>3, <2>4 DEF IndInv
<1> QED BY <1>1, <1>2, <1>3, ContractKeeps, CrashKeeps, RestartKeeps DEF Next

LEMMA InitKeeps ==
  ASSUME NEW c, Callbacks = {c}, Init
  PROVE  IndInv(c)
<1>1. callback[c] = Idle /\ Len(<<>>) = 0 /\ Idle.queue = <<>> /\ Idle.at = "save_block"
  BY EmptySeq DEF Init, Idle
<1>2. Len(chain) = 0 /\ Len(offers) = 0 /\ Len(trades) = 0 /\ Done(c) = 0
  BY <1>1 DEF Init, Done
<1>3. ProgressInv(c)
  BY <1>1, <1>2 DEF Init, ProgressInv, HeadBlock
<1> QED BY <1>1, <1>2, <1>3, InitType DEF Init, IndInv, ChainInv, TablesInv, CallbackInv, HandledInv

-----------------------------------------------------------------------------
(* What the tables tell.                                                   *)

LEMMA OneCallbackInv ==
  ASSUME NEW c, Callbacks = {c}
  PROVE  Spec => []IndInv(c)
<1>1. Init => IndInv(c)
  BY InitKeeps
<1>2. IndInv(c) /\ [Next]_vars => IndInv(c)'
  BY NextKeeps
<1> QED BY <1>1, <1>2, PTL DEF Spec

\* A step that writes an offer writes it as the event in hand says.
LEMMA StepWritesRecent ==
  ASSUME NEW c, Callbacks = {c}, IndInv(c), Next
  PROVE  NewRowsAreRecent
<1>1. ASSUME UNCHANGED offers PROVE NewRowsAreRecent
  BY <1>1 DEF NewRowsAreRecent
<1>2. ASSUME SaveOffer(c) PROVE NewRowsAreRecent
  <2> DEFINE found == callback[c].offer
             e == Current(c)
  <2>1. /\ TypeInv /\ c \in Callbacks /\ callback[c].queue # <<>> /\ ProgressInv(c)
        /\ found \in 0 .. Len(offers) /\ Len(offers) \in Nat /\ offers \in Seq(Offer)
    BY <1>2, LenProperties DEF SaveOffer, At, IndInv, TypeInv, TypeOK
  <2>2. PICK d : /\ d = Done(c) /\ d \in Nat /\ d + 1 \in 1 .. Len(chain) /\ e = chain[d + 1]
    BY <2>1, InHand
  <2>3. chain[d + 1].block >= processedAt
    <3>1. chain[d + 1].block \in Nat /\ processedAt \in Nat
      BY <2>1, <2>2, ChainType DEF TypeInv, TypeOK
    <3> QED BY <2>1, <2>2, <3>1 DEF ProgressInv
  <2>4. Row(e) \in Offer
    BY <2>1, CurrentType, RowType
  <2>5. ASSUME NEW k \in 1 .. Len(offers'), k \notin 1 .. Len(offers) \/ offers'[k] # offers[k]
        PROVE  offers'[k] = Row(e)
    <3>1. CASE found = 0
      <4>1. offers' = Append(offers, Row(e))
        BY <1>2, <3>1 DEF SaveOffer
      <4> QED BY <2>1, <2>4, <2>5, <4>1, AppendProperties
    <3>2. CASE found # 0
      <4>1. offers' = [offers EXCEPT ![found] = Row(e)] /\ found \in 1 .. Len(offers)
        BY <1>2, <2>1, <3>2 DEF SaveOffer
      <4> QED BY <2>1, <2>4, <2>5, <4>1, ExceptSeq
    <3> QED BY <3>1, <3>2
  <2> QED BY <2>2, <2>3, <2>5 DEF NewRowsAreRecent
<1>3. ASSUME NEW d \in Callbacks, Handle(d) \/ Fail(d)
      PROVE  UNCHANGED offers \/ SaveOffer(c)
  BY <1>3 DEF Handle, SaveBlock, FindOffer, FindEvent, CreateEvent, Observe, Fail, tables
<1>4. Contract => UNCHANGED offers
  BY ContractEmits DEF Emit, tables, IndInv
<1>5. Receive \/ Crash \/ Restart => UNCHANGED offers
  BY DEF Receive, Deliver, Crash, Restart, tables
<1> QED BY <1>1, <1>2, <1>3, <1>4, <1>5 DEF Next

\* The block that a restart asks for leaves out no event that is still to be handled:
\* each event below it is in the tables, unless an await failed over it.
THEOREM RestartLosesNothing ==
  ASSUME NEW c, Callbacks = {c}
  PROVE  Spec => []NoEventIsLost
<1>1. ASSUME IndInv(c) PROVE NoEventIsLost
  <2>1. ASSUME NEW i \in 1 .. Len(chain), chain[i].block < processedAt
        PROVE  Settled(i)
    <3>1. chain[i].block \in Nat /\ processedAt \in Nat
      BY <1>1, ChainType DEF IndInv, TypeInv, TypeOK
    <3>2. Done(c) \in Nat
      BY <1>1, DoneType DEF IndInv
    <3> QED BY <1>1, <2>1, <3>1, <3>2 DEF IndInv, ProgressInv, HandledInv
  <2> QED BY <2>1 DEF NoEventIsLost, Settled, Dropped, EventsOf
<1>2. IndInv(c) => NoEventIsLost
  BY <1>1
<1> QED BY <1>2, OneCallbackInv, PTL

\* With no event left to handle, the offers and the trades are those of the contract,
\* up to the events over which an await failed.
THEOREM TablesMirror ==
  ASSUME NEW c, Callbacks = {c}
  PROVE  Spec => []CaughtUpMirrors
<1>1. ASSUME IndInv(c), CaughtUp PROVE MirrorsContract
  <2>1. Done(c) = Len(chain) /\ Len(chain) \in Nat
    BY <1>1, ChainType, EmptySeq DEF CaughtUp, Done, IndInv
  <2>2. \A i \in 1 .. Len(chain) : Settled(i)
    BY <1>1, <2>1 DEF CaughtUp, IndInv, HandledInv
  <2> QED BY <2>2 DEF MirrorsContract, Settled, Dropped, EventsOf
<1>2. IndInv(c) => CaughtUpMirrors
  BY <1>1 DEF CaughtUpMirrors
<1> QED BY <1>2, OneCallbackInv, PTL

\* No offer is ever written from an event of a block below the one recorded.
THEOREM RowsStayRecent ==
  ASSUME NEW c, Callbacks = {c}
  PROVE  Spec => RowsFollowTheChain
<1>1. IndInv(c) /\ [Next]_vars => [NewRowsAreRecent]_vars
  BY StepWritesRecent
<1> QED BY <1>1, OneCallbackInv, PTL DEF Spec, RowsFollowTheChain
-----------------------------------------------------------------------------
(* How often an event is recorded, by any number of callbacks.             *)

RowsOfEvent(i) == {k \in 1 .. Len(trades) : trades[k].of = i}

\* The event may still be recorded since the last start.
AtHand(c, i) ==
  \E k \in 1 .. Len(callback[c].queue) :
    callback[c].queue[k] = i /\ (k > 1 \/ callback[c].at # "observe")
Pending(i) == ~up \/ i > delivered \/ \E c \in Callbacks : AtHand(c, i)

\* No two places of the queues hold the same event.
Disjoint ==
  \A c, d \in Callbacks :
    \A k \in 1 .. Len(callback[c].queue), l \in 1 .. Len(callback[d].queue) :
      callback[c].queue[k] = callback[d].queue[l] => c = d /\ k = l
QueueInv ==
  /\ ~up => \A c \in Callbacks : callback[c].queue = <<>>
  /\ \A c \in Callbacks : \A k \in 1 .. Len(callback[c].queue) : callback[c].queue[k] <= delivered
  /\ Disjoint

CountOf(i) ==
  Cardinality(RowsOfEvent(i)) <= IF Pending(i) THEN crashes ELSE crashes + 1

OnceInv == TypeInv /\ QueueInv /\ \A i \in Nat : CountOf(i)

LEMMA RowsAreFinite ==
  ASSUME TypeInv, NEW i
  PROVE  /\ IsFiniteSet(RowsOfEvent(i)) /\ Cardinality(RowsOfEvent(i)) \in Nat
         /\ crashes \in Nat /\ delivered \in Nat /\ Len(trades) \in Nat
<1>1. Len(trades) \in Nat
  BY LenProperties DEF TypeInv, TypeOK
<1>2. IsFiniteSet(1 .. Len(trades))
  BY <1>1, FS_Interval
<1>3. RowsOfEvent(i) \subseteq 1 .. Len(trades)
  BY DEF RowsOfEvent
<1>4. IsFiniteSet(RowsOfEvent(i))
  BY <1>2, <1>3, FS_Subset
<1> QED BY <1>1, <1>4, FS_CardinalityType, EventInputs DEF TypeInv, TypeOK

LEMMA QueueType ==
  ASSUME TypeInv, NEW c \in Callbacks
  PROVE  /\ callback[c].queue \in Seq(Nat) /\ Len(callback[c].queue) \in Nat
         /\ callback[c].queue # <<>> =>
              /\ Len(callback[c].queue) \in Nat \ {0} /\ Number(c) = callback[c].queue[1]
              /\ Len(Tail(callback[c].queue)) = Len(callback[c].queue) - 1
              /\ \A k \in 1 .. Len(callback[c].queue) - 1 :
                   Tail(callback[c].queue)[k] = callback[c].queue[k + 1]
<1>1. callback[c].queue \in Seq(Nat) /\ Len(callback[c].queue) \in Nat
  BY LenProperties DEF TypeInv, CallbackType, Task
<1>2. ASSUME callback[c].queue # <<>>
      PROVE  /\ Len(callback[c].queue) \in Nat \ {0} /\ Number(c) = callback[c].queue[1]
             /\ Len(Tail(callback[c].queue)) = Len(callback[c].queue) - 1
             /\ \A k \in 1 .. Len(callback[c].queue) - 1 :
                  Tail(callback[c].queue)[k] = callback[c].queue[k + 1]
  BY <1>1, <1>2, EmptySeq, HeadTailProperties DEF Number
<1> QED BY <1>1, <1>2

\* A step of the callback c with its first event: it goes on with it, or to the next.
Works(c) ==
  /\ up /\ callback[c].queue # <<>> /\ UNCHANGED <<up, delivered, crashes>>
  /\ \A d \in Callbacks \ {c} : callback'[d] = callback[d]
  /\ \/ callback'[c].queue = callback[c].queue /\ callback[c].at # "observe"
     \/ callback'[c].queue = Tail(callback[c].queue)
\* After it the first event will not be recorded any more.
Leaves(c) == callback'[c].queue = Tail(callback[c].queue) \/ callback'[c].at = "observe"

LEMMA WorkKeepsQueues ==
  ASSUME OnceInv, NEW c \in Callbacks, Works(c), TypeInv'
  PROVE  /\ QueueInv' /\ \A i \in Nat : Pending(i)' => Pending(i)
         /\ \A i : i = Number(c) /\ Leaves(c) => ~Pending(i)'
<1> PICK q : q = callback[c].queue
  OBVIOUS
<1> PICK first : first = q[1]
  OBVIOUS
<1>1. /\ TypeInv /\ QueueInv /\ q = callback[c].queue /\ first = q[1] /\ q \in Seq(Nat) /\ Len(q) \in Nat \ {0} /\ Number(c) = q[1]
      /\ Len(Tail(q)) = Len(q) - 1 /\ \A k \in 1 .. Len(q) - 1 : Tail(q)[k] = q[k + 1]
  BY QueueType DEF OnceInv, Works
<1>a. delivered \in Nat /\ first \in Nat /\ first <= delivered /\ 1 \in 1 .. Len(q)
  <2>1. delivered \in Nat
    BY <1>1, RowsAreFinite
  <2>2. 1 \in 1 .. Len(q) /\ q[1] \in Nat
    BY <1>1
  <2>3. q[1] <= delivered
    BY <1>1, <2>2 DEF QueueInv
  <2> QED BY <1>1, <2>1, <2>2, <2>3
<1>2. CASE callback'[c].queue = callback[c].queue /\ callback[c].at # "observe"
  <2>1. \A d \in Callbacks : callback'[d].queue = callback[d].queue
    BY <1>2 DEF Works
  <2>2. QueueInv'
    <3>1. \A d \in Callbacks : callback'[d].queue = callback[d].queue
            /\ Len(callback'[d].queue) = Len(callback[d].queue)
      BY <2>1
    <3>2. ASSUME NEW d \in Callbacks, NEW e \in Callbacks,
                 NEW k \in 1 .. Len(callback'[d].queue), NEW l \in 1 .. Len(callback'[e].queue),
                 callback'[d].queue[k] = callback'[e].queue[l]
          PROVE  d = e /\ k = l
      <4>1. /\ k \in 1 .. Len(callback[d].queue) /\ l \in 1 .. Len(callback[e].queue)
            /\ callback[d].queue[k] = callback[e].queue[l]
        BY <3>1, <3>2
      <4> QED BY <1>1, <4>1 DEF QueueInv, Disjoint
    <3>3. ASSUME NEW d \in Callbacks, NEW k \in 1 .. Len(callback'[d].queue)
          PROVE  callback'[d].queue[k] <= delivered
      BY <1>1, <3>1, <3>3 DEF QueueInv
    <3> QED BY <3>2, <3>3 DEF QueueInv, Disjoint, Works
  <2>3. ASSUME NEW i \in Nat, NEW d \in Callbacks, AtHand(d, i)' PROVE AtHand(d, i)
    BY <1>2, <2>1, <2>3 DEF AtHand, Works
  <2>4. ASSUME callback'[c].at = "observe" PROVE ~Pending(first)'
    <3>2. ASSUME NEW d \in Callbacks PROVE ~AtHand(d, first)'
      <4>1. ASSUME NEW l \in 1 .. Len(callback[d].queue), callback[d].queue[l] = first
            PROVE  d = c /\ l = 1
        BY <1>1, <1>a, <4>1 DEF QueueInv, Disjoint
      <4>2. ASSUME NEW l \in 1 .. Len(callback'[d].queue), callback'[d].queue[l] = first
            PROVE  ~(l > 1 \/ callback'[d].at # "observe")
        <5>1. l \in 1 .. Len(callback[d].queue) /\ callback[d].queue[l] = first
          BY <2>1, <4>2
        <5>2. d = c /\ l = 1
          BY <4>1, <5>1
        <5> QED BY <2>4, <5>2
      <4> QED BY <4>2 DEF AtHand
    <3> QED BY <1>a, <3>2 DEF Pending, Works
  <2>5. \A i : i = Number(c) /\ Leaves(c) => ~Pending(i)'
    <3>1. callback'[c].queue # Tail(callback[c].queue)
      <4>1. Len(q) # Len(Tail(q))
        BY <1>1
      <4> QED BY <1>1, <1>2, <4>1
    <3> QED BY <1>1, <2>4, <3>1 DEF Leaves
  <2> QED BY <2>2, <2>3, <2>5 DEF Pending, Works
<1>3. CASE callback'[c].queue = Tail(callback[c].queue)
  <2>1. /\ callback'[c].queue = Tail(q) /\ Len(callback'[c].queue) = Len(q) - 1
        /\ \A k \in 1 .. Len(q) - 1 :
             k + 1 \in 1 .. Len(q) /\ k + 1 > 1 /\ callback'[c].queue[k] = q[k + 1]
    BY <1>1, <1>3
  <2>2. \A d \in Callbacks \ {c} : callback'[d] = callback[d]
    BY DEF Works
\* Every place afterwards is one that was, and not the first of c.
  <2>3. ASSUME NEW d \in Callbacks, NEW k \in 1 .. Len(callback'[d].queue)
        PROVE  \E l \in 1 .. Len(callback[d].queue) :
                 /\ callback'[d].queue[k] = callback[d].queue[l]
                 /\ IF d = c THEN l = k + 1 ELSE l = k
    <3>1. CASE d = c
      <4>1. k \in 1 .. Len(q) - 1
        BY <2>1, <3>1
      <4> QED BY <2>1, <3>1, <4>1
    <3>2. CASE d # c
      BY <2>2, <3>2
    <3> QED BY <3>1, <3>2
  <2>4. QueueInv'
    <3>1. ASSUME NEW d \in Callbacks, NEW k \in 1 .. Len(callback'[d].queue)
          PROVE  callback'[d].queue[k] <= delivered
      BY <1>1, <2>3 DEF QueueInv
    <3>2. ASSUME NEW d \in Callbacks, NEW e \in Callbacks,
                 NEW k \in 1 .. Len(callback'[d].queue), NEW l \in 1 .. Len(callback'[e].queue),
                 callback'[d].queue[k] = callback'[e].queue[l]
          PROVE  d = e /\ k = l
      <4>1. PICK m \in 1 .. Len(callback[d].queue) :
              callback'[d].queue[k] = callback[d].queue[m] /\ IF d = c THEN m = k + 1 ELSE m = k
        BY <2>3
      <4>2. PICK n \in 1 .. Len(callback[e].queue) :
              callback'[e].queue[l] = callback[e].queue[n] /\ IF e = c THEN n = l + 1 ELSE n = l
        BY <2>3
      <4>3. d = e /\ m = n
        <5>1. callback[d].queue[m] = callback[e].queue[n]
          BY <3>2, <4>1, <4>2
        <5> QED BY <1>1, <5>1 DEF QueueInv, Disjoint
      <4> QED BY <4>1, <4>2, <4>3
    <3> QED BY <3>1, <3>2 DEF QueueInv, Disjoint, Works
  <2>5. ASSUME NEW i \in Nat, NEW d \in Callbacks, AtHand(d, i)'
        PROVE  AtHand(d, i) /\ i # first
    <3>1. PICK k \in 1 .. Len(callback'[d].queue) :
            callback'[d].queue[k] = i /\ (k > 1 \/ callback'[d].at # "observe")
      BY <2>5 DEF AtHand
    <3>2. PICK l \in 1 .. Len(callback[d].queue) :
            callback'[d].queue[k] = callback[d].queue[l] /\ IF d = c THEN l = k + 1 ELSE l = k
      BY <2>3
    <3>3. AtHand(d, i)
      <4>1. CASE d = c
        <5>1. l > 1
          BY <3>2, <4>1
        <5> QED BY <3>1, <3>2, <5>1 DEF AtHand
      <4>2. CASE d # c
        BY <2>2, <3>1, <3>2, <4>2 DEF AtHand
      <4> QED BY <4>1, <4>2
    <3>4. ASSUME i = first PROVE FALSE
      <4>1. 1 \in 1 .. Len(callback[c].queue) /\ callback[c].queue[1] = callback[d].queue[l]
        BY <1>1, <1>a, <3>1, <3>2, <3>4
      <4>2. c = d /\ 1 = l
        BY <1>1, <4>1 DEF QueueInv, Disjoint
      <4> QED BY <3>2, <4>2
    <3> QED BY <3>3, <3>4
  <2>6. ~Pending(first)'
    BY <1>1, <1>a, <2>5 DEF Pending, Works
  <2> QED BY <1>1, <2>4, <2>5, <2>6 DEF Pending, Works
<1> QED BY <1>2, <1>3 DEF Works

LEMMA WorkCounts ==
  ASSUME OnceInv, NEW c \in Callbacks, Works(c), TypeInv', UNCHANGED trades
  PROVE  OnceInv'
<1>1. QueueInv' /\ \A i \in Nat : Pending(i)' => Pending(i)
  BY WorkKeepsQueues
<1>2. ASSUME NEW i \in Nat PROVE CountOf(i)'
  <2>1. RowsOfEvent(i)' = RowsOfEvent(i) /\ crashes' = crashes
    BY DEF RowsOfEvent, Works
  <2>2. Cardinality(RowsOfEvent(i)) \in Nat /\ crashes \in Nat /\ CountOf(i)
    BY RowsAreFinite DEF OnceInv
  <2> QED BY <1>1, <2>1, <2>2 DEF CountOf
<1> QED BY <1>1, <1>2 DEF OnceInv

\* The step that writes a row of an event is the last one that may.
LEMMA RecordCounts ==
  ASSUME OnceInv, NEW c \in Callbacks, Works(c), Leaves(c), CreateEvent(c), TypeInv'
  PROVE  OnceInv'
<1> PICK n : n = Number(c)
  OBVIOUS
<1>1. QueueInv' /\ (\A i \in Nat : Pending(i)' => Pending(i)) /\ ~Pending(n)'
  BY WorkKeepsQueues
<1>2. /\ Len(trades) \in Nat /\ Len(trades') = Len(trades) + 1 /\ trades'[Len(trades) + 1].of = n
      /\ \A k \in 1 .. Len(trades) : trades'[k] = trades[k]
  <2>1. /\ n \in 1 .. Len(chain) /\ chain[n] \in Event /\ n \in Nat \ {0}
        /\ callback[c].offer \in Nat \ {0}
    <3>1. TypeInv /\ callback[c].queue # <<>> /\ callback[c].at = "create_event"
      BY DEF OnceInv, CreateEvent, At
    <3>2. n \in 1 .. Len(chain) /\ Current(c) \in Event /\ Current(c) = chain[n]
      BY <3>1, CurrentType DEF Current
    <3>3. n \in Nat \ {0}
      BY <3>2
    <3>4. Len(offers) \in Nat /\ callback[c].offer \in 0 .. Len(offers) /\ callback[c].offer # 0
      BY <3>1, LenProperties DEF TypeInv, TypeOK
    <3>5. callback[c].offer \in Nat \ {0}
      BY <3>4
    <3> QED BY <3>2, <3>3, <3>5
  <2>2. TradeOf(callback[c].offer, n) \in Trade /\ trades \in Seq(Trade)
    BY <2>1, TradeType DEF OnceInv, TypeInv, TypeOK
  <2>3. trades' = Append(trades, TradeOf(callback[c].offer, n))
    BY DEF CreateEvent
  <2>4. TradeOf(callback[c].offer, n).of = n
    BY DEF TradeOf
  <2> QED BY <2>2, <2>3, <2>4, AppendProperties, LenProperties
<1>3. crashes' = crashes /\ crashes \in Nat
  BY RowsAreFinite DEF Works, OnceInv
<1>4. ASSUME NEW i \in Nat, i # n PROVE CountOf(i)'
  <2>1. RowsOfEvent(i)' = RowsOfEvent(i)
    BY <1>2, <1>4 DEF RowsOfEvent
  <2>2. Cardinality(RowsOfEvent(i)) \in Nat /\ CountOf(i)
    BY RowsAreFinite DEF OnceInv
  <2> QED BY <1>1, <1>3, <2>1, <2>2 DEF CountOf
<1>5. ASSUME n \in Nat PROVE CountOf(n)'
  <2> PICK S : S = RowsOfEvent(n)
    OBVIOUS
  <2>1. AtHand(c, n)
    <3>1. Len(callback[c].queue) \in Nat \ {0} /\ n = callback[c].queue[1]
      BY QueueType DEF OnceInv, Works
    <3> QED BY <3>1 DEF AtHand, CreateEvent, At
  <2>2. IsFiniteSet(S) /\ Cardinality(S) \in Nat /\ Cardinality(S) <= crashes
    BY <1>5, <2>1, RowsAreFinite DEF OnceInv, CountOf, Pending
  <2>3. RowsOfEvent(n)' = S \cup {Len(trades) + 1}
    BY <1>2 DEF RowsOfEvent
  <2>4. Cardinality(S \cup {Len(trades) + 1}) <= Cardinality(S) + 1
        /\ Cardinality(S \cup {Len(trades) + 1}) \in Nat
    <3> PICK m : m = Len(trades) + 1
      OBVIOUS
    <3>1. \/ Cardinality(S \cup {m}) = Cardinality(S)
          \/ Cardinality(S \cup {m}) = Cardinality(S) + 1
      BY <2>2, FS_AddElement
    <3>2. S \cup {m} = S \cup {Len(trades) + 1}
      OBVIOUS
    <3> QED BY <2>2, <3>1, <3>2
  <2> QED BY <1>1, <1>3, <2>2, <2>3, <2>4 DEF CountOf
<1>6. \A i \in Nat : CountOf(i)'
  <2>1. ASSUME NEW i \in Nat PROVE CountOf(i)'
    BY <1>4, <1>5
  <2> QED BY <2>1
<1> QED BY <1>1, <1>6 DEF OnceInv

LEMMA GoesOnWorks ==
  ASSUME NEW c \in Callbacks, NEW s, NEW key, GoesOn(c, s, key), up, callback[c].queue # <<>>,
         callback[c].at # "observe", UNCHANGED <<up, delivered, crashes>>
  PROVE  Works(c) /\ (s = "observe" => Leaves(c))
BY DEF GoesOn, Works, Leaves

LEMMA AdvanceWorks ==
  ASSUME TypeInv, NEW c \in Callbacks, Advance(c), up, callback[c].queue # <<>>,
         UNCHANGED <<up, delivered, crashes>>
  PROVE  Works(c) /\ Leaves(c)
BY AdvanceFields DEF TypeInv, Works, Leaves

LEMMA HandleWorks ==
  ASSUME TypeInv, NEW c \in Callbacks, Handle(c) \/ Fail(c)
  PROVE  Works(c) /\ (UNCHANGED trades \/ (CreateEvent(c) /\ Leaves(c)))
<1>1. /\ up /\ callback[c].queue # <<>> /\ UNCHANGED <<up, delivered, crashes>>
      /\ UNCHANGED trades \/ CreateEvent(c)
  BY DEF Handle, SaveBlock, FindOffer, SaveOffer, FindEvent, CreateEvent, Observe, Fail, At,
         external, tables, bounds
<1>2. ASSUME NEW s \in Steps, NEW key \in Nat, Goto(c, s, key), callback[c].at # "observe"
      PROVE  Works(c) /\ (s = "observe" => Leaves(c))
  BY <1>1, <1>2, GotoFields, GoesOnWorks
<1>3. Advance(c) => Works(c) /\ Leaves(c)
  BY <1>1, AdvanceWorks
<1>4. /\ callback[c].offer \in Nat /\ Len(offers) \in Nat
      /\ {"find_offer", "save_offer", "find_event", "create_event", "observe"} \subseteq Steps
  BY LenProperties DEF TypeInv, TypeOK, Steps
<1>5. CASE SaveBlock(c)
  <2>1. callback[c].at # "observe" /\ UNCHANGED trades
    BY <1>5 DEF SaveBlock, At
  <2>2. CASE Current(c).name = "TokenIsApproved"
    BY <1>3, <1>5, <2>1, <2>2 DEF SaveBlock
  <2>3. CASE Current(c).name # "TokenIsApproved"
    BY <1>1, <1>5, <2>1, <2>3, EnterFields, GoesOnWorks
  <2> QED BY <2>2, <2>3
<1>6. CASE FindOffer(c)
  <2>1. callback[c].at # "observe" /\ UNCHANGED trades
    BY <1>6 DEF FindOffer, At, tables
  <2>2. Advance(c) \/ \E key \in Nat : Goto(c, "save_offer", key)
    BY <1>6 DEF FindOffer, RowsOf
  <2> QED BY <1>2, <1>3, <1>4, <2>1, <2>2
<1>7. CASE SaveOffer(c)
  <2>1. callback[c].at # "observe" /\ UNCHANGED trades
    BY <1>7 DEF SaveOffer, At
  <2>2. Advance(c) \/ \E key \in Nat : Goto(c, "find_event", key)
    BY <1>4, <1>7 DEF SaveOffer
  <2> QED BY <1>2, <1>3, <1>4, <2>1, <2>2
<1>8. CASE FindEvent(c)
  <2>1. callback[c].at # "observe" /\ UNCHANGED trades
    BY <1>8 DEF FindEvent, At, tables
  <2>2. Advance(c) \/ Goto(c, "create_event", callback[c].offer)
    BY <1>8 DEF FindEvent
  <2> QED BY <1>2, <1>3, <1>4, <2>1, <2>2
<1>9. CASE CreateEvent(c)
  <2>1. callback[c].at # "observe"
    BY <1>9 DEF CreateEvent, At
  <2>2. Advance(c) \/ Goto(c, "observe", callback[c].offer)
    BY <1>9 DEF CreateEvent
  <2> QED BY <1>2, <1>3, <1>4, <1>9, <2>1, <2>2
<1>10. CASE Observe(c) \/ Fail(c)
  <2>1. Advance(c) /\ UNCHANGED trades
    BY <1>10 DEF Observe, Fail, AfterFailure, Advance, tables
  <2> QED BY <1>3, <2>1
<1> QED BY <1>5, <1>6, <1>7, <1>8, <1>9, <1>10 DEF Handle

\* A batch holds events that no callback was given since the last start.
LEMMA DeliverCounts ==
  ASSUME OnceInv, NEW c \in Callbacks, NEW n \in Nat, Deliver(c, n)
  PROVE  OnceInv'
<1>1. /\ TypeInv /\ TypeInv' /\ QueueInv /\ up /\ callback[c].queue = <<>>
      /\ delivered \in Nat /\ crashes \in Nat /\ delivered' = delivered + n
      /\ UNCHANGED <<up, trades, crashes>>
  BY DeliverType, RowsAreFinite DEF OnceInv, Deliver, tables, bounds
<1>2. /\ Len(callback'[c].queue) = n /\ \A k \in 1 .. n : callback'[c].queue[k] = delivered + k
      /\ \A d \in Callbacks \ {c} : callback'[d] = callback[d]
  <2> DEFINE q == [k \in 1 .. n |-> delivered + k]
  <2>1. Len(q) = n /\ \A k \in 1 .. n : q[k] = delivered + k
    OBVIOUS
  <2> HIDE DEF q
  <2> DEFINE t1 == [callback[c] EXCEPT !.queue = q]
  <2>2. callback[c] \in Task
    BY <1>1 DEF TypeInv, CallbackType
  <2>3. t1.queue = q
    BY <2>2 DEF Task
  <2>4. callback' = [callback EXCEPT ![c] = t1]
    BY <1>1 DEF Deliver, TypeInv, CallbackType, q
  <2> HIDE DEF t1
  <2>5. callback'[c] = t1 /\ \A d \in Callbacks \ {c} : callback'[d] = callback[d]
    BY <1>1, <2>4 DEF TypeInv, CallbackType
  <2> QED BY <2>1, <2>3, <2>5
<1>3. ASSUME NEW d \in Callbacks, NEW k \in 1 .. Len(callback'[d].queue)
      PROVE  \/ d = c /\ callback'[d].queue[k] = delivered + k /\ k \in 1 .. n
             \/ /\ d # c /\ k \in 1 .. Len(callback[d].queue) /\ callback'[d] = callback[d]
                /\ callback'[d].queue[k] <= delivered /\ callback'[d].queue[k] \in Nat
  <2>1. CASE d = c
    BY <1>2, <2>1
  <2>2. CASE d # c
    <3>1. callback'[d] = callback[d] /\ callback[d].queue \in Seq(Nat)
      BY <1>1, <1>2, <2>2, QueueType
    <3>2. k \in 1 .. Len(callback[d].queue) /\ callback[d].queue[k] \in Nat
      BY <3>1
    <3> QED BY <1>1, <2>2, <3>1, <3>2 DEF QueueInv
  <2> QED BY <2>1, <2>2
<1>4. QueueInv'
  <2>1. ASSUME NEW d \in Callbacks, NEW k \in 1 .. Len(callback'[d].queue)
        PROVE  callback'[d].queue[k] <= delivered'
    BY <1>1, <1>3
  <2>2. ASSUME NEW d \in Callbacks, NEW e \in Callbacks,
               NEW k \in 1 .. Len(callback'[d].queue), NEW l \in 1 .. Len(callback'[e].queue),
               callback'[d].queue[k] = callback'[e].queue[l]
        PROVE  d = e /\ k = l
    <3>1. \/ d = c /\ callback'[d].queue[k] = delivered + k /\ k \in 1 .. n
          \/ /\ d # c /\ k \in 1 .. Len(callback[d].queue) /\ callback'[d] = callback[d]
             /\ callback'[d].queue[k] <= delivered /\ callback'[d].queue[k] \in Nat
      BY <1>3
    <3>2. \/ e = c /\ callback'[e].queue[l] = delivered + l /\ l \in 1 .. n
          \/ /\ e # c /\ l \in 1 .. Len(callback[e].queue) /\ callback'[e] = callback[e]
             /\ callback'[e].queue[l] <= delivered /\ callback'[e].queue[l] \in Nat
      BY <1>3
    <3> PICK u, v : u = callback'[d].queue[k] /\ v = callback'[e].queue[l]
      OBVIOUS
    <3>3. CASE d = c \/ e = c
      <4>1. \/ d = c /\ u = delivered + k /\ k \in 1 .. n
            \/ d # c /\ u <= delivered /\ u \in Nat
        BY <3>1
      <4>2. \/ e = c /\ v = delivered + l /\ l \in 1 .. n
            \/ e # c /\ v <= delivered /\ v \in Nat
        BY <3>2
      <4>3. u = v /\ delivered \in Nat
        BY <1>1, <2>2
      <4> QED BY <3>3, <4>1, <4>2, <4>3
    <3>4. CASE d # c /\ e # c
      <4>1. /\ k \in 1 .. Len(callback[d].queue) /\ l \in 1 .. Len(callback[e].queue)
            /\ callback[d].queue[k] = callback[e].queue[l]
        BY <2>2, <3>1, <3>2, <3>4
      <4> QED BY <1>1, <4>1 DEF QueueInv, Disjoint
    <3> QED BY <3>3, <3>4
  <2> QED BY <1>1, <2>1, <2>2 DEF QueueInv, Disjoint
<1>5. ASSUME NEW i \in Nat, Pending(i)' PROVE Pending(i)
  <2>1. CASE i > delivered'
    BY <1>1, <2>1 DEF Pending
  <2>2. ASSUME NEW d \in Callbacks, AtHand(d, i)' PROVE Pending(i)
    <3>1. PICK k \in 1 .. Len(callback'[d].queue) :
            callback'[d].queue[k] = i /\ (k > 1 \/ callback'[d].at # "observe")
      BY <2>2 DEF AtHand
    <3>2. CASE d = c
      BY <1>1, <1>3, <3>1, <3>2 DEF Pending
    <3>3. CASE d # c
      BY <1>3, <3>1, <3>3 DEF Pending, AtHand
    <3> QED BY <3>2, <3>3
  <2> QED BY <1>1, <1>5, <2>1, <2>2 DEF Pending
<1>6. ASSUME NEW i \in Nat PROVE CountOf(i)'
  <2>1. RowsOfEvent(i)' = RowsOfEvent(i)
    BY <1>1 DEF RowsOfEvent
  <2>2. Cardinality(RowsOfEvent(i)) \in Nat /\ CountOf(i)
    BY RowsAreFinite DEF OnceInv
  <2> QED BY <1>1, <1>5, <2>1, <2>2 DEF CountOf
<1> QED BY <1>1, <1>4, <1>6 DEF OnceInv

LEMMA CrashCounts ==
  ASSUME OnceInv, Crash
  PROVE  OnceInv'
<1>1. /\ TypeInv' /\ up /\ ~up' /\ crashes' = crashes + 1 /\ crashes \in Nat /\ UNCHANGED trades
      /\ \A c \in Callbacks : callback'[c].queue = <<>>
  BY CrashType, RowsAreFinite DEF OnceInv, Crash, Idle, tables
<1>2. Len(<<>>) = 0
  BY EmptySeq
<1>3. QueueInv'
  BY <1>1, <1>2 DEF QueueInv, Disjoint
<1>4. ASSUME NEW i \in Nat PROVE CountOf(i)'
  <2>1. RowsOfEvent(i)' = RowsOfEvent(i)
    BY <1>1 DEF RowsOfEvent
  <2>2. Cardinality(RowsOfEvent(i)) \in Nat /\ CountOf(i)
    BY RowsAreFinite DEF OnceInv
  <2> QED BY <1>1, <2>1, <2>2 DEF CountOf, Pending
<1> QED BY <1>1, <1>3, <1>4 DEF OnceInv

LEMMA RestartCounts ==
  ASSUME OnceInv, Restart
  PROVE  OnceInv'
<1>1. /\ TypeInv' /\ ~up /\ up' /\ crashes \in Nat /\ UNCHANGED <<trades, callback, crashes>>
      /\ \A c \in Callbacks : callback[c].queue = <<>>
  BY RestartType, RowsAreFinite DEF OnceInv, QueueInv, Restart, tables, bounds
<1>2. Len(<<>>) = 0
  BY EmptySeq
<1>3. QueueInv'
  BY <1>1, <1>2 DEF QueueInv, Disjoint
<1>4. ASSUME NEW i \in Nat PROVE CountOf(i)'
  <2>1. RowsOfEvent(i)' = RowsOfEvent(i)
    BY <1>1 DEF RowsOfEvent
  <2>2. Cardinality(RowsOfEvent(i)) \in Nat /\ CountOf(i) /\ Pending(i)
    BY <1>1, RowsAreFinite DEF OnceInv, Pending
  <2> QED BY <1>1, <2>1, <2>2 DEF CountOf
<1> QED BY <1>1, <1>3, <1>4 DEF OnceInv

\* Nothing that is counted changes.
LEMMA IdleCounts ==
  ASSUME OnceInv, TypeInv', UNCHANGED <<up, delivered, callback, trades, crashes>>
  PROVE  OnceInv'
<1>1. QueueInv'
  BY DEF OnceInv, QueueInv, Disjoint
<1>2. ASSUME NEW i \in Nat PROVE CountOf(i)'
  <2>1. Pending(i)' <=> Pending(i)
    BY DEF Pending, AtHand
  <2>2. RowsOfEvent(i)' = RowsOfEvent(i) /\ CountOf(i)
    BY DEF RowsOfEvent, OnceInv
  <2> QED BY <2>1, <2>2 DEF CountOf
<1> QED BY <1>1, <1>2 DEF OnceInv

LEMMA NextCounts ==
  ASSUME OnceInv, [Next]_vars
  PROVE  OnceInv'
<1>1. TypeInv'
  BY NextType DEF OnceInv
<1>2. CASE Contract
  <2>1. PICK e \in Event : Emit(e)
    BY <1>2, ContractEmits DEF OnceInv
  <2> QED BY <1>1, <2>1, IdleCounts DEF Emit, tables, bounds
<1>3. CASE Receive
  BY <1>3, DeliverCounts, EventInputs DEF Receive
<1>4. ASSUME NEW c \in Callbacks, Handle(c) \/ Fail(c) PROVE OnceInv'
  BY <1>1, <1>4, HandleWorks, WorkCounts, RecordCounts DEF OnceInv
<1>5. CASE UNCHANGED vars
  BY <1>1, <1>5, IdleCounts DEF vars, external, tables, bounds
<1> QED BY <1>2, <1>3, <1>4, <1>5, CrashCounts, RestartCounts DEF Next

\* An event is recorded once at most for every start of the worker, whatever awaits
\* fail and however many callbacks handle batches at the same time.
THEOREM OneRowPerStart == Spec => []RecordedOncePerStart
<1>1. Init => OnceInv
  <2> SUFFICES ASSUME Init PROVE OnceInv
    OBVIOUS
  <2>1. TypeInv
    BY InitType
  <2>2. Len(<<>>) = 0 /\ \A c \in Callbacks : callback[c].queue = <<>>
    BY EmptySeq DEF Init, Idle
  <2>3. QueueInv
    BY <2>2 DEF QueueInv, Disjoint
  <2>4. ASSUME NEW i \in Nat PROVE CountOf(i)
    <3>1. RowsOfEvent(i) = {}
      BY <2>2 DEF Init, RowsOfEvent
    <3>2. Cardinality(RowsOfEvent(i)) = 0 /\ crashes = 0
      BY <3>1, FS_EmptySet DEF Init
    <3> QED BY <3>2 DEF CountOf
  <2> QED BY <2>1, <2>3, <2>4 DEF OnceInv
<1>2. OnceInv /\ [Next]_vars => OnceInv'
  BY NextCounts
<1>3. OnceInv => RecordedOncePerStart
  <2> SUFFICES ASSUME OnceInv, NEW i \in 1 .. Len(chain)
               PROVE  Cardinality(RowsOfEvent(i)) <= crashes + 1
    BY DEF RecordedOncePerStart, RowsOfEvent
  <2>1. i \in Nat
    BY ChainLength DEF OnceInv
  <2>2. Cardinality(RowsOfEvent(i)) \in Nat /\ crashes \in Nat /\ CountOf(i)
    BY <2>1, RowsAreFinite DEF OnceInv
  <2> QED BY <2>2 DEF CountOf
<1> QED BY <1>1, <1>2, <1>3, PTL DEF Spec
=============================================================================
