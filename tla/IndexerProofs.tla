---------------------------- MODULE IndexerProofs ----------------------------
(***************************************************************************)
(* Theorems about TokenIndexer for all its constants: any tokens, nested   *)
(* in any way, any number of calls of the handlers at once, of events, of  *)
(* failures and of restarts.                                               *)
(***************************************************************************)
EXTENDS TokenIndexer, FiniteSetTheorems, SequenceTheorems, TLAPS

-----------------------------------------------------------------------------
(* The inductive invariant.                                                *)

Writes == {"find", "increment", "upsert"}
Clears == {"find_gone", "delete", "decrement"}

CallState ==
  [queue : Seq(Event), walks : SUBSET Tokens, found : SUBSET Tokens,
   at : {"save_block", "observe", "walk", "find_rows", "delete_properties", "delete_token",
         "find_offer", "delete_offer", "find_order", "save_order", "add_collection", "record"}]
JobState ==
  [kind : Kinds \cup {"none"}, owner : Owners \cup {NoRow},
   at : Writes \cup Clears \cup {"idle", "read", "save"}]
AddingState == [at : {"idle", "read", "collection", "tokens"}, left : SUBSET Job]

OrderInv ==
  /\ orders \in [Tokens -> Seq(Event)] /\ heard \in [Tokens -> Nat]
  /\ \A t \in Tokens : heard[t] <= Len(orders[t])

CollectionInv ==
  /\ onMarket \in Seq(Int) /\ reset \subseteq DOMAIN onMarket
  /\ toCollect \in Nat /\ collecting \in [Workers -> Int]
  /\ \A w \in Workers : collecting[w] \in {Idle, NoKey} \cup DOMAIN onMarket

TypeInv ==
  /\ owner \in [Tokens -> Owners \cup {Unminted, Burnt}] /\ chain \in Seq(Event)
  /\ OrderInv /\ CollectionInv
  /\ delivered \in 0 .. Len(chain) /\ up \in BOOLEAN
  /\ callback \in [Calls -> CallState] /\ adding \in [Calls -> AddingState]
  /\ requests \subseteq Job /\ jobs \subseteq Job
  /\ running \in [Tokens -> JobState]
  /\ block \in 0 .. MaxBlock /\ tokens \in [Tokens -> Owners \cup {NoRow}]
  /\ index \subseteq Tokens /\ overlooked \subseteq Tokens /\ missed \subseteq Job
  /\ offers \in [Tokens -> {"none", "open", "over"}]

\* Where a job is, its kind tells, and what it has read its step.
JobOK(t) ==
  LET job == running[t]
  IN /\ (job.at = "idle") <=> (job = IdleJob)
     /\ (job.at \in Writes \cup Clears) <=> (job.kind = "collectTokens")
     /\ (job.at \in {"read", "save"}) <=> (job.kind = "collectProperties")
     /\ (job.at \in Writes) <=> (job.owner # NoRow)
     /\ job.at = "decrement" => tokens[t] = NoRow

JobInv == \A t \in Tokens : JobOK(t)

\* The events of a token are of one that was minted, and burnt if they say so;
\* the blocks ascend.
Happened(e) ==
  /\ e.token \in Tokens => owner[e.token] # Unminted
  /\ e.method = "ItemDestroyed" => e.token \in Tokens /\ owner[e.token] = Burnt

\* The orders are of tokens that were minted, and of their events nobody else tells.
SalesInv ==
  \A t \in Tokens :
    /\ orders[t] # <<>> => owner[t] # Unminted
    /\ \A i \in 1 .. Len(orders[t]) :
         IsSale(orders[t][i]) /\ orders[t][i].token = t /\ orders[t][i].block = 0

ChainInv ==
  /\ SalesInv
  /\ \A i \in 1 .. Len(chain) :
       Happened(chain[i]) /\ 1 <= chain[i].block /\ ~IsSale(chain[i])
  /\ \A i, j \in 1 .. Len(chain) : i <= j => chain[i].block <= chain[j].block

\* A call has events that were delivered, or those of its order.  When the worker is
\* up it starts again, if it has to, before all that it has not been given.
Given(e) ==
  /\ Happened(e)
  /\ \/ IsSale(e) /\ e.block = 0
     \/ \E j \in 1 .. delivered : chain[j] = e

StepOK(e, at) ==
  /\ at # "save_block" => e.token \in Tokens
  /\ at \in {"find_rows", "delete_properties", "delete_token"} => owner[e.token] = Burnt
  /\ at \in {"find_offer", "delete_offer"} => e.method = "ItemDestroyed"
  /\ at = "walk" => e.method # "ItemDestroyed"

CallOK(c) ==
  LET task == callback[c]
  IN /\ task.queue = <<>> => task = IdleCallback
     /\ ~up => task.queue = <<>>
     /\ \A i \in 1 .. Len(task.queue) : Given(task.queue[i])
     /\ c \in Tokens => \A i \in 1 .. Len(task.queue) :
                          IsSale(task.queue[i]) /\ task.queue[i].token = c
     /\ task.queue # <<>> => StepOK(task.queue[1], task.at)

CallInv ==
  /\ \A c \in Calls : CallOK(c)
  /\ FromBlock <= HeadBlock
  /\ up => \A i \in delivered + 1 .. Len(chain) : FromBlock <= chain[i].block

CountInv ==
  \A k \in DOMAIN onMarket \ reset : onMarket[k] >= Cardinality(CountedTokens)

\* An event of S that the worker has not finished with, or will be given.
Coming(S) ==
  IF up
  THEN \/ \E i \in delivered + 1 .. Len(chain) : chain[i] \in S
       \/ \E c \in Calls : \E i \in 1 .. Len(callback[c].queue) : callback[c].queue[i] \in S
  ELSE \E i \in 1 .. Len(chain) : chain[i] \in S /\ FromBlock <= chain[i].block

Burnings(t) == {e \in Event : e.token = t /\ e.method = "ItemDestroyed"}
Changes(t) == {e \in Event : e.token = t /\ e.method # "ItemDestroyed" /\ ~IsSale(e)}

Open == {t \in Tokens : offers[t] = "open"}
OfferInv == \A t \in Open \ overlooked : Live(t) \/ Coming(Burnings(t))

\* What the row will tell when the job under way is over.
WillTell(t) == IF running[t].kind = "collectTokens" THEN running[t].owner ELSE tokens[t]
WillBeFound(t) == t \in index \/ running[t].kind = "collectProperties"

\* Something will start the job, or its loss is on record.
Due(t, kind) ==
  \/ <<t, kind>> \in missed \cup requests \cup jobs
  \/ Coming(Changes(t))
FoundInv(t) == WillBeFound(t) \/ Due(t, "collectProperties") \/ <<t, "collectTokens">> \in requests
RowInv(t) == WillTell(t) = owner[t] \/ Due(t, "collectTokens")

IndexInv == \A t \in Tokens : Live(t) => RowInv(t) /\ FoundInv(t)

IInv == TypeInv /\ JobInv /\ ChainInv /\ CallInv /\ CountInv /\ OfferInv /\ IndexInv

-----------------------------------------------------------------------------
(* What the steps do, as far as the invariant goes.                        *)

\* A new event e, of a block that is not before the others.
NewEvent(e) ==
  /\ e \in Event /\ HeadBlock <= e.block /\ 1 <= e.block /\ ~IsSale(e)
  /\ chain' = Append(chain, e)
  /\ UNCHANGED <<heard, delivered, up, calls, rows, queue, history, incidents>>

LEMMA NoMethodIsASale ==
  Methods \cap Sales = {}
BY DEF Methods, Sales

LEMMA EmitIsNew ==
  ASSUME TypeInv, NEW method \in Methods, NEW t \in Tokens \cup {None}, NEW from, NEW to,
         Emit(method, t, from, to)
  PROVE  \E e : NewEvent(e) /\ e.method = method /\ e.token = t
<1>1. PICK b \in {HeadBlock, HeadBlock + 1} \cap 1 .. MaxBlock :
        chain' = Append(chain, Parsed(method, t, from, to, b))
  BY DEF Emit
<1> DEFINE ps == CASE method = "Transfer" -> Nested({from, to})
                   [] method = "Approved" -> Nested({to})
                   [] OTHER -> {}
           e == [method |-> method, token |-> t, block |-> b, left |-> FALSE, parents |-> ps]
<1>2. ps \in SUBSET Tokens
  BY DEF Nested
<1>3. HeadBlock \in Nat /\ b \in 0 .. MaxBlock /\ HeadBlock <= b /\ 1 <= b
  <2>1. CASE chain = <<>>
    BY <2>1, IndexerInputs DEF HeadBlock
  <2>2. CASE chain # <<>>
    <3>1. Len(chain) \in 1 .. Len(chain)
      BY <2>2 DEF TypeInv
    <3>2. chain[Len(chain)] \in Event
      BY <3>1 DEF TypeInv
    <3> QED BY <2>2, <3>2, IndexerInputs DEF HeadBlock, Event
  <2> QED BY <2>1, <2>2
<1> HIDE DEF ps
<1>4. e \in Event /\ e.block = b /\ e.method = method /\ e.token = t
  BY <1>2, <1>3 DEF Event
<1>5. chain' = Append(chain, e)
  BY <1>1 DEF Parsed, ps
<1> HIDE DEF e
<1> QED BY <1>3, <1>4, <1>5, NoMethodIsASale DEF Emit, NewEvent, IsSale

\* Of orders there may be more, of tokens that were minted.
OrdersGoOn == OrderInv' /\ SalesInv'

LEMMA NewEventType ==
  ASSUME TypeInv, NEW e, NewEvent(e), OrderInv', owner' \in [Tokens -> Owners \cup {Unminted, Burnt}]
  PROVE  /\ TypeInv' /\ Len(chain') = Len(chain) + 1 /\ chain'[Len(chain) + 1] = e
         /\ \A i \in 1 .. Len(chain) : chain'[i] = chain[i]
<1>1. /\ chain' \in Seq(Event) /\ Len(chain') = Len(chain) + 1 /\ chain'[Len(chain) + 1] = e
      /\ \A i \in 1 .. Len(chain) : chain'[i] = chain[i]
  BY DEF TypeInv, NewEvent
<1>2. delivered \in 0 .. Len(chain')
  BY <1>1 DEF TypeInv
<1>3. CollectionInv'
  BY DEF TypeInv, CollectionInv, NewEvent, calls, background, rows, queue, history
<1> QED BY <1>1, <1>2, <1>3 DEF TypeInv, NewEvent, calls, background, rows, queue, history

\* The invariant about the chain and the calls, and what is to come, depend on this only.
ofEvents == <<owner, chain, orders, delivered, up, callback, block>>

LEMMA EventsUntouched ==
  ASSUME UNCHANGED ofEvents
  PROVE  /\ ChainInv => ChainInv'
         /\ CallInv => CallInv'
         /\ \A S : Coming(S) <=> Coming(S)'
         /\ \A t : Live(t) <=> Live(t)'
<1> USE DEF ofEvents
<1>1. ChainInv => ChainInv'
  BY DEF ChainInv, SalesInv, Happened
<1>2. HeadBlock' = HeadBlock /\ FromBlock' = FromBlock
  BY DEF HeadBlock, FromBlock
<1>3. CallInv => CallInv'
  <2>1. \A e : Given(e) <=> Given(e)'
    BY DEF Given, Happened
  <2>2. \A c : CallOK(c) <=> CallOK(c)'
    BY <2>1 DEF CallOK, StepOK
  <2> QED BY <1>2, <2>2 DEF CallInv
<1>4. \A S : Coming(S) <=> Coming(S)'
  BY <1>2 DEF Coming
<1> QED BY <1>1, <1>3, <1>4 DEF Live

\* Minted tokens stay minted, burnt ones burnt.
OwnersGoOn ==
  \A t \in Tokens : /\ owner[t] # Unminted => owner'[t] # Unminted
                    /\ owner[t] = Burnt => owner'[t] = Burnt

LEMMA HappenedStays ==
  ASSUME OwnersGoOn, NEW e, Happened(e)
  PROVE  Happened(e)'
BY DEF OwnersGoOn, Happened

LEMMA NewEventKeeps ==
  ASSUME TypeInv, ChainInv, CallInv, NEW e, NewEvent(e), OwnersGoOn, OrdersGoOn, Happened(e)',
         owner' \in [Tokens -> Owners \cup {Unminted, Burnt}]
  PROVE  ChainInv' /\ CallInv'
<1> DEFINE n == Len(chain)
<1>1. /\ n \in Nat /\ Len(chain') = n + 1 /\ chain'[n + 1] = e
      /\ \A i \in 1 .. n : chain'[i] = chain[i] /\ chain[i] \in Event
      /\ delivered \in 0 .. n /\ chain' # <<>>
  BY NewEventType DEF TypeInv, NewEvent, OrdersGoOn
<1>2. \A i \in 1 .. n : chain[i].block \in Nat /\ chain[i].block <= e.block
  <2>1. ASSUME NEW i \in 1 .. n PROVE chain[i].block \in Nat /\ chain[i].block <= e.block
    <3>1. n \in 1 .. n /\ chain # <<>>
      BY <1>1
    <3>2. chain[i].block <= chain[n].block /\ HeadBlock = chain[n].block
      BY <1>1, <3>1 DEF ChainInv, HeadBlock
    <3>3. chain[i].block \in Nat /\ chain[n].block \in Nat /\ e.block \in Nat
      BY <1>1, <3>1, IndexerInputs DEF Event, NewEvent
    <3> QED BY <3>2, <3>3 DEF NewEvent
  <2> QED BY <2>1
<1>3. e.block \in Nat /\ HeadBlock' = e.block
  BY <1>1, IndexerInputs DEF HeadBlock, NewEvent, Event
<1>4. ChainInv'
  <2>1. SalesInv'
    BY DEF OrdersGoOn
  <2>2. ASSUME NEW i \in 1 .. Len(chain')
        PROVE  Happened(chain[i])' /\ 1 <= chain'[i].block /\ ~IsSale(chain'[i])
    <3>1. CASE i = n + 1
      BY <1>1, <3>1 DEF NewEvent, IsSale
    <3>2. CASE i # n + 1
      <4>1. i \in 1 .. n /\ chain'[i] = chain[i]
        BY <1>1, <3>2
      <4>2. Happened(chain[i]) /\ 1 <= chain[i].block /\ ~IsSale(chain[i])
        BY <4>1 DEF ChainInv
      <4>3. PICK d : d = chain[i]
        OBVIOUS
      <4>4. Happened(d)'
        BY <4>2, <4>3, HappenedStays
      <4> QED BY <4>1, <4>2, <4>3, <4>4
    <3> QED BY <3>1, <3>2
  <2>3. ASSUME NEW i \in 1 .. Len(chain'), NEW j \in 1 .. Len(chain'), i <= j
        PROVE  chain'[i].block <= chain'[j].block
    <3>1. CASE j = n + 1
      <4>1. CASE i = n + 1
        BY <1>1, <1>3, <3>1, <4>1
      <4>2. CASE i # n + 1
        <5>1. i \in 1 .. n
          BY <1>1, <4>2
        <5> QED BY <1>1, <1>2, <3>1, <5>1
      <4> QED BY <4>1, <4>2
    <3>2. CASE j # n + 1
      <4>1. i \in 1 .. n /\ j \in 1 .. n
        BY <1>1, <2>3, <3>2
      <4> QED BY <1>1, <2>3, <4>1 DEF ChainInv
    <3> QED BY <3>1, <3>2
  <2> QED BY <2>1, <2>2, <2>3 DEF ChainInv
<1>5. UNCHANGED <<callback, delivered, up, block>> /\ FromBlock' = FromBlock
  BY DEF NewEvent, calls, rows, FromBlock
<1>6. FromBlock \in Nat /\ HeadBlock \in Nat
  <2>1. FromBlock \in Nat
    BY IndexerInputs DEF FromBlock, TypeInv
  <2>2. CASE chain = <<>>
    BY <2>1, <2>2 DEF HeadBlock
  <2>3. CASE chain # <<>>
    <3>1. n \in 1 .. n
      BY <1>1, <2>3 DEF TypeInv
    <3> QED BY <1>2, <2>1, <2>3, <3>1 DEF HeadBlock
  <2> QED BY <2>2, <2>3
<1>7. FromBlock <= e.block
  <2>1. FromBlock <= HeadBlock /\ HeadBlock <= e.block
    BY DEF CallInv, NewEvent
  <2> QED BY <1>3, <1>6, <2>1
<1>8. ASSUME NEW c \in Calls PROVE CallOK(c)'
  <2>1. \A d : Given(d) => Given(d)'
    <3>1. TAKE d
    <3>2. Happened(d) => Happened(d)'
      BY HappenedStays
    <3>3. (\E j \in 1 .. delivered : chain[j] = d) => \E j \in 1 .. delivered' : chain'[j] = d
      BY <1>1, <1>5
    <3> QED BY <3>2, <3>3 DEF Given
  <2>2. \A d, at : StepOK(d, at) => StepOK(d, at)'
    BY DEF StepOK, OwnersGoOn
  <2>3. CallOK(c)
    BY DEF CallInv
  <2> QED BY <1>5, <2>1, <2>2, <2>3 DEF CallOK
<1>9. ASSUME NEW i \in delivered + 1 .. Len(chain'), up PROVE FromBlock <= chain'[i].block
  <2>1. CASE i = n + 1
    BY <1>1, <1>7, <2>1
  <2>2. CASE i # n + 1
    <3>1. i \in delivered + 1 .. n /\ i \in 1 .. n
      BY <1>1, <2>2
    <3> QED BY <1>1, <1>9, <3>1 DEF CallInv
  <2> QED BY <2>1, <2>2
<1>10. CallInv'
  BY <1>3, <1>5, <1>7, <1>8, <1>9 DEF CallInv
<1> QED BY <1>4, <1>10

\* Nothing that was to come is lost, and the event itself is to come.
LEMMA NewEventComes ==
  ASSUME TypeInv, ChainInv, CallInv, NEW e, NewEvent(e), OrderInv',
         owner' \in [Tokens -> Owners \cup {Unminted, Burnt}], NEW S
  PROVE  (Coming(S) => Coming(S)') /\ (e \in S => Coming(S)')
<1> DEFINE n == Len(chain)
<1>1. /\ n \in Nat /\ Len(chain') = n + 1 /\ chain'[n + 1] = e
      /\ \A i \in 1 .. n : chain'[i] = chain[i]
      /\ delivered \in 0 .. n
  BY NewEventType DEF TypeInv, NewEvent, OrdersGoOn
<1>2. UNCHANGED <<callback, delivered, up, block>> /\ FromBlock' = FromBlock
  BY DEF NewEvent, calls, rows, FromBlock
<1>3. FromBlock <= e.block
  <2>1. FromBlock \in Nat /\ e.block \in Nat
    BY IndexerInputs DEF FromBlock, TypeInv, NewEvent, Event
  <2>2. HeadBlock \in Nat
    <3>1. CASE chain = <<>>
      BY <3>1 DEF HeadBlock
    <3>2. CASE chain # <<>>
      <4>1. chain[n] \in Event
        BY <3>2 DEF TypeInv
      <4> QED BY <3>2, <4>1, IndexerInputs DEF HeadBlock, Event
    <3> QED BY <3>1, <3>2
  <2>3. FromBlock <= HeadBlock /\ HeadBlock <= e.block
    BY DEF CallInv, NewEvent
  <2> QED BY <2>1, <2>2, <2>3
<1>4. CASE up
  <2>1. n + 1 \in delivered + 1 .. Len(chain') /\ \A i \in delivered + 1 .. n : i \in delivered + 1 .. n + 1 /\ i \in 1 .. n
    BY <1>1
  <2> QED BY <1>1, <1>2, <1>4, <2>1 DEF Coming
<1>5. CASE ~up
  <2>1. n + 1 \in 1 .. Len(chain') /\ \A i \in 1 .. n : i \in 1 .. n + 1
    BY <1>1
  <2> QED BY <1>1, <1>2, <1>3, <1>5, <2>1 DEF Coming
<1> QED BY <1>4, <1>5

-----------------------------------------------------------------------------
(* Steps of the calls.                                                     *)

\* What is true when a call leaves its event e: the offer of a burnt token is closed or
\* the event dropped, and the change of a token is on its way, on record or void.
Finished(e) ==
  /\ e.method = "ItemDestroyed" => e.token \notin Open' \/ e.token \in overlooked'
  /\ e.method # "ItemDestroyed" /\ ~IsSale(e) /\ e.token \in Tokens =>
       \/ JobsOf({e.token}) \subseteq missed'
       \/ <<e.token, "collectTokens">> \in requests'
       \/ owner[e.token] = Burnt

Proceeds(c, e, task) ==
  \/ task.queue = callback[c].queue /\ StepOK(e, task.at)
  \/ task = EndOf(callback[c]) /\ Finished(e)

\* The rows of burnt tokens only are deleted, and none is opened unnoticed.
RowsGo ==
  /\ tokens' \in [Tokens -> Owners \cup {NoRow}] /\ index' \subseteq Tokens
  /\ \A t \in Tokens : tokens'[t] \in {tokens[t], NoRow}
  /\ \A t \in Tokens : owner[t] # Burnt => tokens'[t] = tokens[t] /\ (t \in index => t \in index')
  /\ offers' \in [Tokens -> {"none", "open", "over"}]
  /\ \A t \in Open' \ overlooked' : t \in Open \/ Live(t)

\* Nothing is forgotten.
RecordGrows ==
  /\ overlooked \subseteq overlooked' /\ overlooked' \subseteq Tokens
  /\ missed \subseteq missed' /\ missed' \subseteq Job
  /\ requests \subseteq requests' /\ requests' \subseteq Job

CallMoves(c) ==
  /\ up /\ callback[c].queue # <<>>
  /\ callback' \in [Calls -> CallState] /\ \A d \in Calls \ {c} : callback'[d] = callback[d]
  /\ Proceeds(c, callback[c].queue[1], callback'[c])
  /\ block' \in {block, callback[c].queue[1].block}
  /\ RowsGo /\ RecordGrows
  /\ adding' \in [Calls -> AddingState]
  /\ UNCHANGED <<outside, running, collecting, queue, onMarket, reset>>

LEMMA SetCall ==
  ASSUME TypeInv, NEW c \in Calls, NEW task \in CallState, callback' = [callback EXCEPT ![c] = task]
  PROVE  /\ callback' \in [Calls -> CallState] /\ callback'[c] = task
         /\ \A d \in Calls \ {c} : callback'[d] = callback[d]
BY DEF TypeInv

LEMMA CallHasEvent ==
  ASSUME IInv, NEW c \in Calls, callback[c].queue # <<>>
  PROVE  /\ callback[c] \in CallState /\ Current(c) = callback[c].queue[1]
         /\ callback[c].queue[1] \in Event
         /\ Given(callback[c].queue[1]) /\ StepOK(callback[c].queue[1], callback[c].at)
         /\ Len(callback[c].queue) \in Nat \ {0}
<1>1. callback[c] \in CallState /\ CallOK(c)
  BY DEF IInv, TypeInv, CallInv
<1> DEFINE q == callback[c].queue
<1>2. q \in Seq(Event) /\ q # <<>>
  BY <1>1 DEF CallState
<1> HIDE DEF q
<1>3. Len(q) \in Nat \ {0} /\ Head(q) = q[1] /\ q[1] \in Event
  BY <1>2
<1> QED BY <1>1, <1>2, <1>3 DEF q, CallOK, Current

\* The call of a token has an event of its order.
LEMMA CallHasSale ==
  ASSUME IInv, NEW t \in Tokens, callback[t].queue # <<>>
  PROVE  /\ t \in Calls /\ Current(t) \in Event /\ IsSale(Current(t)) /\ Current(t).token = t
         /\ Current(t).method # "ItemDestroyed"
<1>1. t \in Calls
  BY DEF Calls
<1>2. CallOK(t) /\ Current(t) = callback[t].queue[1] /\ Len(callback[t].queue) \in Nat \ {0}
      /\ Current(t) \in Event
  BY <1>1, CallHasEvent DEF IInv, CallInv
<1>3. IsSale(callback[t].queue[1]) /\ callback[t].queue[1].token = t
  BY <1>2 DEF CallOK
<1> QED BY <1>1, <1>2, <1>3 DEF IsSale, Sales

LEMMA EndOfType ==
  ASSUME NEW task \in CallState, task.queue # <<>>
  PROVE  EndOf(task) \in CallState /\ EndOf(task).queue = Tail(task.queue)
         /\ EndOf(task).at = "save_block"
<1>1. Tail(task.queue) \in Seq(Event)
  BY DEF CallState
<1> QED BY <1>1 DEF EndOf, IdleCallback, CallState

\* After observer a call looks for the offer of a burnt token, or is through.
LEMMA AfterObserverMoves ==
  ASSUME NEW task \in CallState, task.queue # <<>>, Happened(task.queue[1])
  PROVE  /\ AfterObserver(task) \in CallState
         /\ \/ /\ task.queue[1].method = "ItemDestroyed"
               /\ AfterObserver(task).queue = task.queue /\ StepOK(task.queue[1], AfterObserver(task).at)
            \/ /\ task.queue[1].method # "ItemDestroyed"
               /\ AfterObserver(task) = EndOf(task)
<1>1. Head(task.queue) = task.queue[1]
  BY DEF CallState
<1>2. CASE task.queue[1].method = "ItemDestroyed"
  <2>1. AfterObserver(task) = [task EXCEPT !.at = "find_offer", !.walks = {}, !.found = {}]
    BY <1>1, <1>2 DEF AfterObserver
  <2>2. AfterObserver(task) \in CallState /\ AfterObserver(task).queue = task.queue
        /\ AfterObserver(task).at = "find_offer"
    BY <2>1 DEF CallState
  <2> QED BY <1>2, <2>2 DEF StepOK, Happened
<1>3. CASE task.queue[1].method # "ItemDestroyed"
  BY <1>1, <1>3, EndOfType DEF AfterObserver
<1> QED BY <1>2, <1>3

LEMMA RowsStay ==
  ASSUME TypeInv, UNCHANGED <<tokens, index, offers>>, overlooked \subseteq overlooked'
  PROVE  RowsGo
BY DEF TypeInv, RowsGo, Open

LEMMA AddingStays ==
  ASSUME TypeInv, UNCHANGED adding
  PROVE  adding' \in [Calls -> AddingState]
BY DEF TypeInv

LEMMA RecordStays ==
  ASSUME TypeInv, UNCHANGED <<missed, overlooked, requests>>
  PROVE  RecordGrows
BY DEF TypeInv, RecordGrows

LEMMA SaveBlockMoves ==
  ASSUME IInv, NEW c \in Calls, SaveBlock(c)
  PROVE  CallMoves(c)
<1> DEFINE e == callback[c].queue[1]
           old == callback[c]
           next == IF e.token = None THEN EndOf(old) ELSE [old EXCEPT !.at = "observe"]
<1>1. /\ up /\ old.queue # <<>> /\ block' = e.block
      /\ UNCHANGED <<outside, background, tokens, index, offers, onMarket, queue, history, incidents>>
      /\ e \in Event /\ Given(e) /\ old \in CallState /\ TypeInv
  BY CallHasEvent DEF SaveBlock, At, IInv
<1>2. callback' = [callback EXCEPT ![c] = next]
  BY <1>1, CallHasEvent DEF SaveBlock, Advance, Goto, At, IInv, TypeInv
<1>3. next \in CallState
  BY <1>1, EndOfType DEF CallState
<1>4. Proceeds(c, e, next)
  <2>1. CASE e.token = None
    <3>1. e.method # "ItemDestroyed" /\ e.token \notin Tokens
      BY <1>1, <2>1, IndexerInputs DEF Given, Happened, None
    <3> QED BY <2>1, <3>1 DEF Proceeds, Finished
  <2>2. CASE e.token # None
    <3>1. e.token \in Tokens
      BY <1>1, <2>2 DEF Event
    <3>2. next.queue = old.queue /\ next.at = "observe"
      BY <1>1, <2>2 DEF CallState
    <3>3. StepOK(e, "observe")
      BY <3>1 DEF StepOK
    <3> HIDE DEF next, e
    <3> QED BY <3>2, <3>3 DEF Proceeds
  <2> QED BY <2>1, <2>2
<1> HIDE DEF next
<1>5. /\ callback' \in [Calls -> CallState] /\ callback'[c] = next
      /\ \A d \in Calls \ {c} : callback'[d] = callback[d]
  BY <1>1, <1>2, <1>3, SetCall
<1> QED BY <1>1, <1>4, <1>5, RowsStay, RecordStays, AddingStays DEF CallMoves, background, history

LEMMA ObserveMoves ==
  ASSUME IInv, NEW c \in Calls, Observe(c)
  PROVE  CallMoves(c)
<1> DEFINE e == callback[c].queue[1]
           old == callback[c]
<1>1. /\ up /\ old.queue # <<>> /\ UNCHANGED <<outside, background, rows, queue, overlooked, reset, incidents>>
      /\ e \in Event /\ Given(e) /\ old \in CallState /\ TypeInv /\ e.token \in Tokens /\ Current(c) = e
  BY CallHasEvent DEF Observe, At, IInv, StepOK
<1>2. /\ missed' = IF Known \/ IsSale(e) THEN missed ELSE missed \cup JobsOf({e.token})
      /\ RowsGo /\ RecordGrows
  <2>1. JobsOf({e.token}) \subseteq Job
    BY <1>1 DEF JobsOf, Job
  <2>2. missed' = IF Known \/ IsSale(e) THEN missed ELSE missed \cup JobsOf({e.token})
    BY <1>1 DEF Observe
  <2> QED BY <1>1, <2>1, <2>2, RowsStay DEF RecordGrows, background, rows, TypeInv
<1>3. \E next \in CallState : callback' = [callback EXCEPT ![c] = next] /\ Proceeds(c, e, next)
  <2>1. CASE ~Known
    <3>1. callback' = [callback EXCEPT ![c] = AfterObserver(old)]
      BY <1>1, <2>1 DEF Observe, TypeInv
    <3>2. ~IsSale(e) => JobsOf({e.token}) \subseteq missed'
      BY <1>2, <2>1
    <3>3. /\ AfterObserver(old) \in CallState
          /\ \/ AfterObserver(old).queue = old.queue /\ StepOK(e, AfterObserver(old).at)
             \/ e.method # "ItemDestroyed" /\ AfterObserver(old) = EndOf(old)
      BY <1>1, AfterObserverMoves DEF Given
    <3> QED BY <3>1, <3>2, <3>3 DEF Proceeds, Finished
  <2>2. CASE Known /\ Live(e.token) /\ e.method # "ItemDestroyed"
    <3> DEFINE next == [old EXCEPT !.at = "walk", !.walks = e.parents]
    <3>1. callback' = [callback EXCEPT ![c] = next]
      BY <1>1, <2>2 DEF Observe, TypeInv
    <3>2. next \in CallState /\ next.queue = old.queue /\ next.at = "walk"
      <4>1. e.parents \in SUBSET Tokens
        BY <1>1 DEF Event
      <4> HIDE DEF e
      <4> QED BY <1>1, <4>1 DEF CallState
    <3>3. StepOK(e, "walk")
      BY <1>1, <2>2 DEF StepOK
    <3> HIDE DEF next, e
    <3> QED BY <3>1, <3>2, <3>3 DEF Proceeds
  <2>3. CASE Known /\ ~(Live(e.token) /\ e.method # "ItemDestroyed")
    <3> DEFINE next == [old EXCEPT !.at = "find_rows"]
    <3>1. callback' = [callback EXCEPT ![c] = next]
      BY <1>1, <2>3 DEF Observe, TypeInv
    <3>2. next \in CallState /\ next.queue = old.queue /\ next.at = "find_rows"
      BY <1>1 DEF CallState
    <3>3. StepOK(e, "find_rows")
      BY <1>1, <2>3 DEF StepOK, Given, Happened, Live, TypeInv
    <3> HIDE DEF next, e
    <3> QED BY <3>1, <3>2, <3>3 DEF Proceeds
  <2> QED BY <2>1, <2>2, <2>3
<1>4. PICK next \in CallState : callback' = [callback EXCEPT ![c] = next] /\ Proceeds(c, e, next)
  BY <1>3
<1>5. /\ callback' \in [Calls -> CallState] /\ callback'[c] = next
      /\ \A d \in Calls \ {c} : callback'[d] = callback[d]
  BY <1>1, <1>4, SetCall
<1> QED BY <1>1, <1>2, <1>4, <1>5, AddingStays DEF CallMoves, background, rows

LEMMA FindRowsMoves ==
  ASSUME IInv, NEW c \in Calls, FindRows(c)
  PROVE  CallMoves(c)
<1> DEFINE e == callback[c].queue[1]
           old == callback[c]
           found == {table \in {"properties", "tokens"} :
                       IF table = "tokens" THEN tokens[e.token] # NoRow ELSE e.token \in index}
           mid == [old EXCEPT !.at = IF "properties" \in found THEN "delete_properties" ELSE "delete_token",
                              !.found = IF "tokens" \in found THEN {e.token} ELSE {}]
           next == IF found = {} THEN AfterObserver(old) ELSE mid
<1>1. /\ up /\ old.queue # <<>> /\ UNCHANGED <<outside, background, rows, queue, history, incidents>>
      /\ e \in Event /\ Given(e) /\ old \in CallState /\ TypeInv /\ Current(c) = e
      /\ e.token \in Tokens /\ owner[e.token] = Burnt
  BY CallHasEvent DEF FindRows, At, IInv, StepOK
<1>2. callback' = [callback EXCEPT ![c] = next]
  BY <1>1 DEF FindRows, TypeInv
<1>3. mid \in CallState /\ mid.queue = old.queue /\ StepOK(e, mid.at)
  <2> HIDE DEF found
  <2>1. mid \in CallState /\ mid.queue = old.queue /\ mid.at \in {"delete_properties", "delete_token"}
    BY <1>1 DEF CallState
  <2> HIDE DEF mid
  <2> QED BY <1>1, <2>1 DEF StepOK
<1>4. /\ AfterObserver(old) \in CallState
      /\ \/ AfterObserver(old).queue = old.queue /\ StepOK(e, AfterObserver(old).at)
         \/ e.method # "ItemDestroyed" /\ AfterObserver(old) = EndOf(old)
  BY <1>1, AfterObserverMoves DEF Given
<1>5. next \in CallState /\ Proceeds(c, e, next)
  <2> HIDE DEF mid, found
  <2> QED BY <1>1, <1>3, <1>4 DEF Proceeds, Finished
<1> HIDE DEF next
<1>6. /\ callback' \in [Calls -> CallState] /\ callback'[c] = next
      /\ \A d \in Calls \ {c} : callback'[d] = callback[d]
  BY <1>1, <1>2, <1>5, SetCall
<1> QED BY <1>1, <1>5, <1>6, RowsStay, RecordStays, AddingStays DEF CallMoves, background, history, rows

LEMMA DeleteRowsMoves ==
  ASSUME IInv, NEW c \in Calls, DeleteProperties(c) \/ DeleteToken(c)
  PROVE  CallMoves(c)
<1> DEFINE e == callback[c].queue[1]
           old == callback[c]
<1>1. /\ up /\ old.queue # <<>>
      /\ UNCHANGED <<outside, background, block, offers, onMarket, queue, history, incidents>>
      /\ e \in Event /\ Given(e) /\ old \in CallState /\ TypeInv /\ Current(c) = e
      /\ e.token \in Tokens /\ owner[e.token] = Burnt
  BY CallHasEvent DEF DeleteProperties, DeleteToken, At, IInv, StepOK
<1>2. RowsGo
  BY <1>1 DEF DeleteProperties, DeleteToken, RowsGo, TypeInv, Open, history
<1>3. /\ AfterObserver(old) \in CallState
      /\ \/ AfterObserver(old).queue = old.queue /\ StepOK(e, AfterObserver(old).at)
         \/ e.method # "ItemDestroyed" /\ AfterObserver(old) = EndOf(old)
  BY <1>1, AfterObserverMoves DEF Given
<1>4. Proceeds(c, e, AfterObserver(old))
  BY <1>1, <1>3 DEF Proceeds, Finished
<1>5. \E next \in CallState : callback' = [callback EXCEPT ![c] = next] /\ Proceeds(c, e, next)
  <2> DEFINE mid == [old EXCEPT !.at = "delete_token"]
  <2>1. mid \in CallState /\ mid.queue = old.queue /\ mid.at = "delete_token"
    BY <1>1 DEF CallState
  <2>2. StepOK(e, "delete_token")
    BY <1>1 DEF StepOK
  <2>3. Proceeds(c, e, mid)
    <3> HIDE DEF mid, e
    <3> QED BY <2>1, <2>2 DEF Proceeds
  <2>4. \/ callback' = [callback EXCEPT ![c] = AfterObserver(old)]
        \/ callback' = [callback EXCEPT ![c] = mid]
    <3>1. CASE DeleteToken(c)
      BY <1>1, <3>1 DEF DeleteToken, TypeInv
    <3>2. CASE DeleteProperties(c)
      <4>1. callback' = [callback EXCEPT ![c] = IF old.found = {} THEN AfterObserver(old) ELSE mid]
        BY <1>1, <3>2 DEF DeleteProperties, TypeInv
      <4> HIDE DEF mid
      <4> QED BY <4>1
    <3> QED BY <3>1, <3>2
  <2> HIDE DEF mid
  <2> QED BY <1>3, <1>4, <2>1, <2>3, <2>4
<1>6. PICK next \in CallState : callback' = [callback EXCEPT ![c] = next] /\ Proceeds(c, e, next)
  BY <1>5
<1>7. /\ callback' \in [Calls -> CallState] /\ callback'[c] = next
      /\ \A d \in Calls \ {c} : callback'[d] = callback[d]
  BY <1>1, <1>6, SetCall
<1> QED BY <1>1, <1>2, <1>6, <1>7, RecordStays, AddingStays DEF CallMoves, background, history

LEMMA FindParentMoves ==
  ASSUME IInv, NEW c \in Calls, FindParent(c)
  PROVE  CallMoves(c)
<1> DEFINE e == callback[c].queue[1]
           old == callback[c]
<1>1. /\ up /\ old.queue # <<>> /\ old.at = "walk"
      /\ UNCHANGED <<outside, background, rows, queue, history, incidents>>
      /\ e \in Event /\ StepOK(e, "walk") /\ old \in CallState /\ TypeInv
  BY CallHasEvent DEF FindParent, At, IInv
<1>2. PICK u \in old.walks : callback' = [callback EXCEPT ![c].walks = Climb(@, u), ![c].found = @ \cup {u}]
  BY DEF FindParent
<1> DEFINE next == [old EXCEPT !.walks = Climb(old.walks, u), !.found = old.found \cup {u}]
<1>3. callback' = [callback EXCEPT ![c] = next]
  BY <1>1, <1>2 DEF TypeInv
<1>4. next \in CallState /\ next.queue = old.queue /\ next.at = "walk"
  <2>1. Climb(old.walks, u) \in SUBSET Tokens /\ old.found \cup {u} \in SUBSET Tokens
    BY <1>1 DEF Climb, Nested, CallState
  <2> HIDE DEF Climb
  <2> QED BY <1>1, <2>1 DEF CallState
<1> HIDE DEF next
<1>5. Proceeds(c, e, next)
  <2> HIDE DEF e
  <2> QED BY <1>1, <1>4 DEF Proceeds
<1>6. /\ callback' \in [Calls -> CallState] /\ callback'[c] = next
      /\ \A d \in Calls \ {c} : callback'[d] = callback[d]
  BY <1>1, <1>3, <1>4, SetCall
<1> QED BY <1>1, <1>5, <1>6, RowsStay, RecordStays, AddingStays DEF CallMoves, background, history, rows

LEMMA EndWalkMoves ==
  ASSUME IInv, NEW c \in Calls, EndWalk(c)
  PROVE  CallMoves(c)
<1> DEFINE e == callback[c].queue[1]
           old == callback[c]
<1>1. /\ up /\ old.queue # <<>> /\ old.at = "walk"
      /\ UNCHANGED <<outside, adding, running, collecting, rows, queue, history, incidents>>
      /\ e \in Event /\ StepOK(e, "walk") /\ old \in CallState /\ TypeInv /\ Current(c) = e
  BY CallHasEvent DEF EndWalk, At, IInv
<1>2. requests' = requests \cup ((old.found \cup {e.token}) \X {"collectTokens"})
  BY <1>1 DEF EndWalk, ToUpdate
<1>3. e.token \in Tokens /\ old.found \in SUBSET Tokens /\ e.method # "ItemDestroyed"
  BY <1>1 DEF StepOK, CallState
<1>4. requests' \subseteq Job /\ <<e.token, "collectTokens">> \in requests' /\ requests \subseteq requests'
  <2> HIDE DEF e
  <2> QED BY <1>1, <1>2, <1>3 DEF Job, Kinds, TypeInv
<1>5. callback' = [callback EXCEPT ![c] = EndOf(old)]
  BY <1>1 DEF EndWalk, Advance, TypeInv
<1>6. Proceeds(c, e, EndOf(old)) /\ EndOf(old) \in CallState
  BY <1>1, <1>3, <1>4, EndOfType DEF Proceeds, Finished
<1>7. /\ callback' \in [Calls -> CallState] /\ callback'[c] = EndOf(old)
      /\ \A d \in Calls \ {c} : callback'[d] = callback[d]
  BY <1>1, <1>5, <1>6, SetCall
<1>8. RecordGrows
  BY <1>1, <1>4 DEF RecordGrows, history, TypeInv
<1> QED BY <1>1, <1>6, <1>7, <1>8, RowsStay, AddingStays DEF CallMoves, history, rows

LEMMA OfferGoesMoves ==
  ASSUME IInv, NEW c \in Calls, FindOffer(c) \/ DeleteOffer(c)
  PROVE  CallMoves(c)
<1> DEFINE e == callback[c].queue[1]
           old == callback[c]
<1>1. /\ up /\ old.queue # <<>>
      /\ UNCHANGED <<outside, background, block, tokens, index, onMarket, queue, history, incidents>>
      /\ e \in Event /\ old \in CallState /\ TypeInv /\ Current(c) = e
      /\ e.token \in Tokens /\ e.method = "ItemDestroyed"
  BY CallHasEvent DEF FindOffer, DeleteOffer, At, IInv, StepOK, rows
<1>2. RowsGo
  BY <1>1 DEF FindOffer, DeleteOffer, RowsGo, TypeInv, rows, Open, history
<1>3. \E next \in CallState : callback' = [callback EXCEPT ![c] = next] /\ Proceeds(c, e, next)
  <2>1. CASE e.token \in Open /\ FindOffer(c)
    <3> DEFINE mid == [old EXCEPT !.at = "delete_offer"]
    <3>1. callback' = [callback EXCEPT ![c] = mid]
      BY <1>1, <2>1 DEF FindOffer, Goto, TypeInv, Open
    <3>2. mid \in CallState /\ mid.queue = old.queue /\ mid.at = "delete_offer"
      BY <1>1 DEF CallState
    <3>3. StepOK(e, "delete_offer")
      BY <1>1 DEF StepOK
    <3> HIDE DEF mid, e
    <3> QED BY <3>1, <3>2, <3>3 DEF Proceeds
  <2>2. CASE ~(e.token \in Open /\ FindOffer(c))
    <3>1. callback' = [callback EXCEPT ![c] = EndOf(old)]
      BY <1>1, <2>2 DEF FindOffer, DeleteOffer, Advance, TypeInv, Open
    <3>2. e.token \notin Open'
      BY <1>1, <2>2 DEF FindOffer, DeleteOffer, rows, Open, TypeInv
    <3>3. EndOf(old) \in CallState /\ Proceeds(c, e, EndOf(old))
      BY <1>1, <3>2, EndOfType DEF Proceeds, Finished
    <3> QED BY <3>1, <3>3
  <2> QED BY <2>1, <2>2
<1>4. PICK next \in CallState : callback' = [callback EXCEPT ![c] = next] /\ Proceeds(c, e, next)
  BY <1>3
<1>5. /\ callback' \in [Calls -> CallState] /\ callback'[c] = next
      /\ \A d \in Calls \ {c} : callback'[d] = callback[d]
  BY <1>1, <1>4, SetCall
<1> QED BY <1>1, <1>2, <1>4, <1>5, RecordStays, AddingStays DEF CallMoves, background, history

LEMMA AfterOrderMoves ==
  ASSUME IInv, NEW t \in Tokens, callback[t].queue # <<>>
  PROVE  AfterOrder(Current(t)) \in CallState /\ Proceeds(t, callback[t].queue[1], AfterOrder(Current(t)))
<1> DEFINE e == callback[t].queue[1]
           old == callback[t]
           mid == [old EXCEPT !.at = "record"]
<1>1. /\ t \in Calls /\ Current(t) = e /\ e \in Event /\ IsSale(e) /\ e.token = t
      /\ e.method # "ItemDestroyed" /\ old \in CallState
  BY CallHasSale, CallHasEvent
<1>2. EndOf(old) \in CallState /\ Proceeds(t, e, EndOf(old))
  BY <1>1, EndOfType DEF Proceeds, Finished
<1>3. mid \in CallState /\ mid.queue = old.queue /\ mid.at = "record"
  BY <1>1 DEF CallState
<1>4. StepOK(e, "record")
  BY <1>1 DEF StepOK
<1> HIDE DEF mid
<1>5. mid \in CallState /\ Proceeds(t, e, mid)
  <2> HIDE DEF e
  <2> QED BY <1>3, <1>4 DEF Proceeds
<1>6. AfterOrder(Current(t)) \in {EndOf(old), mid}
  <2>1. AfterOrder(Current(t)) = IF Current(t).method = "TokenPriceChanged" THEN EndOf(old)
                                 ELSE [old EXCEPT !.at = "record"]
    BY <1>1 DEF AfterOrder
  <2> QED BY <2>1 DEF mid
<1> QED BY <1>2, <1>5, <1>6

\* A call that goes to another step of the event of an order.
LEMMA SaleGoesTo ==
  ASSUME IInv, NEW t \in Tokens, callback[t].queue # <<>>, NEW step,
         step \in {"save_order", "add_collection", "observe"}, Goto(t, step)
  PROVE  /\ [callback[t] EXCEPT !.at = step] \in CallState
         /\ callback' = [callback EXCEPT ![t] = [callback[t] EXCEPT !.at = step]]
         /\ Proceeds(t, callback[t].queue[1], [callback[t] EXCEPT !.at = step])
<1> DEFINE e == callback[t].queue[1]
           old == callback[t]
           next == [old EXCEPT !.at = step]
<1>1. t \in Calls /\ e.token = t /\ old \in CallState /\ TypeInv
  BY CallHasSale, CallHasEvent DEF IInv
<1>2. callback' = [callback EXCEPT ![t] = next]
  BY <1>1 DEF Goto, TypeInv
<1>3. next \in CallState /\ next.queue = old.queue /\ next.at = step
  BY <1>1 DEF CallState
<1>4. StepOK(e, step)
  BY <1>1 DEF StepOK
<1> HIDE DEF next
<1>5. Proceeds(t, e, next)
  <2> HIDE DEF e
  <2> QED BY <1>3, <1>4 DEF Proceeds
<1> QED BY <1>2, <1>3, <1>5 DEF next

LEMMA SetOfferMoves ==
  ASSUME IInv, NEW t \in Tokens, callback[t].queue # <<>>, SetOffer(t, Current(t)),
         UNCHANGED <<tokens, index, missed, requests>>
  PROVE  /\ RowsGo /\ RecordGrows
         /\ \E next \in CallState :
              callback' = [callback EXCEPT ![t] = next] /\ Proceeds(t, callback[t].queue[1], next)
<1>1. TypeInv
  BY DEF IInv
<1>2. RecordGrows
  BY <1>1 DEF SetOffer, RecordGrows, TypeInv
<1>3. RowsGo
  BY <1>1 DEF SetOffer, RowsGo, TypeInv, Open
<1> QED BY <1>2, <1>3, AfterOrderMoves DEF SetOffer

LEMMA SaleMoves ==
  ASSUME IInv, NEW t \in Tokens, HandleSale(t)
  PROVE  t \in Calls /\ CallMoves(t)
<1> DEFINE e == callback[t].queue[1]
           old == callback[t]
<1>1. /\ up /\ old.queue # <<>> /\ TypeInv
      /\ UNCHANGED <<outside, requests, running, collecting,
                     block, tokens, index, onMarket, queue, missed, reset, incidents>>
  BY DEF HandleSale, FindOrder, SaveOrder, CommitOrder, RecordSale, At, IInv, background, rows, history
<1>2. t \in Calls /\ old \in CallState /\ Current(t) = e /\ IsSale(e) /\ e.method # "ItemDestroyed"
  BY <1>1, CallHasSale, CallHasEvent
<1>3. ASSUME UNCHANGED <<offers, overlooked>> PROVE RowsGo /\ RecordGrows
  BY <1>1, <1>3, RowsStay, RecordStays
<1>4. ASSUME Advance(t)
      PROVE  \E next \in CallState : callback' = [callback EXCEPT ![t] = next] /\ Proceeds(t, e, next)
  <2>1. callback' = [callback EXCEPT ![t] = EndOf(old)]
    BY <1>1, <1>2, <1>4 DEF Advance, TypeInv
  <2>2. EndOf(old) \in CallState /\ Proceeds(t, e, EndOf(old))
    BY <1>1, <1>2, EndOfType DEF Proceeds, Finished
  <2> QED BY <2>1, <2>2
<1>5. ASSUME NEW step \in {"save_order", "add_collection", "observe"}, Goto(t, step)
      PROVE  \E next \in CallState : callback' = [callback EXCEPT ![t] = next] /\ Proceeds(t, e, next)
  BY <1>1, <1>5, SaleGoesTo
<1>6. /\ RowsGo /\ RecordGrows /\ adding' \in [Calls -> AddingState]
      /\ \E next \in CallState : callback' = [callback EXCEPT ![t] = next] /\ Proceeds(t, e, next)
  <2>1. CASE FindOrder(t)
    <3>1. UNCHANGED <<offers, overlooked, adding>> /\ (Advance(t) \/ Goto(t, "save_order"))
      BY <2>1 DEF FindOrder, background, rows, history
    <3> QED BY <1>1, <1>3, <1>4, <1>5, <3>1, AddingStays
  <2>2. CASE SaveOrder(t)
    <3>1. CASE SetOffer(t, Current(t)) /\ UNCHANGED adding
      BY <1>1, <3>1, SetOfferMoves, AddingStays
    <3>2. CASE /\ adding' = [adding EXCEPT ![t].at = Entered(FALSE)]
               /\ Goto(t, "add_collection") /\ UNCHANGED <<offers, overlooked>>
      <4>1. Entered(FALSE) \in {"idle", "read"}
        BY DEF Entered
      <4>2. [adding[t] EXCEPT !.at = Entered(FALSE)] \in AddingState
        BY <1>1, <1>2, <4>1 DEF TypeInv, AddingState
      <4>3. adding' \in [Calls -> AddingState]
        BY <1>1, <1>2, <3>2, <4>2 DEF TypeInv
      <4> QED BY <1>3, <1>5, <3>2, <4>3
    <3> QED BY <2>2, <3>1, <3>2 DEF SaveOrder
  <2>3. CASE CommitOrder(t)
    <3>1. SetOffer(t, Current(t)) /\ UNCHANGED adding
      BY <2>3 DEF CommitOrder, background
    <3> QED BY <1>1, <3>1, SetOfferMoves, AddingStays
  <2>4. CASE RecordSale(t)
    <3>1. UNCHANGED <<offers, overlooked, adding>> /\ (Advance(t) \/ Goto(t, "observe"))
      BY <2>4 DEF RecordSale, background, rows, history
    <3> QED BY <1>1, <1>3, <1>4, <1>5, <3>1, AddingStays
  <2> QED BY <2>1, <2>2, <2>3, <2>4 DEF HandleSale
<1>7. PICK next \in CallState : callback' = [callback EXCEPT ![t] = next] /\ Proceeds(t, e, next)
  BY <1>6
<1>8. /\ callback' \in [Calls -> CallState] /\ callback'[t] = next
      /\ \A d \in Calls \ {t} : callback'[d] = callback[d]
  BY <1>1, <1>2, <1>7, SetCall
<1> QED BY <1>1, <1>2, <1>6, <1>7, <1>8 DEF CallMoves

LEMMA FailMoves ==
  ASSUME IInv, NEW c \in Calls, Fail(c)
  PROVE  CallMoves(c)
<1> DEFINE e == callback[c].queue[1]
           old == callback[c]
<1>1. /\ up /\ old.queue # <<>> /\ UNCHANGED <<outside, background, rows, queue, reset>>
      /\ e \in Event /\ Given(e) /\ StepOK(e, old.at) /\ old \in CallState /\ TypeInv /\ Current(c) = e
  BY CallHasEvent DEF Fail, At, IInv
<1>2. /\ missed' = IF old.at \in {"find_offer", "delete_offer"} \/ e.token = None \/ IsSale(e)
                   THEN missed ELSE missed \cup JobsOf({e.token})
      /\ overlooked' = IF e.method = "ItemDestroyed" THEN overlooked \cup {e.token} ELSE overlooked
  BY <1>1 DEF Fail
<1>3. callback' = [callback EXCEPT ![c] = EndOf(old)] /\ EndOf(old) \in CallState
  BY <1>1, EndOfType DEF Fail, Advance, TypeInv
<1>4. RecordGrows
  <2>1. e.token # None => JobsOf({e.token}) \subseteq Job
    BY <1>1 DEF JobsOf, Job, Event
  <2>2. e.method = "ItemDestroyed" => e.token \in Tokens
    BY <1>1 DEF Given, Happened
  <2> HIDE DEF e
  <2> QED BY <1>1, <1>2, <2>1, <2>2 DEF RecordGrows, background, TypeInv
<1>5. Finished(e)
  <2>1. e.method = "ItemDestroyed" => e.token \in overlooked'
    BY <1>2
  <2>2. e.method # "ItemDestroyed" /\ ~IsSale(e) /\ e.token \in Tokens => JobsOf({e.token}) \subseteq missed'
    BY <1>1, <1>2, IndexerInputs DEF StepOK, None
  <2> QED BY <2>1, <2>2 DEF Finished
<1>6. /\ callback' \in [Calls -> CallState] /\ callback'[c] = EndOf(old)
      /\ \A d \in Calls \ {c} : callback'[d] = callback[d]
  BY <1>1, <1>3, SetCall
<1>7. RowsGo
  BY <1>1, <1>4, RowsStay DEF RecordGrows, rows
<1> QED BY <1>1, <1>4, <1>5, <1>6, <1>7, AddingStays DEF CallMoves, Proceeds, background, rows

LEMMA CallsMove ==
  ASSUME IInv, NEW c \in Calls, Handle(c) \/ Fail(c)
  PROVE  CallMoves(c)
BY SaveBlockMoves, ObserveMoves, FindRowsMoves, DeleteRowsMoves, FindParentMoves, EndWalkMoves,
   OfferGoesMoves, FailMoves DEF Handle

-----------------------------------------------------------------------------
(* The invariant, step by step.                                            *)

\* Counted tokens are finitely many.
LEMMA FewerAreCounted ==
  ASSUME NEW A, NEW B, A \subseteq B, B \subseteq Tokens
  PROVE  Cardinality(A) <= Cardinality(B) /\ Cardinality(A) \in Nat /\ Cardinality(B) \in Nat
<1>1. IsFiniteSet(B) /\ IsFiniteSet(A)
  BY IndexerInputs, FS_Subset
<1>2. Cardinality(A) \in Nat /\ Cardinality(B) \in Nat
  BY <1>1, FS_CardinalityType
<1> QED BY <1>1, <1>2, FS_Subset

LEMMA CountingIsSmall ==
  CountedTokens \subseteq Tokens
BY DEF CountedTokens

LEMMA FewerCounted ==
  ASSUME TypeInv, CountInv, UNCHANGED <<onMarket, reset>>, CountedTokens' \subseteq CountedTokens
  PROVE  CountInv'
<1>1. /\ Cardinality(CountedTokens') <= Cardinality(CountedTokens)
      /\ Cardinality(CountedTokens') \in Nat /\ Cardinality(CountedTokens) \in Nat
  BY FewerAreCounted, CountingIsSmall
<1>2. ASSUME NEW k \in DOMAIN onMarket \ reset PROVE onMarket[k] >= Cardinality(CountedTokens')
  <2>1. onMarket[k] \in Int /\ onMarket[k] >= Cardinality(CountedTokens)
    BY DEF TypeInv, CollectionInv, CountInv
  <2> QED BY <1>1, <2>1
<1> QED BY <1>2 DEF CountInv

LEMMA CallKeepsTypes ==
  ASSUME IInv, NEW c \in Calls, CallMoves(c)
  PROVE  TypeInv' /\ JobInv'
<1>1. callback[c].queue[1] \in Event
  BY CallHasEvent DEF CallMoves
<1>2. block' \in 0 .. MaxBlock
  BY <1>1 DEF CallMoves, IInv, TypeInv, Event
<1>3. OrderInv' /\ CollectionInv'
  BY DEF CallMoves, IInv, TypeInv, OrderInv, CollectionInv, outside, external, queue
<1>5. TypeInv'
  BY <1>2, <1>3 DEF CallMoves, RowsGo, RecordGrows, IInv, TypeInv, outside, external, queue
<1>4. JobInv'
  BY DEF CallMoves, RowsGo, IInv, TypeInv, JobInv, JobOK
<1> QED BY <1>4, <1>5

\* Blocks that events of calls are saved of are not after those that are to be delivered.
LEMMA SavedBlock ==
  ASSUME IInv, NEW c \in Calls, CallMoves(c)
  PROVE  /\ FromBlock' <= HeadBlock
         /\ \A i \in delivered + 1 .. Len(chain) : FromBlock' <= chain[i].block
<1> DEFINE e == callback[c].queue[1]
<1>1. e \in Event /\ Given(e) /\ up /\ block' \in {block, e.block}
  BY CallHasEvent DEF CallMoves
<1>2. TypeInv /\ ChainInv /\ CallInv
  BY DEF IInv
<1>3. ASSUME NEW i \in 1 .. Len(chain) PROVE chain[i].block \in Nat /\ 1 <= chain[i].block
  <2>1. chain[i] \in Event /\ 1 <= chain[i].block
    BY <1>2 DEF TypeInv, ChainInv
  <2> QED BY <2>1, IndexerInputs DEF Event
<1>4. HeadBlock \in Nat /\ 1 <= HeadBlock
  <2>1. CASE chain = <<>>
    BY <2>1 DEF HeadBlock
  <2>2. CASE chain # <<>>
    <3>1. Len(chain) \in 1 .. Len(chain)
      BY <1>2, <2>2 DEF TypeInv
    <3> QED BY <1>3, <2>2, <3>1 DEF HeadBlock
  <2> QED BY <2>1, <2>2
<1>5. CASE block' = block
  BY <1>1, <1>2, <1>5 DEF CallInv, FromBlock
<1>6. CASE block' = e.block /\ e.block = 0
  BY <1>2, <1>3, <1>4, <1>6 DEF FromBlock, TypeInv
<1>7. CASE block' = e.block /\ e.block # 0
  <2>1. PICK j \in 1 .. delivered : chain[j] = e
    BY <1>1, <1>7 DEF Given
  <2>2. j \in 1 .. Len(chain) /\ Len(chain) \in 1 .. Len(chain) /\ j <= Len(chain) /\ chain # <<>>
    BY <1>2, <2>1 DEF TypeInv
  <2>3. FromBlock' = chain[j].block
    BY <1>7, <2>1 DEF FromBlock
  <2>4. chain[j].block <= chain[Len(chain)].block /\ HeadBlock = chain[Len(chain)].block
    BY <1>2, <2>2 DEF ChainInv, HeadBlock
  <2>5. ASSUME NEW i \in delivered + 1 .. Len(chain) PROVE chain[j].block <= chain[i].block
    <3>1. i \in 1 .. Len(chain) /\ j <= i
      BY <1>2, <2>1 DEF TypeInv
    <3> QED BY <1>2, <2>2, <3>1 DEF ChainInv
  <2> QED BY <2>3, <2>4, <2>5
<1> QED BY <1>1, <1>5, <1>6, <1>7

LEMMA TailElements ==
  ASSUME NEW q \in Seq(Event), q # <<>>
  PROVE  /\ \A i \in 1 .. Len(Tail(q)) : i + 1 \in 1 .. Len(q) /\ Tail(q)[i] = q[i + 1]
         /\ \A i \in 2 .. Len(q) : i - 1 \in 1 .. Len(Tail(q)) /\ Tail(q)[i - 1] = q[i]
OBVIOUS

LEMMA CallKeepsCalls ==
  ASSUME IInv, NEW c \in Calls, CallMoves(c)
  PROVE  ChainInv' /\ CallInv'
<1>1. UNCHANGED <<owner, chain, orders, delivered, up>> /\ up
  BY DEF CallMoves, outside, external
<1>2. ChainInv'
  BY <1>1 DEF IInv, ChainInv, SalesInv, Happened
<1>3. \A e : Given(e) => Given(e)'
  BY <1>1 DEF Given, Happened
<1>4. \A e, at : StepOK(e, at) => StepOK(e, at)'
  BY <1>1 DEF StepOK
<1>5. ASSUME NEW d \in Calls PROVE CallOK(d)'
  <2>1. CallOK(d)
    BY DEF IInv, CallInv
  <2>2. CASE d # c
    <3>1. callback'[d] = callback[d]
      BY <2>2 DEF CallMoves
    <3> QED BY <1>1, <1>3, <1>4, <2>1, <3>1 DEF CallOK
  <2>3. CASE d = c
    <3> DEFINE old == callback[c]
    <3> PICK new : new = callback'[c]
      OBVIOUS
    <3>1. old \in CallState /\ old.queue # <<>> /\ old.queue \in Seq(Event)
      BY CallHasEvent DEF CallMoves, CallState
    <3>2. CASE new.queue = old.queue /\ StepOK(old.queue[1], new.at)
      BY <1>1, <1>3, <1>4, <2>1, <2>3, <3>1, <3>2 DEF CallOK
    <3>3. CASE new = EndOf(old)
      <4>1. new.queue = Tail(old.queue) /\ new.at = "save_block"
        BY <3>1, <3>3, EndOfType
      <4>2. new.queue = <<>> => new = IdleCallback
        BY <3>3 DEF EndOf, IdleCallback
      <4>3. \A i \in 1 .. Len(new.queue) : Given(new.queue[i])
        <5>1. TAKE i \in 1 .. Len(new.queue)
        <5>2. i + 1 \in 1 .. Len(old.queue) /\ new.queue[i] = old.queue[i + 1]
          BY <3>1, <4>1, TailElements
        <5> QED BY <2>1, <2>3, <5>2 DEF CallOK
      <4>4. \A e : StepOK(e, "save_block")
        BY DEF StepOK
      <4>6. d \in Tokens => \A i \in 1 .. Len(new.queue) : IsSale(new.queue[i]) /\ new.queue[i].token = d
        <5>1. HAVE d \in Tokens
        <5>2. TAKE i \in 1 .. Len(new.queue)
        <5>3. i + 1 \in 1 .. Len(old.queue) /\ new.queue[i] = old.queue[i + 1]
          BY <3>1, <4>1, TailElements
        <5> QED BY <2>1, <2>3, <5>1, <5>3 DEF CallOK
      <4>5. /\ new.queue = <<>> => new = IdleCallback
            /\ \A i \in 1 .. Len(new.queue) : Given(new.queue[i])'
            /\ new.queue # <<>> => StepOK(new.queue[1], new.at)'
        BY <1>3, <1>4, <4>1, <4>2, <4>3, <4>4
      <4> QED BY <1>1, <2>3, <4>5, <4>6 DEF CallOK
    <3> QED BY <3>2, <3>3 DEF CallMoves, Proceeds
  <2> QED BY <2>2, <2>3
<1>6. HeadBlock' = HeadBlock
  BY <1>1 DEF HeadBlock
<1> QED BY <1>1, <1>2, <1>5, <1>6, SavedBlock DEF CallInv

\* Only an event that a call leaves is no longer to come.
LEMMA CallKeepsComing ==
  ASSUME IInv, NEW c \in Calls, CallMoves(c), NEW S, Coming(S), ~Coming(S)'
  PROVE  callback[c].queue[1] \in S /\ Finished(callback[c].queue[1])
<1>1. UNCHANGED <<chain, delivered, up>> /\ up
  BY DEF CallMoves, outside, external
<1>2. \A i \in delivered + 1 .. Len(chain) : chain[i] \notin S
  BY <1>1 DEF Coming
<1> PICK d \in Calls : \E i \in 1 .. Len(callback[d].queue) : callback[d].queue[i] \in S
  BY <1>1, <1>2 DEF Coming
<1>3. PICK i \in 1 .. Len(callback[d].queue) : callback[d].queue[i] \in S
  OBVIOUS
<1>4. d = c
  <2>1. d # c => callback'[d] = callback[d]
    BY DEF CallMoves
  <2> QED BY <1>1, <1>3, <2>1 DEF Coming
<1> DEFINE old == callback[c]
           new == callback'[c]
<1>5. new.queue # old.queue
  BY <1>1, <1>3, <1>4 DEF Coming
<1>6. new = EndOf(old) /\ Finished(old.queue[1])
  BY <1>5 DEF CallMoves, Proceeds
<1>7. old \in CallState /\ old.queue # <<>> /\ old.queue \in Seq(Event) /\ new.queue = Tail(old.queue)
  BY <1>6, CallHasEvent, EndOfType DEF CallMoves, CallState
<1>8. i = 1
  <2>1. SUFFICES ASSUME i # 1 PROVE FALSE
    OBVIOUS
  <2>2. i \in 2 .. Len(old.queue)
    BY <1>3, <1>4, <1>7, <2>1
  <2>3. i - 1 \in 1 .. Len(new.queue) /\ new.queue[i - 1] = old.queue[i]
    BY <1>7, <2>2, TailElements
  <2> QED BY <1>1, <1>3, <1>4, <2>3 DEF Coming
<1> QED BY <1>3, <1>4, <1>6, <1>8

LEMMA CallKeepsTables ==
  ASSUME IInv, NEW c \in Calls, CallMoves(c)
  PROVE  CountInv' /\ OfferInv' /\ IndexInv'
<1> DEFINE e == callback[c].queue[1]
<1>1. /\ UNCHANGED <<owner, chain, orders, delivered, up, running, collecting, jobs, onMarket, reset>>
      /\ up /\ TypeInv /\ e \in Event /\ Given(e)
  BY CallHasEvent DEF CallMoves, outside, external, queue, IInv
<1>2. CountInv'
  <2>1. CountedTokens' \subseteq CountedTokens
    BY <1>1 DEF CountedTokens, CallMoves, RowsGo
  <2> QED BY <1>1, <2>1, FewerCounted DEF IInv
<1>3. ASSUME NEW t \in Open' \ overlooked', ~Live(t)' PROVE Coming(Burnings(t))'
  <2>1. t \in Open \ overlooked /\ ~Live(t)
    BY <1>1, <1>3 DEF CallMoves, RowsGo, RecordGrows, Live
  <2>2. PICK S : S = Burnings(t)
    OBVIOUS
  <2>3. Coming(S)
    BY <2>1, <2>2 DEF IInv, OfferInv
  <2>4. SUFFICES ASSUME ~Coming(S)' PROVE FALSE
    BY <2>2 DEF Burnings
  <2>5. e \in S /\ Finished(e)
    BY <2>3, <2>4, CallKeepsComing
  <2>6. e.token = t /\ e.method = "ItemDestroyed"
    BY <2>2, <2>5 DEF Burnings
  <2> HIDE DEF e
  <2> QED BY <1>3, <2>5, <2>6 DEF Finished
<1>4. ASSUME NEW t \in Tokens, Live(t)' PROVE RowInv(t)' /\ FoundInv(t)'
  <2>1. Live(t) /\ owner[t] # Burnt /\ RowInv(t) /\ FoundInv(t)
    BY <1>1, <1>4, IndexerInputs DEF Live, IInv, IndexInv, Owners
  <2>2. WillTell(t)' = WillTell(t) /\ (WillBeFound(t) => WillBeFound(t)')
    BY <1>1, <2>1 DEF WillTell, WillBeFound, CallMoves, RowsGo
  <2>3. missed \subseteq missed' /\ requests \subseteq requests'
    BY DEF CallMoves, RecordGrows
  <2>4. PICK S : S = Changes(t)
    OBVIOUS
  <2>5. CASE Coming(S) => Coming(S)'
    <3>1. \A kind : Due(t, kind) => Due(t, kind)'
      BY <1>1, <2>3, <2>4, <2>5 DEF Due, Changes
    <3> QED BY <1>1, <2>1, <2>2, <2>3, <3>1 DEF RowInv, FoundInv
  <2>6. CASE Coming(S) /\ ~Coming(S)'
    <3>1. e \in S /\ Finished(e)
      BY <2>6, CallKeepsComing
    <3>2. e.token = t /\ e.method # "ItemDestroyed" /\ ~IsSale(e)
      BY <2>4, <3>1 DEF Changes
    <3>3. JobsOf({t}) \subseteq missed' \/ <<t, "collectTokens">> \in requests'
      <4> HIDE DEF e
      <4> QED BY <2>1, <3>1, <3>2 DEF Finished
    <3>4. <<t, "collectTokens">> \in JobsOf({t}) /\ <<t, "collectProperties">> \in JobsOf({t})
      BY DEF JobsOf, Kinds
    <3> QED BY <3>3, <3>4 DEF RowInv, FoundInv, Due
  <2> QED BY <2>5, <2>6
<1> QED BY <1>2, <1>3, <1>4 DEF OfferInv, IndexInv

\* Of a change of its owner an event tells.
Tells(e) ==
  /\ NewEvent(e) /\ OwnersGoOn /\ OrdersGoOn /\ Happened(e)'
  /\ owner' \in [Tokens -> Owners \cup {Unminted, Burnt}]
  /\ \A t \in Tokens : Live(t) /\ ~Live(t)' => e \in Burnings(t)
  /\ \A t \in Tokens : Live(t)' /\ owner'[t] # owner[t] => e \in Changes(t)

LEMMA NamesOfOwners ==
  /\ Unminted \notin Owners /\ Burnt \notin Owners /\ NoRow \notin Owners
  /\ None \notin Tokens
BY IndexerInputs DEF Owners, None

LEMMA OrdersStay ==
  ASSUME IInv, OwnersGoOn, UNCHANGED <<orders, heard>>
  PROVE  OrdersGoOn
BY DEF IInv, TypeInv, OrderInv, ChainInv, SalesInv, OrdersGoOn, OwnersGoOn

LEMMA MintTells ==
  ASSUME IInv, NEW t \in Tokens, NEW o \in Owners, Mint(t, o)
  PROVE  \E e : Tells(e)
<1>1. /\ owner[t] = Unminted /\ owner' = [owner EXCEPT ![t] = o] /\ Emit("ItemCreated", t, NoRow, o)
      /\ UNCHANGED orders /\ TypeInv
  BY DEF Mint, IInv
<1>2. PICK e : NewEvent(e) /\ e.method = "ItemCreated" /\ e.token = t
  BY <1>1, EmitIsNew DEF Methods
<1>3. owner' \in [Tokens -> Owners \cup {Unminted, Burnt}]
  BY <1>1 DEF TypeInv
<1>4. owner'[t] = o /\ \A u \in Tokens \ {t} : owner'[u] = owner[u]
  BY <1>1 DEF TypeInv
<1>5. OwnersGoOn /\ Happened(e)'
  <2>1. o # Unminted /\ owner[t] # Burnt
    BY <1>1, NamesOfOwners, IndexerInputs
  <2> QED BY <1>2, <1>4, <2>1 DEF OwnersGoOn, Happened
<1>6. e \in Changes(t)
  BY <1>2 DEF Changes, NewEvent, IsSale, Sales
<1>7. Live(t)' /\ ~Live(t)
  BY <1>1, <1>4, NamesOfOwners DEF Live
<1>8. OrdersGoOn
  BY <1>1, <1>2, <1>5, OrdersStay DEF NewEvent
<1> QED BY <1>2, <1>3, <1>4, <1>5, <1>6, <1>7, <1>8 DEF Tells, Live

LEMMA TransferTells ==
  ASSUME IInv, NEW t \in Tokens, NEW o \in Owners, Transfer(t, o)
  PROVE  \E e : Tells(e)
<1>1. /\ Live(t) /\ owner' = [owner EXCEPT ![t] = o] /\ Emit("Transfer", t, owner[t], o)
      /\ UNCHANGED orders /\ TypeInv
  BY DEF Transfer, IInv
<1>2. PICK e : NewEvent(e) /\ e.method = "Transfer" /\ e.token = t
  BY <1>1, EmitIsNew DEF Methods
<1>3. owner' \in [Tokens -> Owners \cup {Unminted, Burnt}]
  BY <1>1 DEF TypeInv
<1>4. owner'[t] = o /\ \A u \in Tokens \ {t} : owner'[u] = owner[u]
  BY <1>1 DEF TypeInv
<1>5. owner[t] # Burnt /\ owner[t] # Unminted
  BY <1>1, NamesOfOwners DEF Live
<1>6. OwnersGoOn /\ Happened(e)'
  BY <1>2, <1>4, <1>5, NamesOfOwners DEF OwnersGoOn, Happened
<1>7. e \in Changes(t)
  BY <1>2 DEF Changes, NewEvent, IsSale, Sales
<1>8. Live(t)'
  BY <1>4 DEF Live
<1>9. OrdersGoOn
  BY <1>1, <1>2, <1>6, OrdersStay DEF NewEvent
<1> QED BY <1>2, <1>3, <1>4, <1>6, <1>7, <1>8, <1>9 DEF Tells, Live

\* Another event of an order.
LEMMA MoreOfAnOrder ==
  ASSUME IInv, OwnersGoOn, UNCHANGED heard, NEW t \in Tokens, NEW method \in Sales, NEW left \in BOOLEAN,
         owner'[t] # Unminted, Tell(method, t, left)
  PROVE  OrdersGoOn
<1> DEFINE e == [method |-> method, token |-> t, block |-> 0, left |-> left, parents |-> {}]
           old == orders[t]
<1>1. /\ orders' = [orders EXCEPT ![t] = Append(old, e)] /\ orders \in [Tokens -> Seq(Event)]
      /\ OrderInv /\ SalesInv /\ TypeInv
  BY DEF Tell, IInv, TypeInv, OrderInv, ChainInv
<1>2. e \in Event /\ IsSale(e) /\ e.token = t /\ e.block = 0
  BY IndexerInputs DEF Event, IsSale
<1> HIDE DEF e
<1>3. orders'[t] = Append(old, e) /\ \A u \in Tokens \ {t} : orders'[u] = orders[u]
  BY <1>1
<1> PICK new : new = Append(old, e)
  OBVIOUS
<1>4. old \in Seq(Event)
  BY <1>1
<1>5. /\ new \in Seq(Event) /\ Len(new) = Len(old) + 1 /\ new # <<>>
      /\ \A i \in 1 .. Len(new) : new[i] = e \/ (i \in 1 .. Len(old) /\ new[i] = old[i])
  <2> HIDE DEF old
  <2> QED BY <1>2, <1>4
<1>6. OrderInv'
  <2>1. orders' \in [Tokens -> Seq(Event)]
    BY <1>1, <1>5
  <2>2. heard[t] <= Len(new)
    BY <1>1, <1>4, <1>5 DEF OrderInv
  <2> QED BY <1>1, <1>3, <2>1, <2>2 DEF OrderInv
<1>7. SalesInv'
  <2>1. \A i \in 1 .. Len(new) : IsSale(new[i]) /\ new[i].token = t /\ new[i].block = 0
    BY <1>1, <1>2, <1>5 DEF SalesInv
  <2> QED BY <1>1, <1>3, <2>1 DEF SalesInv, OwnersGoOn, IsSale
<1> QED BY <1>6, <1>7 DEF OrdersGoOn

LEMMA PurchaseTells ==
  ASSUME IInv, NEW t \in Tokens, NEW o \in Accounts, NEW left \in BOOLEAN, Purchase(t, o, left)
  PROVE  \E e : Tells(e)
<1>1. /\ owner[t] \in Accounts /\ owner' = [owner EXCEPT ![t] = o] /\ Emit("Transfer", t, owner[t], o)
      /\ Tell("TokenIsPurchased", t, left) /\ TypeInv
  BY DEF Purchase, IInv
<1>2. PICK e : NewEvent(e) /\ e.method = "Transfer" /\ e.token = t
  BY <1>1, EmitIsNew DEF Methods
<1>3. owner' \in [Tokens -> Owners \cup {Unminted, Burnt}]
  BY <1>1 DEF TypeInv, Owners
<1>4. owner'[t] = o /\ o \in Owners /\ \A u \in Tokens \ {t} : owner'[u] = owner[u]
  BY <1>1 DEF TypeInv, Owners
<1>5. Live(t) /\ owner[t] # Burnt /\ owner[t] # Unminted
  BY <1>1, NamesOfOwners DEF Live, Owners
<1>6. OwnersGoOn /\ Happened(e)'
  BY <1>2, <1>4, <1>5, NamesOfOwners DEF OwnersGoOn, Happened
<1>7. e \in Changes(t)
  BY <1>2 DEF Changes, NewEvent, IsSale, Sales
<1>8. Live(t)' /\ owner'[t] # Unminted
  BY <1>4, NamesOfOwners DEF Live
<1>9. OrdersGoOn
  BY <1>1, <1>2, <1>6, <1>8, MoreOfAnOrder DEF NewEvent, Sales
<1> QED BY <1>2, <1>3, <1>4, <1>6, <1>7, <1>8, <1>9 DEF Tells, Live

LEMMA BurnTells ==
  ASSUME IInv, NEW t \in Tokens, Burn(t)
  PROVE  \E e : Tells(e)
<1>1. /\ Live(t) /\ owner' = [owner EXCEPT ![t] = Burnt] /\ Emit("ItemDestroyed", t, owner[t], NoRow)
      /\ UNCHANGED orders /\ TypeInv
  BY DEF Burn, IInv
<1>2. PICK e : NewEvent(e) /\ e.method = "ItemDestroyed" /\ e.token = t
  BY <1>1, EmitIsNew DEF Methods
<1>3. owner' \in [Tokens -> Owners \cup {Unminted, Burnt}]
  BY <1>1 DEF TypeInv
<1>4. owner'[t] = Burnt /\ \A u \in Tokens \ {t} : owner'[u] = owner[u]
  BY <1>1 DEF TypeInv
<1>5. owner[t] # Unminted /\ Burnt # Unminted
  <2>1. Burnt # Unminted
    BY IndexerInputs
  <2> QED BY <1>1, <2>1, NamesOfOwners DEF Live
<1>6. OwnersGoOn /\ Happened(e)'
  BY <1>2, <1>4, <1>5 DEF OwnersGoOn, Happened
<1>7. e \in Burnings(t)
  BY <1>2 DEF Burnings, NewEvent
<1>8. ~Live(t)'
  BY <1>4, NamesOfOwners DEF Live
<1>9. OrdersGoOn
  BY <1>1, <1>2, <1>6, OrdersStay DEF NewEvent
<1> QED BY <1>2, <1>3, <1>4, <1>6, <1>7, <1>8, <1>9 DEF Tells, Live

LEMMA QuietTells ==
  ASSUME IInv, OtherEvent \/ \E t \in Tokens, o \in Owners : Approve(t, o)
  PROVE  \E e : Tells(e)
<1>1. owner' = owner /\ orders' = orders /\ TypeInv
  BY DEF OtherEvent, Approve, IInv
<1>2. \E e : NewEvent(e) /\ e.method # "ItemDestroyed" /\ (e.token \in Tokens => Live(e.token))
  <2>1. CASE OtherEvent
    BY <1>1, <2>1, EmitIsNew, NamesOfOwners DEF OtherEvent, Methods
  <2>2. ASSUME NEW t \in Tokens, NEW o \in Owners, Approve(t, o)
        PROVE  \E e : NewEvent(e) /\ e.method # "ItemDestroyed" /\ (e.token \in Tokens => Live(e.token))
    <3>1. PICK e : NewEvent(e) /\ e.method = "Approved" /\ e.token = t
      BY <1>1, <2>2, EmitIsNew DEF Approve, Methods
    <3>2. Live(t)
      BY <2>2 DEF Approve
    <3> QED BY <3>1, <3>2
  <2> QED BY <2>1, <2>2
<1>3. PICK e : NewEvent(e) /\ e.method # "ItemDestroyed" /\ (e.token \in Tokens => Live(e.token))
  BY <1>2
<1>4. OwnersGoOn /\ Happened(e)'
  BY <1>1, <1>3, NamesOfOwners DEF OwnersGoOn, Happened, Live
<1>5. OrdersGoOn
  BY <1>1, <1>3, <1>4, OrdersStay DEF NewEvent
<1> QED BY <1>1, <1>3, <1>4, <1>5 DEF Tells, Live, TypeInv

LEMMA TellingKeeps ==
  ASSUME IInv, NEW e, Tells(e)
  PROVE  IInv'
<1>1. TypeInv' /\ ChainInv' /\ CallInv'
  BY NewEventType, NewEventKeeps DEF Tells, IInv, OrdersGoOn
<1>2. UNCHANGED <<running, tokens, index, offers, onMarket, reset, collecting,
                  missed, overlooked, requests, jobs>>
  BY DEF Tells, NewEvent, calls, background, rows, queue, history
<1>3. JobInv' /\ CountInv'
  BY <1>2 DEF IInv, JobInv, JobOK, CountInv, CountedTokens
<1>4. \A S : (Coming(S) => Coming(S)') /\ (e \in S => Coming(S)')
  BY NewEventComes DEF Tells, IInv, OrdersGoOn
<1>5. ASSUME NEW t \in Open' \ overlooked', ~Live(t)' PROVE Coming(Burnings(t))'
  <2>1. t \in Tokens /\ t \in Open \ overlooked
    BY <1>2, <1>5 DEF Open
  <2>2. PICK S : S = Burnings(t)
    OBVIOUS
  <2>3. Coming(S) \/ e \in S
    BY <1>5, <2>1, <2>2 DEF Tells, IInv, OfferInv
  <2> QED BY <1>4, <2>2, <2>3 DEF Burnings
<1>6. ASSUME NEW t \in Tokens, Live(t)' PROVE RowInv(t)' /\ FoundInv(t)'
  <2>1. PICK S : S = Changes(t)
    OBVIOUS
  <2>2. WillTell(t)' = WillTell(t) /\ WillBeFound(t)' = WillBeFound(t)
    BY <1>2 DEF WillTell, WillBeFound
  <2>3. CASE owner'[t] # owner[t]
    <3>1. Coming(S)'
      BY <1>4, <1>6, <2>1, <2>3 DEF Tells
    <3> QED BY <2>1, <3>1 DEF RowInv, FoundInv, Due, Changes
  <2>4. CASE owner'[t] = owner[t]
    <3>1. RowInv(t) /\ FoundInv(t)
      BY <1>6, <2>4 DEF IInv, IndexInv, Live
    <3>2. \A kind : Due(t, kind) => Due(t, kind)'
      BY <1>2, <1>4, <2>1 DEF Due, Changes
    <3> QED BY <1>2, <2>2, <2>4, <3>1, <3>2 DEF RowInv, FoundInv
  <2> QED BY <2>3, <2>4
<1> QED BY <1>1, <1>3, <1>5, <1>6 DEF IInv, OfferInv, IndexInv

\* Nothing but the parts that this action is about has changed.
LEMMA TablesUntouched ==
  ASSUME IInv, UNCHANGED <<owner, running, tokens, index, offers, onMarket, reset, collecting,
                           missed, overlooked, requests, jobs>>,
         \A S : Coming(S) => Coming(S)'
  PROVE  JobInv' /\ CountInv' /\ OfferInv' /\ IndexInv'
<1>1. JobInv' /\ CountInv'
  BY DEF IInv, JobInv, JobOK, CountInv, CountedTokens
<1>2. ASSUME NEW t \in Open' \ overlooked', ~Live(t)' PROVE Coming(Burnings(t))'
  <2>1. PICK S : S = Burnings(t)
    OBVIOUS
  <2>2. Coming(S)
    BY <1>2, <2>1 DEF IInv, OfferInv, Live, Open
  <2> QED BY <2>1, <2>2 DEF Burnings
<1>3. ASSUME NEW t \in Tokens, Live(t)' PROVE RowInv(t)' /\ FoundInv(t)'
  <2>1. PICK S : S = Changes(t)
    OBVIOUS
  <2>2. RowInv(t) /\ FoundInv(t)
    BY <1>3 DEF IInv, IndexInv, Live
  <2>3. \A kind : Due(t, kind) => Due(t, kind)'
    BY <2>1 DEF Due, Changes
  <2> QED BY <2>2, <2>3 DEF RowInv, FoundInv, WillTell, WillBeFound
<1> QED BY <1>1, <1>2, <1>3 DEF OfferInv, IndexInv

LEMMA SellKeeps ==
  ASSUME IInv, NEW t \in Tokens, Sell(t)
  PROVE  IInv'
<1>1. /\ UNCHANGED <<owner, chain, happening, heard, delivered, up, calls, rows, queue, history, incidents>>
      /\ owner[t] \in Accounts \/ OnSale(t)
      /\ \E method \in Sales, left \in BOOLEAN : Tell(method, t, left)
  BY DEF Sell, Sales
<1>2. OwnersGoOn
  BY <1>1 DEF OwnersGoOn
<1>3. owner'[t] # Unminted
  BY <1>1, NamesOfOwners DEF IInv, ChainInv, SalesInv, OnSale, Owners
<1>4. OrdersGoOn
  BY <1>1, <1>2, <1>3, MoreOfAnOrder
<1>5. TypeInv'
  <2>1. CollectionInv'
    BY <1>1 DEF IInv, TypeInv, CollectionInv, calls, background, rows, queue, history
  <2> QED BY <1>1, <1>4, <2>1 DEF IInv, TypeInv, OrdersGoOn, calls, background, rows, queue, history
<1>6. ChainInv'
  BY <1>1, <1>4 DEF IInv, ChainInv, OrdersGoOn, Happened
<1>7. CallInv' /\ \A S : Coming(S) => Coming(S)'
  <2>1. UNCHANGED <<owner, chain, delivered, up, callback, block>>
    BY <1>1 DEF calls, rows
  <2>2. HeadBlock' = HeadBlock /\ FromBlock' = FromBlock
    BY <2>1 DEF HeadBlock, FromBlock
  <2>3. \A e : Given(e) <=> Given(e)'
    BY <2>1 DEF Given, Happened
  <2>4. \A c : CallOK(c) <=> CallOK(c)'
    BY <2>1, <2>3 DEF CallOK, StepOK
  <2> QED BY <2>1, <2>2, <2>4 DEF IInv, CallInv, Coming
<1> QED BY <1>1, <1>5, <1>6, <1>7, TablesUntouched DEF IInv, calls, background, rows, queue, history

LEMMA ChainKeeps ==
  ASSUME IInv, Chain
  PROVE  IInv'
BY MintTells, TransferTells, PurchaseTells, BurnTells, QuietTells, TellingKeeps, SellKeeps
   DEF Chain, Owners

LEMMA PartOfSequence ==
  ASSUME NEW q \in Seq(Event), NEW m \in Nat, NEW n \in Nat, m + n <= Len(q)
  PROVE  /\ SubSeq(q, m + 1, m + n) \in Seq(Event) /\ Len(SubSeq(q, m + 1, m + n)) = n
         /\ \A i \in 1 .. n : SubSeq(q, m + 1, m + n)[i] = q[m + i]
OBVIOUS

LEMMA DeliverKeeps ==
  ASSUME IInv, NEW c \in Callbacks, NEW n \in 1 .. MaxEvents, Deliver(c, n)
  PROVE  IInv'
<1> PICK q : q = SubSeq(chain, delivered + 1, delivered + n)
  OBVIOUS
<1>1. /\ up /\ callback[c].queue = <<>> /\ n \in Nat /\ n > 0 /\ delivered + n <= Len(chain)
      /\ delivered' = delivered + n /\ delivered \in 0 .. Len(chain) /\ chain \in Seq(Event)
      /\ callback' = [callback EXCEPT ![c].queue = q]
      /\ UNCHANGED <<external, heard, up, requests, adding, running, collecting, rows, queue, history>>
      /\ TypeInv /\ ChainInv /\ CallInv /\ c \in Calls /\ c \notin Tokens
  BY IndexerInputs DEF Deliver, Free, IInv, TypeInv, background, Calls
<1>2. /\ q \in Seq(Event) /\ Len(q) = n
      /\ \A i \in 1 .. n : q[i] = chain[delivered + i] /\ delivered + i \in 1 .. delivered'
  <2>1. chain \in Seq(Event) /\ delivered \in 0 .. Len(chain) /\ n \in Nat /\ delivered + n <= Len(chain)
    BY <1>1, Zenon
  <2>2. delivered \in Nat
    BY <2>1
  <2>3. /\ q \in Seq(Event) /\ Len(q) = n /\ \A i \in 1 .. n : q[i] = chain[delivered + i]
    BY <2>1, <2>2, PartOfSequence, Zenon
  <2>4. delivered' = delivered + n
    BY <1>1, Zenon
  <2>5. \A i \in 1 .. n : delivered + i \in 1 .. delivered'
    BY <2>1, <2>2, <2>4
  <2> QED BY <2>3, <2>5
<1>3. callback[c] = IdleCallback /\ callback[c] \in CallState
  BY <1>1 DEF CallInv, CallOK, TypeInv
<1> DEFINE task == [IdleCallback EXCEPT !.queue = q]
<1>4. task \in CallState /\ task.queue = q /\ task.at = "save_block"
  BY <1>2 DEF IdleCallback, CallState
<1>5. callback' = [callback EXCEPT ![c] = task]
  BY <1>1, <1>3 DEF TypeInv
<1> HIDE DEF task
<1>6. /\ callback' \in [Calls -> CallState] /\ callback'[c] = task
      /\ \A d \in Calls \ {c} : callback'[d] = callback[d]
  BY <1>1, <1>4, <1>5, SetCall
<1>7. TypeInv'
  <2>1. delivered' \in 0 .. Len(chain')
    BY <1>1 DEF external
  <2>2. OrderInv' /\ CollectionInv'
    BY <1>1 DEF TypeInv, OrderInv, CollectionInv, external, rows, queue, history
  <2> QED BY <1>1, <1>6, <2>1, <2>2 DEF TypeInv, external, rows, queue, history
<1>8. ChainInv'
  BY <1>1 DEF ChainInv, SalesInv, Happened, external
<1>9. \A e : Given(e) => Given(e)'
  BY <1>1 DEF Given, Happened, external
<1>10. ASSUME NEW i \in 1 .. n PROVE Given(q[i])'
  <2>2. delivered + i \in 1 .. Len(chain) /\ delivered + i \in 1 .. delivered' /\ q[i] = chain[delivered + i]
    <3>1. delivered \in Nat /\ Len(chain) \in Nat /\ n \in Nat /\ delivered + n <= Len(chain)
      BY <1>1, LenProperties
    <3>2. delivered + i \in 1 .. Len(chain)
      BY <3>1
    <3>3. delivered + i \in 1 .. delivered' /\ q[i] = chain[delivered + i]
      BY <1>2, Zenon
    <3> QED BY <3>2, <3>3
  <2>3. Happened(chain[delivered + i])
    BY <1>1, <2>2 DEF ChainInv
  <2> QED BY <1>1, <2>2, <2>3 DEF Given, Happened, external
<1>11. ASSUME NEW d \in Calls PROVE CallOK(d)'
  <2>1. CASE d = c
    <3>1. q # <<>> /\ callback'[d].queue = q /\ callback'[d].at = "save_block" /\ up'
      <4>1. q # <<>>
        BY <1>1, <1>2
      <4> QED BY <1>1, <1>4, <1>6, <2>1, <4>1
    <3>2. StepOK(q[1], "save_block")'
      BY DEF StepOK
    <3>3. d \notin Tokens
      BY <1>1, <2>1
    <3> QED BY <1>2, <1>10, <3>1, <3>2, <3>3 DEF CallOK
  <2>2. CASE d # c
    <3>1. callback'[d] = callback[d] /\ CallOK(d)
      BY <1>1, <1>6, <2>2 DEF CallInv
    <3>2. \A e, at : StepOK(e, at) => StepOK(e, at)'
      BY <1>1 DEF StepOK, external
    <3> QED BY <1>1, <1>9, <3>1, <3>2 DEF CallOK
  <2> QED BY <2>1, <2>2
<1>12. CallInv'
  <2>1. HeadBlock' = HeadBlock /\ FromBlock' = FromBlock
    BY <1>1 DEF HeadBlock, FromBlock, external, rows
  <2>2. \A i \in delivered' + 1 .. Len(chain) : i \in delivered + 1 .. Len(chain)
    BY <1>1
  <2> QED BY <1>1, <1>11, <2>1, <2>2 DEF CallInv, external
<1>13. \A S : Coming(S) => Coming(S)'
  <2>1. SUFFICES ASSUME NEW S, Coming(S) PROVE Coming(S)'
    OBVIOUS
  <2>2. CASE \E d \in Calls : \E i \in 1 .. Len(callback[d].queue) : callback[d].queue[i] \in S
    <3>1. PICK d \in Calls : \E i \in 1 .. Len(callback[d].queue) : callback[d].queue[i] \in S
      BY <2>2
    <3>2. d # c
      BY <1>1, <3>1
    <3>3. callback'[d] = callback[d]
      BY <1>6, <3>2
    <3> QED BY <1>1, <3>1, <3>3 DEF Coming
  <2>3. CASE \E i \in delivered + 1 .. Len(chain) : chain[i] \in S
    <3>1. PICK i \in delivered + 1 .. Len(chain) : chain[i] \in S
      BY <2>3
    <3>2. CASE i <= delivered + n
      <4>1. i - delivered \in 1 .. n /\ delivered + (i - delivered) = i
        BY <1>1, <3>2
      <4>2. q[i - delivered] = chain[i]
        BY <1>2, <4>1
      <4>3. callback'[c].queue[i - delivered] \in S /\ i - delivered \in 1 .. Len(callback'[c].queue)
        BY <1>2, <1>4, <1>6, <3>1, <4>1, <4>2
      <4> QED BY <1>1, <4>3 DEF Coming
    <3>3. CASE ~(i <= delivered + n)
      <4>1. i \in delivered' + 1 .. Len(chain')
        BY <1>1, <3>3 DEF external
      <4>2. chain'[i] \in S
        BY <1>1, <3>1 DEF external
      <4> QED BY <1>1, <4>1, <4>2 DEF Coming
    <3> QED BY <3>2, <3>3
  <2> QED BY <1>1, <2>1, <2>2, <2>3 DEF Coming
<1>14. JobInv' /\ CountInv' /\ OfferInv' /\ IndexInv'
  BY <1>1, <1>13, TablesUntouched DEF external, rows, queue, history
<1> QED BY <1>7, <1>8, <1>12, <1>14 DEF IInv

LEMMA HearSaleKeeps ==
  ASSUME IInv, NEW t \in Tokens, HearSale(t)
  PROVE  IInv'
<1> PICK i : i = heard[t] + 1
  OBVIOUS
<1> PICK e : e = orders[t][i]
  OBVIOUS
<1> DEFINE task == [IdleCallback EXCEPT !.queue = <<e>>, !.at = "find_order"]
<1>1. /\ up /\ callback[t].queue = <<>> /\ heard[t] < Len(orders[t])
      /\ heard' = [heard EXCEPT ![t] = heard[t] + 1]
      /\ callback' = [callback EXCEPT ![t].queue = <<e>>, ![t].at = "find_order"]
      /\ UNCHANGED <<external, delivered, up, requests, adding, running, collecting, rows, queue, history>>
      /\ TypeInv /\ ChainInv /\ CallInv /\ t \in Calls
  BY DEF HearSale, Free, IInv, background, Calls
<1>2. i \in 1 .. Len(orders[t]) /\ orders[t] # <<>> /\ i \in Nat
  <2>1. heard[t] \in Nat /\ orders[t] \in Seq(Event)
    BY <1>1 DEF TypeInv, OrderInv
  <2>2. Len(orders[t]) \in Nat
    BY <2>1
  <2> QED BY <1>1, <2>1, <2>2
<1>3. e \in Event /\ IsSale(e) /\ e.token = t /\ e.block = 0 /\ owner[t] # Unminted
  BY <1>1, <1>2 DEF TypeInv, OrderInv, ChainInv, SalesInv
<1>4. callback[t] = IdleCallback
  BY <1>1 DEF CallInv, CallOK
<1>5. callback' = [callback EXCEPT ![t] = task]
  BY <1>1, <1>4 DEF TypeInv
<1>6. Given(e)' /\ StepOK(e, "find_order")'
  BY <1>1, <1>3 DEF Given, Happened, StepOK, IsSale, Sales, external
<1>7. task \in CallState /\ task.queue = <<e>> /\ task.at = "find_order"
  <2>1. <<e>> \in Seq(Event)
    BY <1>3
  <2> QED BY <2>1 DEF IdleCallback, CallState
<1> HIDE DEF task
<1>8. /\ callback' \in [Calls -> CallState] /\ callback'[t] = task
      /\ \A d \in Calls \ {t} : callback'[d] = callback[d]
  BY <1>1, <1>5, <1>7, SetCall
<1>9. TypeInv'
  <2>1. OrderInv'
    BY <1>1, <1>2 DEF TypeInv, OrderInv, external
  <2>2. CollectionInv'
    BY <1>1 DEF TypeInv, CollectionInv, rows, queue, history
  <2> QED BY <1>1, <1>8, <2>1, <2>2 DEF TypeInv, external, rows, queue, history
<1>10. ChainInv'
  BY <1>1 DEF ChainInv, SalesInv, Happened, external
<1>11. ASSUME NEW d \in Calls PROVE CallOK(d)'
  <2>1. CASE d = t
    <3>1. callback'[d].queue = <<e>> /\ callback'[d].at = "find_order" /\ up'
      BY <1>1, <1>7, <1>8, <2>1
    <3>2. /\ Len(<<e>>) = 1 /\ <<e>>[1] = e /\ <<e>> # <<>>
          /\ \A j \in 1 .. Len(<<e>>) : <<e>>[j] = e
      OBVIOUS
    <3> QED BY <1>3, <1>6, <2>1, <3>1, <3>2 DEF CallOK, IsSale
  <2>2. CASE d # t
    <3>1. callback'[d] = callback[d] /\ CallOK(d)
      BY <1>1, <1>8, <2>2 DEF CallInv
    <3>2. \A x, at : StepOK(x, at) => StepOK(x, at)'
      BY <1>1 DEF StepOK, external
    <3>3. \A x : Given(x) => Given(x)'
      BY <1>1 DEF Given, Happened, external
    <3> QED BY <1>1, <3>1, <3>2, <3>3 DEF CallOK
  <2> QED BY <2>1, <2>2
<1>12. CallInv'
  <2>1. HeadBlock' = HeadBlock /\ FromBlock' = FromBlock
    BY <1>1 DEF HeadBlock, FromBlock, external, rows
  <2> QED BY <1>1, <1>11, <2>1 DEF CallInv, external
<1>13. \A S : Coming(S) => Coming(S)'
  <2>1. SUFFICES ASSUME NEW S, Coming(S) PROVE Coming(S)'
    OBVIOUS
  <2>2. \A d \in Calls : callback[d].queue # <<>> => callback'[d] = callback[d]
    BY <1>1, <1>8
  <2>3. \A d \in Calls : (\E j \in 1 .. Len(callback[d].queue) : TRUE) => callback[d].queue # <<>>
    OBVIOUS
  <2> QED BY <1>1, <2>1, <2>2, <2>3 DEF Coming, external
<1>14. JobInv' /\ CountInv' /\ OfferInv' /\ IndexInv'
  BY <1>1, <1>13, TablesUntouched DEF external, rows, queue, history
<1> QED BY <1>9, <1>10, <1>12, <1>14 DEF IInv

\* A step of a job or of something that adds jobs.
InBackground == UNCHANGED <<ofEvents, heard, offers, overlooked>>

LEMMA BackgroundKeeps ==
  ASSUME IInv, InBackground, TypeInv', JobInv', CountInv',
         \A t \in Tokens : Live(t) /\ RowInv(t) => WillTell(t)' = owner[t] \/ Due(t, "collectTokens")',
         \A t \in Tokens : Live(t) /\ FoundInv(t) =>
           WillBeFound(t)' \/ Due(t, "collectProperties")' \/ <<t, "collectTokens">> \in requests'
  PROVE  IInv'
<1>1. ChainInv' /\ CallInv' /\ (\A S : Coming(S) <=> Coming(S)') /\ (\A t : Live(t) <=> Live(t)')
  BY EventsUntouched DEF InBackground, IInv
<1>2. ASSUME NEW u \in Open' \ overlooked', ~Live(u)' PROVE Coming(Burnings(u))'
  <2>1. u \in Open \ overlooked /\ ~Live(u)
    BY <1>1, <1>2 DEF InBackground, Open
  <2>2. PICK S : S = Burnings(u)
    OBVIOUS
  <2> QED BY <1>1, <2>1, <2>2 DEF IInv, OfferInv, Burnings
<1>3. ASSUME NEW t \in Tokens, Live(t)' PROVE RowInv(t)' /\ FoundInv(t)'
  <2>1. Live(t) /\ RowInv(t) /\ FoundInv(t) /\ owner' = owner
    BY <1>1, <1>3 DEF IInv, IndexInv, InBackground, ofEvents
  <2> QED BY <2>1 DEF RowInv, FoundInv
<1> QED BY <1>1, <1>2, <1>3 DEF IInv, OfferInv, IndexInv

\* If the jobs that were on their way still are, only the rows of one token matter.
LEMMA DueStays ==
  ASSUME InBackground, missed \cup requests \cup jobs \subseteq missed' \cup requests' \cup jobs'
  PROVE  \A t, kind : Due(t, kind) => Due(t, kind)'
<1>1. TAKE t, kind
<1>2. PICK S : S = Changes(t)
  OBVIOUS
<1>3. Coming(S) <=> Coming(S)'
  BY EventsUntouched DEF InBackground
<1> QED BY <1>2, <1>3 DEF Due, Changes

LEMMA AddJobKeeps ==
  ASSUME IInv, NEW r \in Tokens \X Kinds, AddJob(r)
  PROVE  IInv'
<1>1. /\ r \in requests /\ jobs' = jobs \cup {r} /\ missed' = missed \ {r}
      /\ requests' = (requests \ {r}) \cup ({r[1]} \X Second(r[2]))
      /\ UNCHANGED <<outside, callback, adding, running, collecting, rows, toCollect, overlooked, reset>>
      /\ TypeInv
  BY DEF AddJob, IInv
<1>2. PICK t \in Tokens, kind \in Kinds : r = <<t, kind>>
  OBVIOUS
<1>3. {r[1]} \X Second(r[2]) \subseteq Job
  BY <1>2 DEF Second, Job, Kinds
<1>4. TypeInv'
  <2>1. requests' \subseteq Job /\ jobs' \subseteq Job /\ missed' \subseteq Job
    BY <1>1, <1>3 DEF TypeInv, Job
  <2>2. OrderInv' /\ CollectionInv'
    BY <1>1 DEF TypeInv, OrderInv, CollectionInv, outside, external, rows
  <2> QED BY <1>1, <2>1, <2>2 DEF TypeInv, outside, external, rows
<1>5. InBackground /\ JobInv' /\ CountInv'
  BY <1>1 DEF InBackground, ofEvents, outside, external, rows, IInv, JobInv, JobOK, CountInv, CountedTokens
<1>6. \A u, k : Due(u, k) => Due(u, k)'
  BY <1>1, <1>5, DueStays
<1>7. \A u : WillTell(u)' = WillTell(u) /\ WillBeFound(u)' = WillBeFound(u)
  BY <1>1 DEF WillTell, WillBeFound, rows
<1>8. ASSUME NEW u \in Tokens, <<u, "collectTokens">> \in requests
      PROVE  <<u, "collectProperties">> \in requests' \/ <<u, "collectTokens">> \in requests'
  <2>1. CASE r = <<u, "collectTokens">>
    BY <1>1, <2>1 DEF Second
  <2>2. CASE r # <<u, "collectTokens">>
    BY <1>1, <1>8, <2>2
  <2> QED BY <2>1, <2>2
<1>9. \A u \in Tokens : FoundInv(u) =>
        WillBeFound(u)' \/ Due(u, "collectProperties")' \/ <<u, "collectTokens">> \in requests'
  BY <1>6, <1>7, <1>8 DEF FoundInv, Due
<1>10. \A u \in Tokens : RowInv(u) => WillTell(u)' = owner[u] \/ Due(u, "collectTokens")'
  BY <1>6, <1>7 DEF RowInv
<1> QED BY <1>4, <1>5, <1>9, <1>10, BackgroundKeeps

\* Nothing of what is said of tokens has changed.
LEMMA AddingKeeps ==
  ASSUME IInv, InBackground, TypeInv', CountInv', UNCHANGED <<running, tokens, index, requests>>,
         missed \cup jobs \subseteq missed' \cup jobs'
  PROVE  IInv'
<1>1. JobInv'
  BY DEF IInv, JobInv, JobOK
<1>2. \A u, k : Due(u, k) => Due(u, k)'
  BY DueStays
<1>3. \A u : WillTell(u)' = WillTell(u) /\ WillBeFound(u)' = WillBeFound(u)
  BY DEF WillTell, WillBeFound
<1> QED BY <1>1, <1>2, <1>3, BackgroundKeeps DEF RowInv, FoundInv

LEMMA StepOfAddingKeeps ==
  ASSUME IInv, NEW c \in Calls,
         StepOfAdding(c) \/ FailAdding(c) \/ \E force \in BOOLEAN : AddCollection(c, force)
  PROVE  IInv'
<1>1. /\ UNCHANGED <<outside, callback, requests, running, collecting, rows, overlooked, reset>> /\ TypeInv
      /\ adding[c] \in AddingState
  BY DEF StepOfAdding, FailAdding, AddCollection, IInv, history, queue, TypeInv
<1>2. IdleAdding \in AddingState
  BY DEF IdleAdding, AddingState
<1>3. /\ jobs' \subseteq Job /\ missed' \subseteq Job /\ toCollect' \in Nat
      /\ missed \cup jobs \subseteq missed' \cup jobs'
      /\ \E new \in AddingState : adding' = [adding EXCEPT ![c] = new]
  <2>1. CASE ReadTokens(c) /\ UNCHANGED missed
    <3>1. [at |-> "collection", left |-> ListOfTokens \X Kinds] \in AddingState
      BY DEF ListOfTokens, Job, AddingState
    <3>2. UNCHANGED <<jobs, toCollect>>
      BY <2>1 DEF ReadTokens, queue
    <3> QED BY <1>1, <2>1, <3>1, <3>2 DEF ReadTokens, TypeInv, CollectionInv
  <2>2. CASE AddCollectionJob(c) /\ UNCHANGED missed
    <3> DEFINE new == IF adding[c].left = {} THEN IdleAdding ELSE [adding[c] EXCEPT !.at = "tokens"]
    <3>1. new \in AddingState
      BY <1>1, <1>2 DEF AddingState
    <3>2. adding' = [adding EXCEPT ![c] = new]
      BY <1>1, <2>2 DEF AddCollectionJob, TypeInv
    <3> HIDE DEF new
    <3>3. UNCHANGED <<jobs, missed>> /\ toCollect' = toCollect + 1
      BY <2>2 DEF AddCollectionJob
    <3>4. jobs' \subseteq Job /\ missed' \subseteq Job /\ toCollect' \in Nat
      BY <1>1, <3>3 DEF TypeInv, CollectionInv
    <3> QED BY <3>1, <3>2, <3>3, <3>4
  <2>3. ASSUME NEW j \in Tokens \X Kinds, AddTokenJob(c, j), missed' = missed \ {j}
        PROVE  /\ jobs' \subseteq Job /\ missed' \subseteq Job /\ toCollect' \in Nat
               /\ missed \cup jobs \subseteq missed' \cup jobs'
               /\ \E new \in AddingState : adding' = [adding EXCEPT ![c] = new]
    <3> DEFINE new == IF adding[c].left = {j} THEN IdleAdding ELSE [adding[c] EXCEPT !.left = adding[c].left \ {j}]
    <3>0. adding' = [adding EXCEPT ![c] = new]
      <4>1. adding' = IF adding[c].left = {j} THEN [adding EXCEPT ![c] = IdleAdding]
                      ELSE [adding EXCEPT ![c].left = @ \ {j}]
        BY <2>3 DEF AddTokenJob
      <4>2. adding \in [Calls -> AddingState]
        BY <1>1 DEF TypeInv
      <4> QED BY <4>1, <4>2
    <3>1. jobs' = jobs \cup {j} /\ toCollect' = toCollect
      BY <2>3, Zenon DEF AddTokenJob
    <3>2. new \in AddingState
      BY <1>1, <1>2 DEF AddingState
    <3>3. j \in Job
      BY DEF Job
    <3> HIDE DEF new
    <3> QED BY <1>1, <2>3, <3>0, <3>1, <3>2, <3>3 DEF TypeInv, CollectionInv
  <2>4. CASE FailAdding(c)
    BY <1>1, <1>2, <2>4 DEF FailAdding, TypeInv, CollectionInv, queue, history
  <2>5. CASE \E force \in BOOLEAN : AddCollection(c, force)
    <3>1. PICK force \in BOOLEAN : AddCollection(c, force)
      BY <2>5
    <3> DEFINE new == [adding[c] EXCEPT !.at = Entered(force)]
    <3>2. Entered(force) \in {"idle", "read"}
      BY DEF Entered
    <3>3. new \in AddingState
      BY <1>1, <3>2 DEF AddingState
    <3>4. adding' = [adding EXCEPT ![c] = new] /\ UNCHANGED <<jobs, missed, toCollect>>
      BY <1>1, <3>1 DEF AddCollection, TypeInv, queue, history
    <3> HIDE DEF new
    <3> QED BY <1>1, <3>3, <3>4 DEF TypeInv, CollectionInv
  <2> QED BY <2>1, <2>2, <2>3, <2>4, <2>5 DEF StepOfAdding
<1>4. adding' \in [Calls -> AddingState]
  BY <1>1, <1>3 DEF TypeInv
<1>5. TypeInv'
  <2>1. OrderInv' /\ CollectionInv'
    BY <1>1, <1>3 DEF TypeInv, OrderInv, CollectionInv, outside, external, rows
  <2> QED BY <1>1, <1>3, <1>4, <2>1 DEF TypeInv, outside, external, rows
<1>6. InBackground /\ CountInv'
  BY <1>1 DEF InBackground, ofEvents, outside, external, rows, IInv, CountInv, CountedTokens
<1> QED BY <1>1, <1>3, <1>5, <1>6, AddingKeeps DEF rows

\* A job collectCollection, or the REST app, writes rows of the collection.
LEMMA CollectionKeeps ==
  ASSUME IInv, CollectionInv',
         UNCHANGED <<outside, callback, requests, adding, running, jobs, missed, overlooked,
                     block, tokens, index, offers>>,
         \A k \in DOMAIN onMarket' \ reset' :
           \/ k \in DOMAIN onMarket \ reset /\ onMarket'[k] = onMarket[k]
           \/ onMarket'[k] = 0 /\ CountedTokens = {}
  PROVE  IInv'
<1>1. CountedTokens' = CountedTokens
  BY DEF CountedTokens
<1>2. Cardinality({}) = 0
  BY FS_EmptySet
<1>3. CountInv'
  BY <1>1, <1>2 DEF CountInv, IInv
<1>4. TypeInv'
  <2>1. OrderInv'
    BY DEF IInv, TypeInv, OrderInv, outside, external
  <2> QED BY <2>1 DEF IInv, TypeInv, outside, external
<1>5. InBackground
  BY DEF InBackground, ofEvents, outside, external
<1> QED BY <1>3, <1>4, <1>5, AddingKeeps

LEMMA WorkerSet ==
  ASSUME CollectionInv, NEW w \in Workers, NEW k \in Int, collecting' = [collecting EXCEPT ![w] = k]
  PROVE  collecting' \in [Workers -> Int] /\ collecting'[w] = k
         /\ \A v \in Workers \ {w} : collecting'[v] = collecting[v]
BY DEF CollectionInv

LEMMA CollectKeeps ==
  ASSUME IInv, NEW w \in Workers, Collect(w) \/ FailCollecting(w)
  PROVE  IInv'
<1>1. /\ UNCHANGED <<outside, callback, requests, adding, running, jobs, missed, overlooked,
                     block, tokens, index, offers>>
      /\ CollectionInv
  BY DEF Collect, FindRowOfCollection, WriteCollection, FailCollecting,
         IInv, TypeInv, history, queue, rows
<1>2. CASE FindRowOfCollection(w)
  <2>1. /\ onMarket' = onMarket /\ reset' = reset /\ toCollect > 0 /\ toCollect' = toCollect - 1
    BY <1>2 DEF FindRowOfCollection, rows
  <2>2. PICK k \in {NoKey} \cup DOMAIN onMarket : collecting' = [collecting EXCEPT ![w] = k]
    BY <1>2 DEF FindRowOfCollection
  <2>3. k \in Int /\ toCollect' \in Nat
    BY <1>1, <2>1, <2>2 DEF CollectionInv, NoKey
  <2>4. CollectionInv'
    BY <1>1, <2>1, <2>2, <2>3, WorkerSet DEF CollectionInv
  <2> QED BY <1>1, <2>1, <2>4, CollectionKeeps
<1>3. CASE WriteCollection(w)
  <2> PICK n : n = Len(onMarket)
    OBVIOUS
  <2> PICK key : key = IF collecting[w] = NoKey THEN n + 1 ELSE collecting[w]
    OBVIOUS
  <2>1. /\ collecting[w] # Idle /\ toCollect' = toCollect
        /\ onMarket' = IF collecting[w] = NoKey THEN Append(onMarket, 0) ELSE [onMarket EXCEPT ![key] = 0]
        /\ reset' = IF CountedTokens = {} THEN reset ELSE reset \cup {key}
        /\ collecting' = [collecting EXCEPT ![w] = Idle]
    BY <1>3 DEF WriteCollection
  <2>2. onMarket \in Seq(Int) /\ n \in Nat /\ DOMAIN onMarket = 1 .. n /\ reset \subseteq 1 .. n
        /\ collecting[w] \in {NoKey} \cup 1 .. n
    BY <1>1, <2>1 DEF CollectionInv
  <2>3. /\ onMarket' \in Seq(Int) /\ 1 .. n \subseteq DOMAIN onMarket' /\ key \in DOMAIN onMarket'
        /\ onMarket'[key] = 0 /\ \A k \in DOMAIN onMarket' \ {key} : k \in 1 .. n /\ onMarket'[k] = onMarket[k]
    <3>1. CASE collecting[w] = NoKey
      BY <2>1, <2>2, <3>1
    <3>2. CASE collecting[w] # NoKey
      BY <2>1, <2>2, <3>2
    <3> QED BY <3>1, <3>2
  <2>4. reset' \subseteq DOMAIN onMarket'
    BY <2>1, <2>2, <2>3
  <2>5. CollectionInv'
    <3>0. PICK k \in Int : k = Idle
      BY DEF Idle
    <3>1. collecting' \in [Workers -> Int] /\ collecting'[w] = Idle
          /\ \A v \in Workers \ {w} : collecting'[v] = collecting[v]
      BY <1>1, <2>1, <3>0, WorkerSet
    <3> QED BY <1>1, <2>1, <2>2, <2>3, <2>4, <3>1 DEF CollectionInv
  <2>6. ASSUME NEW k \in DOMAIN onMarket' \ reset'
        PROVE  \/ k \in DOMAIN onMarket \ reset /\ onMarket'[k] = onMarket[k]
               \/ onMarket'[k] = 0 /\ CountedTokens = {}
    BY <2>1, <2>2, <2>3, <2>6
  <2> QED BY <1>1, <2>5, <2>6, CollectionKeeps
<1>4. CASE FailCollecting(w)
  <2>1. UNCHANGED <<onMarket, reset, toCollect>> /\ collecting' = [collecting EXCEPT ![w] = Idle]
    BY <1>4 DEF FailCollecting, rows, queue, history
  <2>2. CollectionInv'
    BY <1>1, <2>1, WorkerSet DEF CollectionInv, Idle
  <2> QED BY <1>1, <2>1, <2>2, CollectionKeeps
<1> QED BY <1>2, <1>3, <1>4 DEF Collect

\* A function over the rows of the collection is a sequence.
LEMMA RowsOfCollection ==
  ASSUME CollectionInv, NEW f, f \in [DOMAIN onMarket -> Int]
  PROVE  f \in Seq(Int) /\ DOMAIN f = DOMAIN onMarket
<1>1. Len(onMarket) \in Nat /\ DOMAIN onMarket = 1 .. Len(onMarket)
  BY DEF CollectionInv
<1> QED BY <1>1, SeqDef

LEMMA UpdateKeeps ==
  ASSUME IInv, UpdateTokensOneMarket
  PROVE  IInv'
<1>1. /\ UNCHANGED <<outside, callback, requests, adding, running, jobs, missed, overlooked,
                     block, tokens, index, offers, collecting, toCollect>>
      /\ onMarket' = [k \in DOMAIN onMarket |-> Cardinality(Open)]
      /\ reset' = reset \cup DOMAIN onMarket /\ CollectionInv
  BY DEF UpdateTokensOneMarket, Open, IInv, TypeInv, queue, calls, background
<1>2. Cardinality(Open) \in Int
  <2>1. Open \subseteq Tokens
    BY DEF Open
  <2> QED BY <2>1, FewerAreCounted
<1>3. onMarket' \in [DOMAIN onMarket -> Int]
  BY <1>1, <1>2
<1>4. onMarket' \in Seq(Int) /\ DOMAIN onMarket' = DOMAIN onMarket
  BY <1>1, <1>3, RowsOfCollection
<1>5. CollectionInv'
  BY <1>1, <1>4 DEF CollectionInv
<1> QED BY <1>1, <1>4, <1>5, CollectionKeeps

-----------------------------------------------------------------------------
(* Jobs.                                                                   *)

LEMMA CountOne ==
  ASSUME NEW A, NEW B, A \subseteq Tokens, B \subseteq Tokens, NEW t \in Tokens, A \ {t} = B \ {t}
  PROVE  /\ Cardinality(A) \in Nat /\ Cardinality(B) \in Nat
         /\ t \in A => Cardinality(B) <= Cardinality(A)
         /\ (t \in B => t \in A) => Cardinality(B) <= Cardinality(A)
         /\ Cardinality(B) <= Cardinality(A) + 1
         /\ t \in A /\ t \notin B => Cardinality(B) = Cardinality(A) - 1
<1>1. IsFiniteSet(A) /\ IsFiniteSet(B)
  BY IndexerInputs, FS_Subset
<1>2. Cardinality(A) \in Nat /\ Cardinality(B) \in Nat
  BY <1>1, FS_CardinalityType
<1>3. ASSUME B \subseteq A PROVE Cardinality(B) <= Cardinality(A)
  BY <1>1, <1>3, FS_Subset
<1>4. ASSUME t \in B, t \notin A PROVE Cardinality(B) <= Cardinality(A) + 1
  <2>1. B = A \cup {t}
    BY <1>4
  <2> QED BY <1>1, <1>2, <1>4, <2>1, FS_AddElement
<1>5. ASSUME t \in A, t \notin B PROVE Cardinality(B) = Cardinality(A) - 1
  <2>1. B = A \ {t}
    BY <1>5
  <2> QED BY <1>1, <1>2, <1>5, <2>1, FS_RemoveElement
<1>6. CASE B \subseteq A
  BY <1>2, <1>3, <1>5, <1>6
<1>7. CASE ~(B \subseteq A)
  <2>1. t \in B /\ t \notin A
    BY <1>7
  <2> QED BY <1>2, <1>4, <2>1
<1> QED BY <1>6, <1>7

\* A step of the job of token t, which is of this kind.
JobMoves(t, kind) ==
  /\ InBackground /\ UNCHANGED <<adding, requests, missed, collecting, toCollect, reset>>
  /\ running' \in [Tokens -> JobState] /\ \A u \in Tokens \ {t} : running'[u] = running[u]
  /\ tokens' \in [Tokens -> Owners \cup {NoRow}] /\ \A u \in Tokens \ {t} : tokens'[u] = tokens[u]
  /\ index' \subseteq Tokens /\ index' \ {t} = index \ {t}
  /\ jobs' \in {jobs, jobs \ {<<t, kind>>}}
  /\ onMarket' \in Seq(Int) /\ DOMAIN onMarket' = DOMAIN onMarket
  /\ JobOK(t)' /\ CountInv'

KeepsTelling(t, kind) ==
  Live(t) =>
    \/ WillTell(t)' = owner[t]
    \/ (WillTell(t)' = WillTell(t) \/ WillTell(t) = NoRow) /\ (jobs' = jobs \/ kind = "collectProperties")

KeepsFinding(t, kind) ==
  Live(t) =>
    \/ WillBeFound(t)'
    \/ (WillBeFound(t)' <=> WillBeFound(t)) /\ (jobs' = jobs \/ kind = "collectTokens")

LEMMA JobKeeps ==
  ASSUME IInv, NEW t \in Tokens, NEW kind, JobMoves(t, kind), KeepsTelling(t, kind), KeepsFinding(t, kind)
  PROVE  IInv'
<1>1. TypeInv'
  <2>1. OrderInv' /\ CollectionInv'
    BY DEF JobMoves, InBackground, ofEvents, IInv, TypeInv, OrderInv, CollectionInv
  <2> QED BY <2>1 DEF JobMoves, InBackground, ofEvents, IInv, TypeInv
<1>2. JobInv'
  BY DEF JobMoves, IInv, JobInv, JobOK
<1>3. \A u, k : Due(u, k) => Due(u, k)' \/ (<<u, k>> = <<t, kind>> /\ jobs' # jobs)
  <2>1. TAKE u, k
  <2>2. PICK S : S = Changes(u)
    OBVIOUS
  <2>3. Coming(S) <=> Coming(S)'
    BY EventsUntouched DEF JobMoves, InBackground
  <2> QED BY <2>2, <2>3 DEF JobMoves, Due, Changes
<1>4. ASSUME NEW u \in Tokens \ {t}
      PROVE  /\ WillTell(u)' = WillTell(u) /\ WillBeFound(u)' = WillBeFound(u)
             /\ \A k : Due(u, k) => Due(u, k)'
  <2>1. \A k : <<u, k>> # <<t, kind>>
    BY <1>4
  <2>2. WillTell(u)' = WillTell(u) /\ WillBeFound(u)' = WillBeFound(u)
    BY DEF JobMoves, WillTell, WillBeFound
  <2> QED BY <1>3, <2>1, <2>2
<1>5. ASSUME NEW u \in Tokens, Live(u), RowInv(u) PROVE WillTell(u)' = owner[u] \/ Due(u, "collectTokens")'
  <2>1. CASE u # t
    BY <1>4, <1>5, <2>1 DEF RowInv
  <2>2. CASE u = t
    <3>1. CASE WillTell(t)' = owner[t]
      BY <2>2, <3>1
    <3>2. CASE (WillTell(t)' = WillTell(t) \/ WillTell(t) = NoRow) /\ (jobs' = jobs \/ kind = "collectProperties")
      <4>1. Due(t, "collectTokens") => Due(t, "collectTokens")'
        BY <1>3, <3>2
      <4>2. owner[t] # NoRow
        BY <1>5, <2>2, NamesOfOwners DEF Live
      <4> QED BY <1>5, <2>2, <3>2, <4>1, <4>2 DEF RowInv
    <3> QED BY <1>5, <2>2, <3>1, <3>2 DEF KeepsTelling
  <2> QED BY <2>1, <2>2
<1>6. ASSUME NEW u \in Tokens, Live(u), FoundInv(u)
      PROVE  WillBeFound(u)' \/ Due(u, "collectProperties")' \/ <<u, "collectTokens">> \in requests'
  <2>1. CASE u # t
    BY <1>4, <1>6, <2>1 DEF FoundInv, JobMoves
  <2>2. CASE u = t
    <3>1. CASE WillBeFound(t)'
      BY <2>2, <3>1
    <3>2. CASE (WillBeFound(t)' <=> WillBeFound(t)) /\ (jobs' = jobs \/ kind = "collectTokens")
      <4>1. Due(t, "collectProperties") => Due(t, "collectProperties")'
        BY <1>3, <3>2
      <4> QED BY <1>6, <2>2, <3>2, <4>1 DEF FoundInv, JobMoves
    <3> QED BY <1>6, <2>2, <3>1, <3>2 DEF KeepsFinding
  <2> QED BY <2>1, <2>2
<1> QED BY <1>1, <1>2, <1>5, <1>6, BackgroundKeeps DEF JobMoves

\* What all the steps of jobs leave alone.
LEMMA JobFrame ==
  ASSUME IInv, NEW t \in Tokens, RunJob(t)
  PROVE  /\ UNCHANGED <<owner, chain, orders, delivered, up, callback, block, heard, offers, overlooked>>
         /\ UNCHANGED <<adding, requests, missed, collecting, toCollect, reset>>
         /\ TypeInv /\ running[t] \in JobState /\ JobOK(t) /\ CountInv
         /\ CollectionInv
<1>1. UNCHANGED <<outside, callback, requests, adding, collecting, toCollect, missed, overlooked>>
  BY DEF RunJob
<1>2. UNCHANGED <<block, offers, reset>>
  BY DEF RunJob, ReadOwner, FindRow, Increment, Upsert, FindGone, DeleteRow, Decrement,
         DeleteIndex, ReadProperties, SaveProperties, rows
<1> QED BY <1>1, <1>2 DEF outside, external, IInv, TypeInv, JobInv

\* A step that writes the job and leaves the rows.
LEMMA SetJob ==
  ASSUME TypeInv, NEW t \in Tokens, NEW job \in JobState, running' = [running EXCEPT ![t] = job]
  PROVE  /\ running' \in [Tokens -> JobState] /\ running'[t] = job
         /\ \A u \in Tokens \ {t} : running'[u] = running[u]
BY DEF TypeInv

\* In every row of the collection tokensOnMarket goes up or down.
LEMMA CountedRows ==
  ASSUME CollectionInv, NEW n \in Int
  PROVE  /\ Counted(n) \in Seq(Int) /\ DOMAIN Counted(n) = DOMAIN onMarket
         /\ \A k \in DOMAIN onMarket : Counted(n)[k] = onMarket[k] + n
<1>1. \A k \in DOMAIN onMarket : onMarket[k] \in Int
  BY DEF CollectionInv
<1>2. Counted(n) \in [DOMAIN onMarket -> Int]
  BY <1>1 DEF Counted
<1> QED BY <1>2, RowsOfCollection DEF Counted

\* What becomes of the count when a step of the job of token t is taken.
Counts(t) ==
  \/ (t \in CountedTokens' => t \in CountedTokens) /\ onMarket' = onMarket
  \/ onMarket' = Counted(1)
  \/ t \in CountedTokens /\ t \notin CountedTokens' /\ onMarket' = Counted(-1)

LEMMA CountMoves ==
  ASSUME IInv, NEW t \in Tokens, RunJob(t), Counts(t),
         \A u \in Tokens \ {t} : running'[u] = running[u] /\ tokens'[u] = tokens[u]
  PROVE  CountInv' /\ onMarket' \in Seq(Int) /\ DOMAIN onMarket' = DOMAIN onMarket
<1>1. CountedTokens \subseteq Tokens /\ CountedTokens' \subseteq Tokens /\ CountedTokens' \ {t} = CountedTokens \ {t}
  BY DEF CountedTokens
<1>2. /\ Cardinality(CountedTokens) \in Nat /\ Cardinality(CountedTokens') \in Nat
      /\ (t \in CountedTokens' => t \in CountedTokens) => Cardinality(CountedTokens') <= Cardinality(CountedTokens)
      /\ Cardinality(CountedTokens') <= Cardinality(CountedTokens) + 1
      /\ t \in CountedTokens /\ t \notin CountedTokens' => Cardinality(CountedTokens') = Cardinality(CountedTokens) - 1
  BY <1>1, CountOne
<1>3. CountInv /\ UNCHANGED reset /\ CollectionInv
  BY JobFrame
<1>4. \A k \in DOMAIN onMarket \ reset : onMarket[k] \in Int /\ onMarket[k] >= Cardinality(CountedTokens)
  BY <1>3 DEF CountInv, CollectionInv
<1>5. CASE (t \in CountedTokens' => t \in CountedTokens) /\ onMarket' = onMarket
  <2>1. \A k \in DOMAIN onMarket \ reset : onMarket[k] >= Cardinality(CountedTokens')
    BY <1>2, <1>4, <1>5
  <2> QED BY <1>3, <1>5, <2>1 DEF CountInv, CollectionInv
<1>6. CASE onMarket' = Counted(1)
  <2>1. \A k \in DOMAIN onMarket \ reset : onMarket[k] + 1 >= Cardinality(CountedTokens')
    BY <1>2, <1>4
  <2> QED BY <1>3, <1>6, <2>1, CountedRows DEF CountInv
<1>7. CASE t \in CountedTokens /\ t \notin CountedTokens' /\ onMarket' = Counted(-1)
  <2>1. \A k \in DOMAIN onMarket \ reset : onMarket[k] + (-1) >= Cardinality(CountedTokens')
    BY <1>2, <1>4, <1>7
  <2> QED BY <1>3, <1>7, <2>1, CountedRows DEF CountInv
<1> QED BY <1>5, <1>6, <1>7 DEF Counts

LEMMA ReadOwnerKeeps ==
  ASSUME IInv, NEW t \in Tokens, RunJob(t), ReadOwner(t)
  PROVE  IInv'
<1> DEFINE job == [kind |-> "collectTokens", at |-> IF TokenSchema(t) = NoRow THEN "find_gone" ELSE "find",
                   owner |-> TokenSchema(t)]
<1>1. /\ running[t] = IdleJob /\ jobs' = jobs \ {<<t, "collectTokens">>}
      /\ running' = [running EXCEPT ![t] = job] /\ UNCHANGED <<rows, reset>>
  BY DEF ReadOwner, Take
<1>2. /\ UNCHANGED <<owner, chain, orders, delivered, up, callback, block, heard, offers, overlooked>>
      /\ UNCHANGED <<adding, requests, missed, collecting, toCollect, reset>>
      /\ TypeInv /\ CountInv
  BY JobFrame
<1>3. /\ job \in JobState /\ job.kind = "collectTokens" /\ job.owner = TokenSchema(t)
      /\ job.at \in {"find", "find_gone"} /\ (job.at = "find" <=> job.owner # NoRow)
  BY NamesOfOwners DEF JobState, TokenSchema, Live, Writes, Clears, Kinds
<1> HIDE DEF job
<1>4. /\ running' \in [Tokens -> JobState] /\ running'[t] = job
      /\ \A u \in Tokens \ {t} : running'[u] = running[u]
  BY <1>1, <1>2, <1>3, SetJob
<1>5. JobOK(t)'
  BY <1>3, <1>4 DEF JobOK, Writes, Clears, IdleJob
<1>6. CountInv' /\ onMarket' \in Seq(Int) /\ DOMAIN onMarket' = DOMAIN onMarket
  <2>1. t \in CountedTokens' => t \in CountedTokens
    BY <1>1, <1>3, <1>4 DEF CountedTokens, rows
  <2> QED BY <1>1, <1>4, <2>1, CountMoves DEF rows, Counts
<1>7. JobMoves(t, "collectTokens")
  BY <1>1, <1>2, <1>4, <1>5, <1>6 DEF JobMoves, InBackground, ofEvents, rows, TypeInv
<1>8. Live(t) => WillTell(t)' = owner[t]
  BY <1>3, <1>4 DEF WillTell, TokenSchema
<1>9. (WillBeFound(t)' <=> WillBeFound(t))
  BY <1>1, <1>3, <1>4 DEF WillBeFound, IdleJob, rows
<1>10. KeepsTelling(t, "collectTokens") /\ KeepsFinding(t, "collectTokens")
  BY <1>8, <1>9 DEF KeepsTelling, KeepsFinding
<1> QED BY <1>7, <1>10, JobKeeps

\* A step within collectTokens, which leaves the index and the table of jobs.
Writing(t, job) ==
  /\ running[t].kind = "collectTokens" /\ jobs' = jobs /\ index' = index
  /\ running' = [running EXCEPT ![t] = job]
  /\ \/ job = IdleJob
     \/ /\ job.kind = "collectTokens" /\ job.owner = running[t].owner /\ job.at \in Writes \cup Clears
        /\ (job.at \in Writes) <=> (running[t].at \in Writes)
  /\ job.at = "decrement" => tokens'[t] = NoRow
  /\ tokens' \in [Tokens -> Owners \cup {NoRow}] /\ \A u \in Tokens \ {t} : tokens'[u] = tokens[u]
  /\ job = IdleJob => tokens'[t] = running[t].owner \/ running[t].owner = NoRow
  /\ Counts(t)

LEMMA WritingKeeps ==
  ASSUME IInv, NEW t \in Tokens, RunJob(t), NEW job \in JobState, Writing(t, job)
  PROVE  IInv'
<1>1. /\ UNCHANGED <<owner, chain, orders, delivered, up, callback, block, heard, offers, overlooked>>
      /\ UNCHANGED <<adding, requests, missed, collecting, toCollect, reset>>
      /\ TypeInv /\ CountInv /\ JobOK(t) /\ running[t] \in JobState
  BY JobFrame
<1>2. /\ running' \in [Tokens -> JobState] /\ running'[t] = job
      /\ \A u \in Tokens \ {t} : running'[u] = running[u]
  BY <1>1, SetJob DEF Writing
<1>3. \/ job = IdleJob
      \/ /\ job.kind = "collectTokens" /\ job.owner = running[t].owner /\ job.at \in Writes \cup Clears
         /\ (job.at \in Writes) <=> (running[t].at \in Writes)
  BY DEF Writing
<1>4. JobOK(t)'
  <2>1. CASE job = IdleJob
    BY <1>2, <2>1 DEF JobOK, IdleJob, Writes, Clears
  <2>2. CASE job # IdleJob
    <3>1. /\ job.kind = "collectTokens" /\ job.owner = running[t].owner /\ job.at \in Writes \cup Clears
          /\ (job.at \in Writes) <=> (running[t].at \in Writes)
      BY <1>3, <2>2
    <3>2. (job.at \in Writes) <=> (job.owner # NoRow)
      BY <1>1, <3>1 DEF JobOK
    <3>3. job.at = "decrement" => tokens'[t] = NoRow
      BY DEF Writing
    <3> QED BY <1>2, <2>2, <3>1, <3>2, <3>3 DEF JobOK, IdleJob, Writes, Clears
  <2> QED BY <2>1, <2>2
<1>5. CountInv' /\ onMarket' \in Seq(Int) /\ DOMAIN onMarket' = DOMAIN onMarket
  BY <1>2, CountMoves DEF Writing
<1>6. JobMoves(t, "collectTokens")
  <2>1. index' \subseteq Tokens /\ index' \ {t} = index \ {t} /\ jobs' = jobs
    BY <1>1 DEF Writing, TypeInv
  <2>2. tokens' \in [Tokens -> Owners \cup {NoRow}] /\ \A u \in Tokens \ {t} : tokens'[u] = tokens[u]
    BY DEF Writing
  <2> QED BY <1>1, <1>2, <1>4, <1>5, <2>1, <2>2 DEF JobMoves, InBackground, ofEvents
<1>7. WillTell(t)' = WillTell(t) \/ WillTell(t) = NoRow
  BY <1>2, <1>3 DEF WillTell, IdleJob, Writing
<1>8. (WillBeFound(t)' <=> WillBeFound(t))
  BY <1>2, <1>3 DEF WillBeFound, IdleJob, Writing
<1>9. KeepsTelling(t, "collectTokens") /\ KeepsFinding(t, "collectTokens")
  BY <1>7, <1>8 DEF KeepsTelling, KeepsFinding, Writing
<1> QED BY <1>6, <1>9, JobKeeps

LEMMA TokensStepKeeps ==
  ASSUME IInv, NEW t \in Tokens, RunJob(t),
         FindRow(t) \/ Increment(t) \/ Upsert(t) \/ FindGone(t) \/ DeleteRow(t) \/ Decrement(t)
  PROVE  IInv'
<1>1. /\ TypeInv /\ CountInv /\ JobOK(t) /\ running[t] \in JobState /\ running \in [Tokens -> JobState]
      /\ running[t].kind = "collectTokens" /\ jobs' = jobs /\ index' = index
      /\ tokens \in [Tokens -> Owners \cup {NoRow}]
  BY JobFrame DEF TypeInv, FindRow, Increment, Upsert, FindGone, DeleteRow, Decrement, Doing, rows
<1> DEFINE To(step) == [running[t] EXCEPT !.at = step]
<1>2. \A step \in Writes \cup Clears :
        /\ To(step) \in JobState /\ To(step).at = step /\ To(step).kind = "collectTokens"
        /\ To(step).owner = running[t].owner /\ To(step) # IdleJob
  BY <1>1 DEF JobState, Writes, Clears, IdleJob
<1>3. IdleJob \in JobState /\ IdleJob.at = "idle"
  BY DEF IdleJob, JobState
<1> HIDE DEF To
<1>4. CASE FindRow(t)
  <2> DEFINE step == IF tokens[t] = NoRow THEN "increment" ELSE "upsert"
  <2>1. /\ running' = [running EXCEPT ![t] = To(step)] /\ UNCHANGED <<rows, reset>>
        /\ running[t].at \in Writes /\ step \in Writes
    BY <1>1, <1>4 DEF FindRow, Doing, JobAt, To, Writes
  <2>2. To(step) \in JobState /\ To(step).at = step
    BY <1>2, <2>1
  <2>3. running'[t] = To(step)
    BY <1>1, <2>1
  <2>4. t \in CountedTokens' => t \in CountedTokens
    BY <2>1, <2>2, <2>3 DEF CountedTokens, rows
  <2>5. step # "decrement"
    OBVIOUS
  <2> HIDE DEF step
  <2>6. Writing(t, To(step))
    BY <1>1, <1>2, <2>1, <2>2, <2>4, <2>5 DEF Writing, rows, Counts
  <2> QED BY <2>2, <2>6, WritingKeeps
<1>5. CASE Increment(t)
  <2>1. /\ running' = [running EXCEPT ![t] = To("upsert")] /\ UNCHANGED tokens
        /\ onMarket' = Counted(1)
        /\ running[t].at \in Writes /\ "upsert" \in Writes
    BY <1>1, <1>5 DEF Increment, Doing, JobAt, To, Writes
  <2>2. To("upsert") \in JobState /\ To("upsert").at = "upsert"
    BY <1>2, <2>1
  <2>4. Writing(t, To("upsert"))
    BY <1>1, <1>2, <2>1, <2>2 DEF Writing, Counts
  <2> QED BY <2>2, <2>4, WritingKeeps
<1>6. CASE Upsert(t)
  <2>1. /\ running' = [running EXCEPT ![t] = IdleJob] /\ UNCHANGED onMarket
        /\ tokens' = [tokens EXCEPT ![t] = running[t].owner] /\ running[t].at = "upsert"
    BY <1>1, <1>6 DEF Upsert, Doing, EndJob
  <2>2. t \in CountedTokens
    BY <2>1 DEF CountedTokens
  <2>3. /\ tokens' \in [Tokens -> Owners \cup {NoRow}] /\ tokens'[t] = running[t].owner
        /\ \A u \in Tokens \ {t} : tokens'[u] = tokens[u]
    BY <1>1, <2>1 DEF JobState
  <2>4. Writing(t, IdleJob)
    BY <1>1, <1>3, <2>1, <2>2, <2>3 DEF Writing, Counts
  <2> QED BY <1>3, <2>4, WritingKeeps
<1>7. CASE FindGone(t)
  <2>1. /\ UNCHANGED <<rows, reset>> /\ running[t].at = "find_gone"
    BY <1>7 DEF FindGone, Doing
  <2>2. running[t].owner = NoRow
    BY <1>1, <2>1 DEF JobOK, Writes
  <2>3. CASE tokens[t] = NoRow
    <3>1. running' = [running EXCEPT ![t] = IdleJob]
      BY <1>7, <2>3 DEF FindGone, EndJob
    <3>2. running'[t] = IdleJob
      BY <1>1, <3>1
    <3>3. t \in CountedTokens' => t \in CountedTokens
      BY <1>3, <2>1, <2>3, <3>2 DEF CountedTokens, rows
    <3>4. Writing(t, IdleJob)
      BY <1>1, <1>3, <2>1, <2>2, <3>1, <3>3 DEF Writing, rows, Counts
    <3> QED BY <1>3, <3>4, WritingKeeps
  <2>4. CASE tokens[t] # NoRow
    <3>1. running' = [running EXCEPT ![t] = To("delete")]
      BY <1>1, <1>7, <2>4 DEF FindGone, JobAt, To
    <3>2. To("delete") \in JobState /\ To("delete").at = "delete" /\ t \in CountedTokens
      BY <1>2, <2>4 DEF CountedTokens, Clears
    <3>3. "delete" \notin Writes /\ "find_gone" \notin Writes /\ "delete" \in Clears
      BY DEF Writes, Clears
    <3>4. Writing(t, To("delete"))
      BY <1>1, <1>2, <2>1, <3>1, <3>2, <3>3 DEF Writing, rows, Counts
    <3> QED BY <3>2, <3>4, WritingKeeps
  <2> QED BY <2>3, <2>4
<1>8. CASE DeleteRow(t)
  <2>1. /\ running' = [running EXCEPT ![t] = To("decrement")] /\ UNCHANGED onMarket
        /\ running[t].at = "delete" /\ tokens' = [tokens EXCEPT ![t] = NoRow]
    BY <1>1, <1>8 DEF DeleteRow, Doing, JobAt, To
  <2>2. To("decrement") \in JobState /\ To("decrement").at = "decrement" /\ t \in CountedTokens
    BY <1>2, <2>1 DEF CountedTokens, Clears
  <2>4. "delete" \notin Writes /\ "decrement" \notin Writes /\ "decrement" \in Clears
    BY DEF Writes, Clears
  <2>5. /\ tokens' \in [Tokens -> Owners \cup {NoRow}] /\ tokens'[t] = NoRow
        /\ \A u \in Tokens \ {t} : tokens'[u] = tokens[u]
    BY <1>1, <2>1
  <2>6. Writing(t, To("decrement"))
    BY <1>1, <1>2, <2>1, <2>2, <2>4, <2>5 DEF Writing, Counts
  <2> QED BY <2>2, <2>6, WritingKeeps
<1>9. CASE Decrement(t)
  <2>1. /\ running' = [running EXCEPT ![t] = IdleJob] /\ UNCHANGED tokens
        /\ running[t].at = "decrement" /\ onMarket' = Counted(-1)
    BY <1>1, <1>9 DEF Decrement, Doing, EndJob
  <2>2. running[t].owner = NoRow /\ tokens[t] = NoRow
    BY <1>1, <2>1 DEF JobOK, Writes
  <2>3. running'[t] = IdleJob
    BY <1>1, <2>1
  <2>4. t \in CountedTokens /\ t \notin CountedTokens'
    BY <1>3, <2>1, <2>2, <2>3 DEF CountedTokens
  <2>6. Writing(t, IdleJob)
    BY <1>1, <1>3, <2>1, <2>2, <2>4 DEF Writing, Counts
  <2> QED BY <1>3, <2>6, WritingKeeps
<1> QED BY <1>4, <1>5, <1>6, <1>7, <1>8, <1>9

LEMMA PropertiesStepKeeps ==
  ASSUME IInv, NEW t \in Tokens, RunJob(t), DeleteIndex(t) \/ ReadProperties(t) \/ SaveProperties(t)
  PROVE  IInv'
<1> DEFINE begun == [IdleJob EXCEPT !.kind = "collectProperties", !.at = "read"]
           readIt == [running[t] EXCEPT !.at = "save"]
<1>1. /\ UNCHANGED <<owner, chain, orders, delivered, up, callback, block, heard, offers, overlooked>>
      /\ UNCHANGED <<adding, requests, missed, collecting, toCollect, reset>>
      /\ TypeInv /\ CountInv /\ JobOK(t) /\ running[t] \in JobState
      /\ UNCHANGED <<tokens, onMarket>>
  BY JobFrame DEF DeleteIndex, ReadProperties, SaveProperties, rows
<1>2. /\ begun \in JobState /\ begun.kind = "collectProperties" /\ begun.at = "read" /\ begun.owner = NoRow
      /\ IdleJob \in JobState
  BY DEF IdleJob, JobState, Kinds
<1>3. \E job \in JobState :
        /\ running' = [running EXCEPT ![t] = job]
        /\ index' \subseteq Tokens /\ index' \ {t} = index \ {t}
        /\ jobs' \in {jobs, jobs \ {<<t, "collectProperties">>}}
        /\ \/ job = IdleJob
           \/ job.kind = "collectProperties" /\ job.at \in {"read", "save"} /\ job.owner = NoRow
        /\ running[t].kind # "collectTokens" /\ running[t].at \notin {"upsert", "delete", "decrement"}
        /\ Live(t) => t \in index' \/ job.kind = "collectProperties"
  <2>1. CASE DeleteIndex(t)
    <3>1. /\ running[t] = IdleJob /\ jobs' = jobs \ {<<t, "collectProperties">>} /\ index' = index \ {t}
          /\ running' = [running EXCEPT ![t].kind = "collectProperties", ![t].at = "read"]
      BY <2>1 DEF DeleteIndex, Take
    <3>2. running' = [running EXCEPT ![t] = begun]
      BY <1>1, <3>1 DEF TypeInv
    <3>3. running[t].kind # "collectTokens" /\ running[t].at \notin {"upsert", "delete", "decrement"}
      BY <3>1 DEF IdleJob
    <3> HIDE DEF begun
    <3> QED BY <1>1, <1>2, <3>1, <3>2, <3>3 DEF TypeInv
  <2>2. CASE ReadProperties(t)
    <3>1. /\ running[t].kind = "collectProperties" /\ running[t].at = "read" /\ jobs' = jobs /\ index' = index
      BY <2>2 DEF ReadProperties, Doing, rows
    <3>2. running' = [running EXCEPT ![t] = IF Live(t) THEN readIt ELSE IdleJob]
      BY <1>1, <2>2 DEF ReadProperties, JobAt, EndJob, TypeInv
    <3>3. /\ readIt \in JobState /\ readIt.kind = "collectProperties" /\ readIt.at = "save"
          /\ readIt.owner = NoRow
      BY <1>1, <3>1 DEF JobState, JobOK, Writes
    <3> HIDE DEF readIt
    <3>4. CASE Live(t)
      BY <1>1, <3>1, <3>2, <3>3, <3>4 DEF TypeInv
    <3>5. CASE ~Live(t)
      BY <1>1, <1>2, <3>1, <3>2, <3>5 DEF TypeInv
    <3> QED BY <3>4, <3>5
  <2>3. CASE SaveProperties(t)
    <3>1. /\ running[t].kind = "collectProperties" /\ running[t].at = "save" /\ jobs' = jobs
          /\ index' = index \cup {t} /\ running' = [running EXCEPT ![t] = IdleJob]
      BY <2>3 DEF SaveProperties, Doing, EndJob
    <3> QED BY <1>1, <1>2, <3>1 DEF TypeInv
  <2> QED BY <2>1, <2>2, <2>3
<1>4. PICK job \in JobState :
        /\ running' = [running EXCEPT ![t] = job]
        /\ index' \subseteq Tokens /\ index' \ {t} = index \ {t}
        /\ jobs' \in {jobs, jobs \ {<<t, "collectProperties">>}}
        /\ \/ job = IdleJob
           \/ job.kind = "collectProperties" /\ job.at \in {"read", "save"} /\ job.owner = NoRow
        /\ running[t].kind # "collectTokens" /\ running[t].at \notin {"upsert", "delete", "decrement"}
        /\ Live(t) => t \in index' \/ job.kind = "collectProperties"
  BY <1>3
<1>5. /\ running' \in [Tokens -> JobState] /\ running'[t] = job
      /\ \A u \in Tokens \ {t} : running'[u] = running[u]
  BY <1>1, <1>4, SetJob
<1>6. JobOK(t)'
  <2>1. CASE job = IdleJob
    BY <1>5, <2>1 DEF JobOK, IdleJob, Writes, Clears
  <2>2. CASE job # IdleJob
    BY <1>4, <1>5, <2>2 DEF JobOK, IdleJob, Writes, Clears
  <2> QED BY <2>1, <2>2
<1>7. CountInv'
  <2>1. job.at \notin {"upsert", "delete", "decrement"}
    BY <1>4 DEF IdleJob
  <2>2. t \in CountedTokens' => t \in CountedTokens
    BY <1>1, <1>5, <2>1 DEF CountedTokens
  <2> QED BY <1>1, <1>5, <2>2, CountMoves DEF Counts
<1>8. JobMoves(t, "collectProperties")
  <2>1. /\ tokens' \in [Tokens -> Owners \cup {NoRow}]
        /\ onMarket' \in Seq(Int) /\ DOMAIN onMarket' = DOMAIN onMarket
    BY <1>1 DEF TypeInv, CollectionInv
  <2> QED BY <1>1, <1>4, <1>5, <1>6, <1>7, <2>1 DEF JobMoves, InBackground, ofEvents
<1>9. WillTell(t)' = WillTell(t)
  <2>1. job.kind # "collectTokens"
    BY <1>4 DEF IdleJob
  <2> QED BY <1>1, <1>4, <1>5, <2>1 DEF WillTell
<1>10. Live(t) => WillBeFound(t)'
  BY <1>4, <1>5 DEF WillBeFound
<1>11. KeepsTelling(t, "collectProperties") /\ KeepsFinding(t, "collectProperties")
  BY <1>9, <1>10 DEF KeepsTelling, KeepsFinding
<1> QED BY <1>8, <1>11, JobKeeps

LEMMA RunJobKeeps ==
  ASSUME IInv, NEW t \in Tokens, RunJob(t)
  PROVE  IInv'
BY ReadOwnerKeeps, TokensStepKeeps, PropertiesStepKeeps DEF RunJob

LEMMA FailJobKeeps ==
  ASSUME IInv, NEW t \in Tokens, FailJob(t)
  PROVE  IInv'
<1> DEFINE j == <<t, running[t].kind>>
<1>1. /\ running[t].at # "idle" /\ jobs' = jobs \cup {j} /\ running' = [running EXCEPT ![t] = IdleJob]
      /\ UNCHANGED <<outside, callback, requests, adding, collecting, rows, toCollect, history>>
      /\ TypeInv /\ JobOK(t) /\ CountInv /\ running[t] \in JobState
  BY DEF FailJob, EndJob, IInv, TypeInv, JobInv
<1>2. running[t].kind \in Kinds /\ j \in Job /\ IdleJob \in JobState
  BY <1>1 DEF JobOK, JobState, Writes, Clears, Kinds, Job, IdleJob
<1>3. /\ running' \in [Tokens -> JobState] /\ running'[t] = IdleJob
      /\ \A u \in Tokens \ {t} : running'[u] = running[u]
  BY <1>1, <1>2, SetJob
<1>4. TypeInv'
  <2>1. OrderInv' /\ CollectionInv'
    BY <1>1 DEF TypeInv, OrderInv, CollectionInv, outside, external, rows, history
  <2> QED BY <1>1, <1>2, <1>3, <2>1 DEF TypeInv, outside, external, rows, history
<1>5. JobInv'
  <2>1. JobOK(t)'
    BY <1>3 DEF JobOK, IdleJob, Writes, Clears
  <2>2. \A u \in Tokens \ {t} : JobOK(u)'
    BY <1>1, <1>3 DEF JobOK, IInv, JobInv, rows
  <2> QED BY <2>1, <2>2 DEF JobInv
<1>6. CountInv'
  <2>1. CountedTokens' \subseteq CountedTokens
    BY <1>1, <1>3 DEF CountedTokens, rows, IdleJob
  <2> QED BY <1>1, <2>1, FewerCounted DEF rows, history
<1>7. InBackground
  BY <1>1 DEF InBackground, ofEvents, outside, external, rows, history
<1>8. \A u, k : Due(u, k) => Due(u, k)'
  BY <1>1, <1>7, DueStays DEF history
<1>9. \A u \in Tokens \ {t} : WillTell(u)' = WillTell(u) /\ WillBeFound(u)' = WillBeFound(u)
  BY <1>1, <1>3 DEF WillTell, WillBeFound, rows
<1>10. /\ WillTell(t)' = WillTell(t) \/ Due(t, "collectTokens")'
       /\ WillBeFound(t) => WillBeFound(t)' \/ Due(t, "collectProperties")'
  BY <1>1, <1>3 DEF WillTell, WillBeFound, rows, Due, IdleJob
<1>11. requests' = requests
  BY <1>1
<1>12. \A u \in Tokens : RowInv(u) => WillTell(u)' = owner[u] \/ Due(u, "collectTokens")'
  BY <1>8, <1>9, <1>10 DEF RowInv
<1>13. \A u \in Tokens : FoundInv(u) =>
         WillBeFound(u)' \/ Due(u, "collectProperties")' \/ <<u, "collectTokens">> \in requests'
  BY <1>8, <1>9, <1>10, <1>11 DEF FoundInv
<1> QED BY <1>4, <1>5, <1>6, <1>7, <1>12, <1>13, BackgroundKeeps

-----------------------------------------------------------------------------
(* The worker dies, and starts again.                                      *)

LEMMA CrashKeeps ==
  ASSUME IInv, Crash
  PROVE  IInv'
<1> PICK seconds : seconds = UNION {{r[1]} \X Second(r[2]) : r \in requests}
  OBVIOUS
<1> PICK losses : losses = JobsOf({e.token : e \in Lost} \ {None})
  OBVIOUS
<1>0. missed' = missed \cup requests \cup seconds \cup losses
  BY Zenon DEF Crash
<1>1. /\ up /\ ~up' /\ up' \in BOOLEAN /\ callback' = [c \in Calls |-> IdleCallback]
      /\ requests' = {} /\ adding' = [c \in Calls |-> IdleAdding]
      /\ running' = [t \in Tokens |-> IdleJob] /\ collecting' = [w \in Workers |-> Idle]
      /\ jobs' = jobs \cup {<<t, running[t].kind>> : t \in {u \in Tokens : running[u].at # "idle"}}
      /\ toCollect' = toCollect + Cardinality(AtWork)
      /\ overlooked' = overlooked \cup {e.token : e \in {d \in Lost : d.method = "ItemDestroyed"}}
      /\ UNCHANGED <<external, delivered, rows, reset>>
      /\ TypeInv /\ JobInv /\ ChainInv /\ CallInv /\ CountInv
  BY DEF Crash, IInv
<1>a. OrderInv'
  <2>1. PICK some \in [Tokens -> 0 .. MaxSales] : Replayed(some) /\ heard' = some
    BY DEF Crash
  <2>2. OrderInv /\ orders' = orders
    BY <1>1 DEF TypeInv, external
  <2>3. ASSUME NEW t \in Tokens PROVE heard'[t] \in Nat /\ heard'[t] <= Len(orders[t])
    <3>1. heard'[t] <= IF callback[t].queue = <<>> THEN heard[t] ELSE heard[t] - 1
      BY <2>1 DEF Replayed
    <3>2. heard'[t] \in Nat
      BY <2>1, IndexerInputs
    <3> QED BY <2>2, <3>1, <3>2 DEF OrderInv
  <2>4. heard' \in [Tokens -> Nat]
    BY <2>1, IndexerInputs
  <2> QED BY <2>2, <2>3, <2>4 DEF OrderInv
<1>b. Cardinality(AtWork) \in Nat
  <2>1. AtWork \subseteq Workers
    BY DEF AtWork
  <2>2. IsFiniteSet(AtWork)
    BY <2>1, IndexerInputs, FS_Subset
  <2> QED BY <2>2, FS_CardinalityType
<1>2. IdleCallback \in CallState /\ IdleCallback.queue = <<>> /\ IdleJob \in JobState /\ IdleAdding \in AddingState
  BY DEF IdleCallback, CallState, IdleJob, JobState, IdleAdding, AddingState
<1>3. \A e \in Lost : \E c \in Callbacks, i \in Nat :
         i \in 1 .. Len(callback[c].queue) /\ e = callback[c].queue[i] /\ e \in Event /\ Given(e) /\ e.block < FromBlock
  <2>1. TAKE e \in Lost
  <2>2. PICK c \in Callbacks : e \in Events(c)
    BY DEF Lost
  <2>3. PICK i \in 1 .. Len(callback[c].queue) : e = callback[c].queue[i]
    BY <2>2 DEF Events
  <2>4. callback[c].queue \in Seq(Event) /\ CallOK(c)
    BY <1>1 DEF TypeInv, CallState, CallInv, Calls
  <2>5. e \in Event /\ Given(e) /\ e.block < FromBlock /\ i \in Nat
    BY <2>3, <2>4 DEF CallOK, Lost
  <2> QED BY <2>3, <2>5
<1>4. jobs' \subseteq Job /\ missed' \subseteq Job /\ overlooked' \subseteq Tokens /\ toCollect' \in Nat
  <2>1. ASSUME NEW t \in Tokens, running[t].at # "idle" PROVE <<t, running[t].kind>> \in Job
    BY <1>1, <2>1 DEF TypeInv, JobInv, JobOK, JobState, Writes, Clears, Kinds, Job
  <2>2. ASSUME NEW r \in requests PROVE {r[1]} \X Second(r[2]) \subseteq Job
    BY <1>1 DEF TypeInv, Job, Second, Kinds
  <2>3. JobsOf({e.token : e \in Lost} \ {None}) \subseteq Job
    <3>1. {e.token : e \in Lost} \ {None} \subseteq Tokens
      BY <1>3 DEF Event
    <3> QED BY <3>1 DEF JobsOf, Job
  <2>4. \A e \in Lost : e.method = "ItemDestroyed" => e.token \in Tokens
    BY <1>3 DEF Given, Happened
  <2>5. jobs' \subseteq Job
    BY <1>1, <2>1 DEF TypeInv
  <2>6. missed' \subseteq Job
    <3>1. seconds \subseteq Job
      BY <2>2
    <3>2. losses \subseteq Job
      BY <2>3
    <3>3. missed \subseteq Job /\ requests \subseteq Job
      BY <1>1 DEF TypeInv
    <3> QED BY <1>0, <3>1, <3>2, <3>3
  <2>7. overlooked' \subseteq Tokens
    BY <1>1, <2>4 DEF TypeInv
  <2>8. toCollect' \in Nat
    BY <1>1, <1>b DEF TypeInv, CollectionInv
  <2> QED BY <2>5, <2>6, <2>7, <2>8
<1>5. TypeInv'
  <2>1. CollectionInv'
    <3>1. Idle \in Int
      BY DEF Idle
    <3> QED BY <1>1, <1>4, <3>1 DEF TypeInv, CollectionInv, rows
  <2> QED BY <1>1, <1>2, <1>4, <1>a, <2>1 DEF TypeInv, external, rows
<1>6. JobInv'
  <2>1. ASSUME NEW t \in Tokens PROVE JobOK(t)'
    <3>1. running'[t] = IdleJob
      BY <1>1
    <3> QED BY <3>1 DEF JobOK, IdleJob, Writes, Clears
  <2> QED BY <2>1 DEF JobInv
<1>7. ChainInv'
  BY <1>1 DEF ChainInv, SalesInv, Happened, external
<1>8. FromBlock' = FromBlock /\ HeadBlock' = HeadBlock
  BY <1>1 DEF FromBlock, HeadBlock, external, rows
<1>9. CallInv'
  <2>1. ASSUME NEW c \in Calls PROVE CallOK(c)'
    <3>1. callback'[c] = IdleCallback /\ Len(<<>>) = 0
      BY <1>1
    <3> QED BY <1>2, <3>1 DEF CallOK
  <2> QED BY <1>1, <1>8, <2>1 DEF CallInv
<1>10. CountInv'
  <2>1. CountedTokens' \subseteq CountedTokens
    BY <1>1 DEF CountedTokens, rows, IdleJob
  <2> QED BY <1>1, <2>1, FewerCounted DEF rows
<1>11. ASSUME NEW S, Coming(S), \A e \in S : ~IsSale(e)
       PROVE  Coming(S)' \/ \E e \in Lost : e \in S
  <2>1. CASE \E i \in delivered + 1 .. Len(chain) : chain[i] \in S
    <3>1. PICK i \in delivered + 1 .. Len(chain) : chain[i] \in S
      BY <2>1
    <3>2. i \in 1 .. Len(chain) /\ FromBlock <= chain[i].block
      BY <1>1, <3>1 DEF TypeInv, CallInv
    <3> QED BY <1>1, <1>8, <3>1, <3>2 DEF Coming, external
  <2>2. CASE \E c \in Calls : \E i \in 1 .. Len(callback[c].queue) : callback[c].queue[i] \in S
    <3> PICK c \in Calls : \E i \in 1 .. Len(callback[c].queue) : callback[c].queue[i] \in S
      BY <2>2
    <3>1. PICK i \in 1 .. Len(callback[c].queue) : callback[c].queue[i] \in S
      OBVIOUS
    <3> DEFINE e == callback[c].queue[i]
    <3>2. callback[c].queue \in Seq(Event) /\ CallOK(c)
      BY <1>1 DEF TypeInv, CallState, CallInv
    <3>3. e \in Event /\ Given(e) /\ e \in S
      BY <3>1, <3>2 DEF CallOK
    <3>4. FromBlock \in Nat /\ FromBlock > 0 /\ e.block \in Nat
      BY <1>1, <3>3, IndexerInputs DEF FromBlock, TypeInv, Event
    <3>5. CASE e.block < FromBlock
      <4>1. c \in Callbacks
        BY <1>11, <3>2, <3>3 DEF CallOK, Calls
      <4>2. e \in Events(c)
        BY DEF Events
      <4>3. e \in Lost
        BY <3>5, <4>1, <4>2 DEF Lost
      <4> QED BY <3>3, <4>3
    <3>6. CASE ~(e.block < FromBlock)
      <4>1. FromBlock <= e.block /\ e.block # 0
        BY <3>4, <3>6
      <4>2. PICK j \in 1 .. delivered : chain[j] = e
        BY <1>11, <3>3 DEF Given
      <4>3. j \in 1 .. Len(chain)
        BY <1>1 DEF TypeInv
      <4> HIDE DEF e
      <4> QED BY <1>1, <1>8, <3>3, <4>1, <4>2, <4>3 DEF Coming, external
    <3> QED BY <3>5, <3>6
  <2> QED BY <1>1, <1>11, <2>1, <2>2 DEF Coming
<1>12. ASSUME NEW t \in Open' \ overlooked', ~Live(t)' PROVE Coming(Burnings(t))'
  <2>1. t \in Open \ overlooked /\ ~Live(t)
    BY <1>1, <1>12 DEF Live, Open, external, rows
  <2>2. PICK S : S = Burnings(t)
    OBVIOUS
  <2>3. Coming(S)
    BY <2>1, <2>2 DEF IInv, OfferInv
  <2>4. ASSUME NEW e \in Lost, e \in S PROVE FALSE
    <3>1. e.token = t /\ e.method = "ItemDestroyed"
      BY <2>2, <2>4 DEF Burnings
    <3>2. t \in overlooked'
      BY <1>1, <2>4, <3>1
    <3> QED BY <1>12, <3>2
  <2>5. \A e \in S : ~IsSale(e)
    BY <2>2 DEF Burnings, IsSale, Sales
  <2> QED BY <1>11, <2>2, <2>3, <2>4, <2>5 DEF Burnings
<1>13. ASSUME NEW t \in Tokens, NEW k \in Kinds, Due(t, k) PROVE Due(t, k)'
  <2>1. PICK S : S = Changes(t)
    OBVIOUS
  <2>2. CASE <<t, k>> \in missed \cup requests \cup jobs
    BY <1>0, <1>1, <2>2 DEF Due
  <2>3. CASE Coming(S)
    <3>1. ASSUME NEW e \in Lost, e \in S PROVE <<t, k>> \in missed'
      <4>1. e.token = t /\ t # None
        BY <2>1, <3>1, NamesOfOwners DEF Changes
      <4>2. <<t, k>> \in losses
        <5>1. t \in {d.token : d \in Lost} \ {None}
          BY <3>1, <4>1
        <5> QED BY <5>1 DEF JobsOf
      <4> QED BY <1>0, <4>2
    <3>2. \A e \in S : ~IsSale(e)
      BY <2>1 DEF Changes
    <3> QED BY <1>11, <2>1, <2>3, <3>1, <3>2 DEF Due, Changes
  <2> QED BY <1>13, <2>1, <2>2, <2>3 DEF Due
<1>14. ASSUME NEW t \in Tokens, Live(t)' PROVE RowInv(t)' /\ FoundInv(t)'
  <2>1. RowInv(t) /\ FoundInv(t) /\ owner' = owner
    BY <1>1, <1>14 DEF IInv, IndexInv, Live, external
  <2>2. running'[t] = IdleJob /\ IdleJob.kind = "none" /\ tokens' = tokens /\ index' = index
    BY <1>1 DEF IdleJob, rows
  <2>3. JobOK(t)
    BY <1>1 DEF JobInv
  <2>4. "collectTokens" \in Kinds /\ "collectProperties" \in Kinds
    BY DEF Kinds
  <2>5. \A k \in Kinds : running[t].kind = k => Due(t, k)'
    <3>1. TAKE k \in Kinds
    <3>2. HAVE running[t].kind = k
    <3>3. running[t].at # "idle"
      BY <2>3, <3>2 DEF JobOK, Kinds, IdleJob
    <3>4. <<t, k>> \in jobs'
      BY <1>1, <3>2, <3>3
    <3> QED BY <3>4 DEF Due
  <2>6. RowInv(t)'
    BY <1>13, <2>1, <2>2, <2>4, <2>5 DEF RowInv, WillTell
  <2>7. <<t, "collectTokens">> \in requests => Due(t, "collectProperties")'
    <3>1. HAVE <<t, "collectTokens">> \in requests
    <3> DEFINE r == <<t, "collectTokens">>
    <3>2. <<t, "collectProperties">> \in {r[1]} \X Second(r[2])
      BY DEF Second
    <3> HIDE DEF r
    <3>3. <<t, "collectProperties">> \in missed'
      <4>1. <<t, "collectProperties">> \in seconds
        BY <3>1, <3>2 DEF r
      <4> QED BY <1>0, <4>1
    <3> QED BY <3>3 DEF Due
  <2>8. FoundInv(t)'
    BY <1>13, <2>1, <2>2, <2>4, <2>5, <2>7 DEF FoundInv, WillBeFound
  <2> QED BY <2>6, <2>8
<1> QED BY <1>5, <1>6, <1>7, <1>9, <1>10, <1>12, <1>14 DEF IInv, OfferInv, IndexInv

LEMMA RestartKeeps ==
  ASSUME IInv, Restart
  PROVE  IInv'
<1>1. PICK d \in 0 .. Len(chain) :
        /\ \A i \in 1 .. Len(chain) : (i <= d) <=> (chain[i].block < FromBlock)
        /\ delivered' = d
  BY DEF Restart
<1>2. ~up /\ up' = TRUE /\ UNCHANGED <<external, heard, calls, rows, queue, history>>
      /\ TypeInv /\ ChainInv /\ CallInv
  BY DEF Restart, IInv
<1>3. TypeInv'
  <2>1. OrderInv' /\ CollectionInv'
    BY <1>2 DEF TypeInv, OrderInv, CollectionInv, external, calls, background, rows, queue, history
  <2> QED BY <1>1, <1>2, <2>1 DEF TypeInv, external, calls, background, rows, queue, history
<1>4. ChainInv'
  BY <1>2 DEF ChainInv, SalesInv, Happened, external
<1>5. FromBlock' = FromBlock /\ HeadBlock' = HeadBlock
  BY <1>2 DEF FromBlock, HeadBlock, external, rows
<1>6. \A i \in d + 1 .. Len(chain) : i \in 1 .. Len(chain) /\ FromBlock <= chain[i].block
  <2>1. TAKE i \in d + 1 .. Len(chain)
  <2>2. i \in 1 .. Len(chain) /\ ~(i <= d)
    BY <1>1
  <2>3. chain[i] \in Event
    BY <1>2, <2>2 DEF TypeInv
  <2>4. chain[i].block \in Nat /\ FromBlock \in Nat
    BY <1>2, <2>3, IndexerInputs DEF Event, FromBlock, TypeInv
  <2> QED BY <1>1, <2>2, <2>4
<1>7. CallInv'
  <2>1. ASSUME NEW c \in Calls PROVE CallOK(c)'
    <3>1. callback[c].queue = <<>> /\ callback[c] = IdleCallback /\ callback' = callback
      BY <1>2 DEF CallInv, CallOK, calls
    <3>2. Len(<<>>) = 0
      OBVIOUS
    <3> QED BY <3>1, <3>2 DEF CallOK, IdleCallback
  <2> QED BY <1>1, <1>2, <1>5, <1>6, <2>1 DEF CallInv, external
<1>8. \A S : Coming(S) => Coming(S)'
  <2>1. SUFFICES ASSUME NEW S, Coming(S) PROVE Coming(S)'
    OBVIOUS
  <2>2. PICK i \in 1 .. Len(chain) : chain[i] \in S /\ FromBlock <= chain[i].block
    BY <1>2, <2>1 DEF Coming
  <2>3. chain[i] \in Event
    BY <1>2, <2>2 DEF TypeInv
  <2>4. chain[i].block \in Nat /\ FromBlock \in Nat
    BY <1>2, <2>3, IndexerInputs DEF Event, FromBlock, TypeInv
  <2>5. i \in d + 1 .. Len(chain)
    BY <1>1, <2>2, <2>4
  <2> QED BY <1>1, <1>2, <2>2, <2>5 DEF Coming, external
<1>9. JobInv' /\ CountInv' /\ OfferInv' /\ IndexInv'
  BY <1>2, <1>8, TablesUntouched DEF external, calls, background, rows, queue, history
<1> QED BY <1>3, <1>4, <1>7, <1>9 DEF IInv

-----------------------------------------------------------------------------
(* The theorems.                                                           *)

LEMMA StartsRight ==
  ASSUME Init
  PROVE  IInv
<1>1. /\ owner \in AtStart /\ chain = <<>>
      /\ orders = [t \in Tokens |-> <<>>] /\ heard = [t \in Tokens |-> 0]
      /\ delivered = 0 /\ up = TRUE
      /\ callback = [c \in Calls |-> IdleCallback]
      /\ requests = {} /\ adding = [c \in Calls |-> IdleAdding]
      /\ running = [t \in Tokens |-> IdleJob] /\ collecting = [w \in Workers |-> Idle]
      /\ jobs = {} /\ toCollect = 0
      /\ block = 0 /\ offers = [t \in Tokens |-> "none"] /\ overlooked = {} /\ reset = {}
      /\ index \in {{}, {t \in Tokens : Live(t)}}
      /\ onMarket \in {<<>>, <<Cardinality(index)>>}
      /\ missed = JobsOf({t \in Tokens : Live(t)} \ index)
      /\ tokens = [t \in Tokens |-> IF t \in index THEN owner[t] ELSE NoRow]
  BY DEF Init
<1>2. IdleCallback \in CallState /\ IdleCallback.queue = <<>> /\ IdleJob \in JobState /\ IdleAdding \in AddingState
  BY DEF IdleCallback, CallState, IdleJob, JobState, IdleAdding, AddingState
<1>3. owner \in [Tokens -> Owners \cup {Unminted, Burnt}]
  <2>1. owner \in [Tokens -> Parents \cup Accounts \cup {Unminted}]
    BY <1>1, IndexerInputs
  <2> QED BY <2>1, IndexerInputs DEF Owners
<1>4. index \subseteq Tokens /\ \A t \in index : owner[t] \in Owners
  BY <1>1 DEF Live
<1>5. Cardinality(index) \in Nat /\ Cardinality({}) = 0
  BY <1>4, FewerAreCounted, FS_EmptySet
<1>6. chain \in Seq(Event) /\ Len(chain) = 0
  BY <1>1
<1>7. TypeInv
  <2>1. missed \subseteq Job
    BY <1>1 DEF JobsOf, Job
  <2>2. tokens \in [Tokens -> Owners \cup {NoRow}]
    BY <1>1, <1>4
  <2>3. block \in 0 .. MaxBlock /\ delivered \in 0 .. Len(chain)
    BY <1>1, <1>6, IndexerInputs
  <2>4. OrderInv
    BY <1>1 DEF OrderInv
  <2>5. CollectionInv
    <3> PICK n \in Nat : n = Cardinality(index)
      BY <1>5
    <3>1. <<n>> \in Seq(Int) /\ <<>> \in Seq(Int)
      OBVIOUS
    <3>2. onMarket \in Seq(Int)
      BY <1>1, <3>1
    <3> QED BY <1>1, <3>2 DEF CollectionInv, Idle
  <2> QED BY <1>1, <1>2, <1>3, <1>4, <1>6, <2>1, <2>2, <2>3, <2>4, <2>5 DEF TypeInv
<1>8. JobInv
  <2>1. ASSUME NEW t \in Tokens PROVE JobOK(t)
    <3>1. running[t] = IdleJob
      BY <1>1
    <3> QED BY <3>1 DEF JobOK, IdleJob, Writes, Clears
  <2> QED BY <2>1 DEF JobInv
<1>9. ChainInv
  BY <1>1, <1>6 DEF ChainInv, SalesInv
<1>10. CallInv
  <2>1. ASSUME NEW c \in Calls PROVE CallOK(c)
    <3>1. callback[c] = IdleCallback /\ Len(<<>>) = 0
      BY <1>1
    <3> QED BY <1>2, <3>1 DEF CallOK
  <2> QED BY <1>1, <1>6, <2>1 DEF CallInv, FromBlock, HeadBlock
<1>11. CountInv
  <2>1. CountedTokens = index
    <3>1. \A t \in Tokens : running[t].at = "idle"
      BY <1>1 DEF IdleJob
    <3>2. \A t \in Tokens : tokens[t] # NoRow <=> t \in index
      BY <1>1, <1>4, NamesOfOwners
    <3> QED BY <1>4, <3>1, <3>2 DEF CountedTokens
  <2> QED BY <1>1, <1>5, <2>1 DEF CountInv
<1>12. OfferInv
  <2>1. Open = {}
    BY <1>1 DEF Open
  <2> QED BY <2>1 DEF OfferInv
<1>13. IndexInv
  <2>1. ASSUME NEW t \in Tokens, Live(t) PROVE RowInv(t) /\ FoundInv(t)
    <3>1. running[t].kind = "none"
      BY <1>1 DEF IdleJob
    <3>2. CASE t \in index
      BY <1>1, <3>1, <3>2 DEF RowInv, FoundInv, WillTell, WillBeFound
    <3>3. CASE t \notin index
      <4>1. <<t, "collectTokens">> \in missed /\ <<t, "collectProperties">> \in missed
        BY <1>1, <2>1, <3>3 DEF JobsOf, Kinds
      <4> QED BY <4>1 DEF RowInv, FoundInv, Due
    <3> QED BY <3>2, <3>3
  <2> QED BY <2>1 DEF IndexInv
<1> QED BY <1>7, <1>8, <1>9, <1>10, <1>11, <1>12, <1>13 DEF IInv

LEMMA StepsKeep ==
  ASSUME IInv, [Next]_vars
  PROVE  IInv'
<1>1. CASE Chain
  BY <1>1, ChainKeeps
<1>2. CASE Receive \/ Hear
  BY <1>2, DeliverKeeps, HearSaleKeeps DEF Receive, Hear
<1>3. ASSUME NEW c \in Calls, CallMoves(c) PROVE IInv'
  <2>1. TypeInv' /\ JobInv'
    BY <1>3, CallKeepsTypes
  <2>2. ChainInv' /\ CallInv'
    BY <1>3, CallKeepsCalls
  <2>3. CountInv' /\ OfferInv' /\ IndexInv'
    BY <1>3, CallKeepsTables
  <2> QED BY <2>1, <2>2, <2>3 DEF IInv
<1>4. ASSUME NEW c \in Calls, Handle(c) \/ Fail(c) \/ (c \in Tokens /\ HandleSale(c)) PROVE IInv'
  BY <1>3, <1>4, CallsMove, SaleMoves
<1>5. ASSUME NEW r \in Tokens \X Kinds, AddJob(r) PROVE IInv'
  BY <1>5, AddJobKeeps
<1>6. ASSUME NEW t \in Tokens, RunJob(t) \/ FailJob(t) PROVE IInv'
  BY <1>6, RunJobKeeps, FailJobKeeps
<1>7. ASSUME NEW c \in Calls,
             StepOfAdding(c) \/ FailAdding(c) \/ \E force \in BOOLEAN : AddCollection(c, force)
      PROVE  IInv'
  BY <1>7, StepOfAddingKeeps
<1>8. CASE UpdateTokensOneMarket \/ \E w \in Workers : Collect(w) \/ FailCollecting(w)
  BY <1>8, CollectKeeps, UpdateKeeps
<1>9. CASE Crash
  BY <1>9, CrashKeeps
<1>10. CASE Restart
  BY <1>10, RestartKeeps
<1>11. CASE UNCHANGED vars
  <2>1. UNCHANGED <<ofEvents, heard, running, adding, tokens, index, offers, onMarket, reset, collecting,
                    missed, overlooked, requests, jobs, toCollect>>
    BY <1>11 DEF vars, outside, external, calls, background, rows, queue, history, ofEvents
  <2>2. TypeInv'
    <3>1. OrderInv' /\ CollectionInv'
      BY <2>1 DEF IInv, TypeInv, OrderInv, CollectionInv, ofEvents
    <3> QED BY <2>1, <3>1 DEF IInv, TypeInv, ofEvents
  <2>3. ChainInv' /\ CallInv' /\ \A S : Coming(S) => Coming(S)'
    BY <2>1, EventsUntouched DEF IInv
  <2> QED BY <2>1, <2>2, <2>3, TablesUntouched DEF IInv, ofEvents
<1>12. Tokens \subseteq Calls /\ Callbacks \subseteq Calls
  BY DEF Calls
<1> QED BY <1>1, <1>2, <1>4, <1>5, <1>6, <1>7, <1>8, <1>9, <1>10, <1>11, <1>12 DEF Next

LEMMA AlwaysRight ==
  Spec => []IInv
<1>1. Init => IInv
  BY StartsRight
<1>2. IInv /\ [Next]_vars => IInv'
  BY StepsKeep
<1> QED BY <1>1, <1>2, PTL DEF Spec

\* When all events are handled none is to come, whatever the events of orders do.
LEMMA NothingComes ==
  ASSUME IInv, up, delivered = Len(chain), \A c \in Callbacks : callback[c].queue = <<>>,
         NEW S, \A e \in S : ~IsSale(e)
  PROVE  ~Coming(S)
<1>1. \A i \in delivered + 1 .. Len(chain) : FALSE
  BY DEF IInv, TypeInv
<1>2. ASSUME NEW c \in Calls, NEW i \in 1 .. Len(callback[c].queue) PROVE callback[c].queue[i] \notin S
  <2>1. CASE c \in Callbacks
    <3>1. Len(callback[c].queue) = 0
      BY <2>1
    <3> QED BY <3>1
  <2>2. CASE c \in Tokens
    BY <2>2 DEF IInv, CallInv, CallOK
  <2> QED BY <2>1, <2>2 DEF Calls
<1> QED BY <1>1, <1>2 DEF Coming

\* The variables of TokenIndexer hold values of their types.
THEOREM IndexerTypeCorrect == Spec => []TypeOK
<1>1. IInv => TypeOK
  <2>1. SUFFICES ASSUME IInv PROVE TypeOK
    OBVIOUS
  <2>2. TypeInv /\ CallInv
    BY <2>1 DEF IInv
  <2>3. \A c \in Calls :
          /\ callback[c].queue \in Seq(Event)
          /\ callback[c].queue = <<>> => callback[c] = IdleCallback
          /\ callback[c].walks \cup callback[c].found \subseteq Tokens
    BY <2>2 DEF TypeInv, CallState, CallInv, CallOK
  <2>4. /\ \A c \in Calls : adding[c].left \subseteq Job
        /\ \A t \in Tokens : running[t].owner \in Owners \cup {NoRow}
    BY <2>2 DEF TypeInv, AddingState, JobState
  <2>5. /\ orders \in [Tokens -> Seq(Event)] /\ \A t \in Tokens : heard[t] \in 0 .. Len(orders[t])
    BY <2>2 DEF TypeInv, OrderInv
  <2> QED BY <2>2, <2>3, <2>4, <2>5 DEF TypeInv, CollectionInv, TypeOK
<1> QED BY <1>1, AlwaysRight, PTL

\* In whatever order handlers, jobs, failures and restarts run: once the worker is quiet
\* the row of a live token tells its owner and its properties can be searched, unless
\* the change is on record as dropped (TokensService.observer, collectTokens and
\* collectProperties).
THEOREM LiveTokensComeToBeIndexed == Spec => []LiveTokensAreIndexed
<1>1. IInv => LiveTokensAreIndexed
  <2>1. SUFFICES ASSUME IInv, Quiet, NEW t \in Tokens, Live(t)
                 PROVE  /\ tokens[t] = owner[t] \/ <<t, "collectTokens">> \in missed
                        /\ t \in index \/ <<t, "collectProperties">> \in missed
    BY DEF LiveTokensAreIndexed, UpToDate
  <2>2. /\ up /\ delivered = Len(chain) /\ \A c \in Calls : callback[c].queue = <<>>
        /\ requests = {} /\ jobs = {} /\ running[t] = IdleJob
    BY <2>1 DEF Quiet, Handled, Calls
  <2>3. ~Coming(Changes(t))
    BY <2>1, <2>2, NothingComes DEF Changes, Calls
  <2>4. RowInv(t) /\ FoundInv(t)
    BY <2>1 DEF IInv, IndexInv
  <2> QED BY <2>2, <2>3, <2>4 DEF RowInv, FoundInv, Due, WillTell, WillBeFound, IdleJob
<1> QED BY <1>1, AlwaysRight, PTL

\* tokensOnMarket leaves no row of tokens out, in any row of the collection that was
\* inserted before the tokens and that nobody but upsertTokens and deleteToken have
\* written since, however many jobs collectCollection run at once.
THEOREM CountNeverMissesARow == Spec => []CountCoversTheRows
<1>1. IInv => CountCoversTheRows
  <2>1. SUFFICES ASSUME IInv, NEW k \in DOMAIN onMarket \ reset
                 PROVE  onMarket[k] >= Cardinality({t \in Tokens : tokens[t] # NoRow})
    BY DEF CountCoversTheRows
  <2> DEFINE A == {t \in Tokens : tokens[t] # NoRow}
  <2>2. A \subseteq CountedTokens
    BY DEF CountedTokens
  <2>3. Cardinality(A) <= Cardinality(CountedTokens) /\ Cardinality(A) \in Nat /\ Cardinality(CountedTokens) \in Nat
    BY <2>2, FewerAreCounted, CountingIsSmall
  <2>4. onMarket[k] >= Cardinality(CountedTokens) /\ onMarket[k] \in Int
    BY <2>1 DEF IInv, CountInv, TypeInv, CollectionInv
  <2> HIDE DEF A
  <2>5. onMarket[k] >= Cardinality(A)
    BY <2>3, <2>4
  <2> QED BY <2>5 DEF A
<1> QED BY <1>1, AlwaysRight, PTL

\* Whatever calls of the handlers overlap and wherever the worker was restarted: when
\* all events are handled no offer is left of a token that was burnt, unless it was
\* opened too late or the event is on record as dropped (deleteTokenOffer).
THEOREM OffersEndWithTheirTokens == Spec => []BurntOffersGo
<1>1. IInv => BurntOffersGo
  <2>1. SUFFICES ASSUME IInv, up, Handled, NEW t \in Open \ overlooked PROVE Live(t)
    BY DEF BurntOffersGo, Open
  <2>2. delivered = Len(chain) /\ \A c \in Callbacks : callback[c].queue = <<>>
    BY <2>1 DEF Handled
  <2>3. ~Coming(Burnings(t))
    BY <2>1, <2>2, NothingComes DEF Burnings, IsSale, Sales
  <2> QED BY <2>1, <2>3 DEF IInv, OfferInv
<1> QED BY <1>1, AlwaysRight, PTL
=============================================================================
