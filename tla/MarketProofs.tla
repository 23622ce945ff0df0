---------------------------- MODULE MarketProofs ----------------------------
(***************************************************************************)
(* Theorems about Market for all its constants.  TypeOK is inductive.  The *)
(* order book's invariants are not: they follow from BookInv, which says   *)
(* that every order on sale is the last thing the log says of its id, that *)
(* ids not handed out are blank, and that whatever the log shows as still  *)
(* on sale is on sale.                                                     *)
(***************************************************************************)
EXTENDS Market, TLAPS

IndInv == TypeOK /\ BookInv

\* A deleted order is a value of the orders mapping.
LEMMA EmptyOrderType == EmptyOrder \in Order
  BY LedgerTypes DEF EmptyOrder, Order, NoAddress

\* A cross-address with exactly one half set is some account's.
LEMMA AddressOfType ==
  ASSUME NEW c \in CrossAddresses, ValidCrossAddress(c)
  PROVE  AddressOf(c) \in Accounts
  BY AddressTypes, NamesDiffer DEF AddressOf, ValidCrossAddress, Holders

\* initialize leaves every variable with a value of its type.
THEOREM InitType == Init => TypeOK
<1> SUFFICES ASSUME Init PROVE TypeOK
  OBVIOUS
<1> USE DEF Init
<1>1. owner \in Accounts /\ admins \subseteq Accounts
  BY AddressTypes
<1>2. marketFee \in 0 .. 100
  BY InputTypes DEF ValidFee
<1>3. availableCurrencies \in [Currencies -> Currency]
  BY LedgerTypes DEF Currency
<1>4. orders \in [Tokens -> Order] /\ idCount \in 1 .. MaxUint32 /\ log \in [Ids -> Event]
  BY EmptyOrderType, InputTypes DEF Event, EventNames
<1>5. tokenOwner \in [Tokens -> Accounts \cup {Zero}] /\ approved \subseteq Tokens
  BY LedgerTypes
<1>6. balance \in [Currencies -> [Holders -> Nat]]
  BY LedgerTypes, NamesDiffer DEF Holders
<1>7. allowance \in [Currencies -> [Accounts -> Nat]]
  OBVIOUS
<1> QED BY <1>1, <1>2, <1>3, <1>4, <1>5, <1>6, <1>7 DEF TypeOK, Collections

-----------------------------------------------------------------------------
(* What the operators of the order book return.                            *)

\* Taking n of an order's fractions, with n within them, leaves an order.
LEMMA LeftType ==
  ASSUME NEW o \in Order, NEW n \in Nat, n <= o.amount
  PROVE  Left(o, n) \in Order
  BY DEF Left, Order

\* What buy and revoke store, and what an admin's revocation emits, are orders.
LEMMA StoredType == \A o \in Order : Stored(o) \in Order /\ Withdrawn(o) \in Order
  BY EmptyOrderType DEF Stored, Withdrawn, Order

\* An event about an order keeps the log well typed.
LEMMA EmitType ==
  ASSUME TypeOK, NEW o \in Order, NEW name \in EventNames, Emit(name, o)
  PROVE  log' \in [Ids -> Event]
  BY DEF TypeOK, Emit, Event

(* What buy computes: the three parts the price is split into.             *)

\* The fee buy applies, the currency's or the market's, is a percentage.
LEMMA FeeOfType ==
  ASSUME TypeOK, NEW cur \in Currencies
  PROVE  FeeOf(cur) \in 0 .. 100
  BY DEF TypeOK, FeeOf, Currency

\* At most a hundred percent of x is at most x.
LEMMA PercentBound ==
  ASSUME NEW x \in Nat, NEW f \in 0 .. 100
  PROVE  (x * f) \div 100 \in 0 .. x
<1>1. x * f \in Nat /\ x * f <= x * 100
  OBVIOUS
<1> QED BY <1>1

\* A share of a natural amount is a natural amount.
LEMMA ShareType ==
  ASSUME NEW x \in Nat, NEW f \in Nat
  PROVE  (x * f) \div 100 \in Nat
<1>1. x * f \in Nat
  OBVIOUS
<1> QED BY <1>1

\* The fee and the royalties are taken out of the value of the sale, and the
\* seller is left with something.
LEMMA PriceIsSplit ==
  ASSUME TypeOK, NEW t \in Tokens, NEW n \in Nat, Settles(orders[t], n), OnSale(t),
         orders[t].token = t
  PROVE  /\ TotalValue(orders[t], n) \in Nat
         /\ MarketFeeValue(orders[t], n) \in 0 .. TotalValue(orders[t], n)
         /\ Proceeds(orders[t], n) \in Nat \ {0}
         /\ Outlay(orders[t], n) = TotalValue(orders[t], n) - MarketFeeValue(orders[t], n)
         /\ \A a \in Accounts : Receipt(a, orders[t], n) \in Nat
<1> DEFINE o == orders[t]
           T == TotalValue(o, n)
           M == MarketFeeValue(o, n)
           R == TotalRoyalty(o, n)
<1>1. o.price \in Nat /\ o.currency \in Currencies
  BY DEF TypeOK, Order
<1>2. T \in Nat
  BY <1>1 DEF TotalValue
<1>3. M \in 0 .. T
  BY <1>1, <1>2, FeeOfType, PercentBound DEF MarketFeeValue
<1>4. R \in 0 .. T - M - 1
  BY DEF Settles
<1>5. Proceeds(o, n) \in Nat \ {0}
  BY <1>2, <1>3, <1>4 DEF Proceeds
<1>6. Outlay(o, n) = T - M
  BY <1>2, <1>3, <1>4 DEF Outlay, Proceeds
<1>7. ASSUME NEW a \in Accounts
      PROVE  Receipt(a, o, n) \in Nat
  <2>1. RoyaltyBase(o, n) \in Nat
    BY <1>1, <1>2, <1>3 DEF Settles, RoyaltyBase
  <2>2. Shares[royaltyHelpers][t][a] \in Nat
    BY RoyaltyTypes DEF TypeOK
  <2>3. RoyaltyTo(a, o, n) \in Nat
    BY <2>1, <2>2, ShareType DEF RoyaltyTo
  <2> QED BY <2>3, <1>5 DEF Receipt
<1> QED BY <1>2, <1>3, <1>5, <1>6, <1>7

-----------------------------------------------------------------------------
(* Type correctness.  buy's arithmetic needs more than the types: that the *)
(* order stored under a token is an order of that token.                   *)

OrdersNameTheirToken == \A t \in Tokens : OnSale(t) => orders[t].token = t

\* put keeps the types: the new order's id is still within uint32.
LEMMA PutType ==
  ASSUME TypeOK, NEW caller, NEW t \in Tokens, NEW price \in Prices, NEW cur \in Currencies,
         NEW amount \in Amounts, NEW seller \in CrossAddresses,
         Put(caller, t, price, cur, amount, seller)
  PROVE  TypeOK'
<1> DEFINE order == [id |-> NewId, token |-> t, amount |-> amount, price |-> price,
                     currency |-> cur, seller |-> seller]
<1>1. order \in Order
  BY InputTypes DEF NewId, TypeOK, Order
<1>2. log' \in [Ids -> Event]
  BY <1>1, EmitType DEF Put, EventNames
<1>3. orders' \in [Tokens -> Order] /\ idCount' \in 1 .. MaxUint32
  BY <1>1, InputTypes DEF Put, TypeOK
<1> QED BY <1>2, <1>3 DEF Put, TypeOK, config, nfts, money

\* changePrice keeps the types.
LEMMA ChangePriceType ==
  ASSUME TypeOK, NEW caller, NEW t \in Tokens, NEW price \in Prices, NEW cur \in Currencies,
         ChangePrice(caller, t, price, cur)
  PROVE  TypeOK'
<1> DEFINE order == [orders[t] EXCEPT !.price = price, !.currency = cur]
<1>1. order \in Order
  BY InputTypes DEF TypeOK, Order
<1>2. log' \in [Ids -> Event]
  BY <1>1, EmitType DEF ChangePrice, EventNames
<1>3. orders' \in [Tokens -> Order]
  BY <1>1 DEF ChangePrice, TypeOK
<1> QED BY <1>2, <1>3 DEF ChangePrice, TypeOK, config, nfts, money

\* revoke keeps the types: it takes no more fractions than there are.
LEMMA RevokeType ==
  ASSUME TypeOK, NEW caller, NEW t \in Tokens, NEW amount \in Amounts,
         Revoke(caller, t, amount)
  PROVE  TypeOK'
<1> DEFINE order == Left(orders[t], amount)
<1>1. order \in Order
  BY LeftType, InputTypes DEF Revoke, TypeOK
<1>2. log' \in [Ids -> Event]
  BY <1>1, EmitType DEF Revoke, EventNames
<1>3. orders' \in [Tokens -> Order]
  BY <1>1, StoredType DEF Revoke, TypeOK
<1> QED BY <1>2, <1>3 DEF Revoke, TypeOK, config, nfts, money

\* transferFromCross gives the token to an account.
LEMMA TransferTokenType ==
  ASSUME TypeOK, NEW t \in Tokens, NEW seller, NEW buyer \in CrossAddresses,
         ValidCrossAddress(buyer), TransferToken(t, seller, buyer)
  PROVE  tokenOwner' \in [Tokens -> Accounts \cup {Zero}] /\ approved' \subseteq Tokens
  BY AddressOfType DEF TypeOK, TransferToken

\* Paying in the native token leaves every balance a natural number.
LEMMA PayNativeType ==
  ASSUME TypeOK, OrdersNameTheirToken, NEW caller \in Accounts, NEW t \in Tokens,
         NEW n \in Nat, NEW value \in Sums, OnSale(t), Settles(orders[t], n),
         PayNative(caller, value, orders[t], n)
  PROVE  balance' \in [Currencies -> [Holders -> Nat]] /\ allowance' \in [Currencies -> [Accounts -> Nat]]
<1> DEFINE o == orders[t]
           new == [h \in Holders |->
             IF h = Market THEN balance[0][h] + value - Outlay(o, n)
             ELSE balance[0][h] - (IF h = caller THEN value ELSE 0) + Receipt(h, o, n)]
<1>1. Outlay(o, n) \in Nat /\ \A a \in Accounts : Receipt(a, o, n) \in Nat
  BY PriceIsSplit DEF OrdersNameTheirToken
<1>2. balance[0] \in [Holders -> Nat] /\ value \in Nat
  BY LedgerTypes, InputTypes DEF TypeOK
<1>3. balance[0][caller] >= value /\ balance[0][Market] + value >= Outlay(o, n)
  BY DEF PayNative
<1>4. ASSUME NEW h \in Holders
      PROVE  new[h] \in Nat
  <2>1. CASE h = Market
    BY <1>1, <1>2, <1>3, <2>1
  <2>2. CASE h # Market
    <3>1. h \in Accounts /\ Receipt(h, o, n) \in Nat
      BY <1>1, <2>2 DEF Holders
    <3> HIDE DEF o
    <3> QED BY <1>2, <1>3, <2>2, <3>1
  <2> QED BY <2>1, <2>2
<1>5. balance' = [balance EXCEPT ![0] = new]
  BY DEF PayNative
<1>6. new \in [Holders -> Nat]
  BY <1>4
<1> QED BY <1>5, <1>6 DEF TypeOK, PayNative

\* Paying in a fungible collection leaves every balance, and what is left
\* of the allowance, a natural number.
LEMMA PayFungibleType ==
  ASSUME TypeOK, OrdersNameTheirToken, NEW caller \in Accounts, NEW t \in Tokens,
         NEW buyer \in CrossAddresses, ValidCrossAddress(buyer), NEW n \in Nat,
         NEW value \in Sums, OnSale(t), Settles(orders[t], n), orders[t].currency # 0,
         PayFungible(caller, value, buyer, orders[t], n)
  PROVE  balance' \in [Currencies -> [Holders -> Nat]] /\ allowance' \in [Currencies -> [Accounts -> Nat]]
<1> DEFINE o == orders[t]
           cur == o.currency
           payer == AddressOf(buyer)
           cost == Outlay(o, n) + MarketFeeValue(o, n)
           native == [balance[0] EXCEPT ![caller] = @ - value, ![Market] = @ + value]
           new == [h \in Holders |->
             IF h = Market THEN balance[cur][h] + MarketFeeValue(o, n)
             ELSE balance[cur][h] - (IF h = payer THEN cost ELSE 0) + Receipt(h, o, n)]
<1>1. /\ Outlay(o, n) \in Nat /\ MarketFeeValue(o, n) \in Nat
      /\ \A a \in Accounts : Receipt(a, o, n) \in Nat
  BY PriceIsSplit DEF OrdersNameTheirToken
<1>2. cur \in Currencies \ {0} /\ 0 \in Currencies /\ value \in Nat /\ payer \in Accounts
  BY LedgerTypes, InputTypes, AddressOfType DEF TypeOK, Order
<1>3. balance[0] \in [Holders -> Nat] /\ balance[cur] \in [Holders -> Nat]
      /\ allowance[cur] \in [Accounts -> Nat]
  BY <1>2 DEF TypeOK
<1>4. balance[0][caller] >= value /\ balance[cur][payer] >= cost /\ allowance[cur][payer] >= cost
  BY DEF PayFungible, Payer
<1>5. native \in [Holders -> Nat]
  BY <1>2, <1>3, <1>4, NamesDiffer DEF Holders
<1>6. ASSUME NEW h \in Holders
      PROVE  new[h] \in Nat
  <2>1. CASE h = Market
    BY <1>1, <1>3, <2>1
  <2>2. CASE h # Market
    <3>1. h \in Accounts /\ Receipt(h, o, n) \in Nat
      BY <1>1, <2>2 DEF Holders
    <3>2. cost \in Nat
      BY <1>1
    <3> HIDE DEF o, cost, cur, payer
    <3> QED BY <1>3, <1>4, <2>2, <3>1, <3>2 DEF new
  <2> QED BY <2>1, <2>2
<1>7. new \in [Holders -> Nat]
  BY <1>6
<1>8. balance' = [balance EXCEPT ![0] = native, ![cur] = new]
  BY DEF PayFungible, Payer
<1>9. allowance' = [allowance EXCEPT ![cur][payer] = @ - cost]
  BY DEF PayFungible, Payer
<1>10. allowance[cur][payer] - cost \in Nat
  BY <1>1, <1>2, <1>3, <1>4
<1> HIDE DEF cur, native, new, cost, payer
<1> QED BY <1>2, <1>5, <1>7, <1>8, <1>9, <1>10 DEF TypeOK

\* buy keeps the types, in either kind of currency.
LEMMA BuyType ==
  ASSUME TypeOK, OrdersNameTheirToken, NEW caller \in Accounts, NEW t \in Tokens,
         NEW amount \in Amounts, NEW buyer \in CrossAddresses, NEW value \in Sums,
         Buy(caller, t, amount, buyer, value)
  PROVE  TypeOK'
<1> DEFINE order == Left(orders[t], amount)
<1>1. order \in Order
  BY LeftType, InputTypes DEF Buy, MayBuy, TypeOK
<1>2. log' \in [Ids -> Event]
  BY <1>1, EmitType DEF Buy, EventNames
<1>3. orders' \in [Tokens -> Order]
  BY <1>1, StoredType DEF Buy, TypeOK
<1>4. tokenOwner' \in [Tokens -> Accounts \cup {Zero}] /\ approved' \subseteq Tokens
  BY TransferTokenType DEF Buy
<1>5. balance' \in [Currencies -> [Holders -> Nat]] /\ allowance' \in [Currencies -> [Accounts -> Nat]]
  <2>1. OnSale(t) /\ Settles(orders[t], amount) /\ amount \in Nat /\ ValidCrossAddress(buyer)
    BY InputTypes DEF Buy, MayBuy
  <2>2. CASE orders[t].currency = 0
    BY <2>1, <2>2, PayNativeType DEF Buy
  <2>3. CASE orders[t].currency # 0
    BY <2>1, <2>3, PayFungibleType DEF Buy
  <2> QED BY <2>2, <2>3
<1> QED BY <1>2, <1>3, <1>4, <1>5 DEF Buy, TypeOK, config

\* checkApproved keeps the types, whether it ends the order or not.
LEMMA CheckApprovedType ==
  ASSUME TypeOK, NEW caller, NEW t \in Tokens, CheckApproved(caller, t)
  PROVE  TypeOK'
<1>1. orders[t] \in Order /\ Withdrawn(orders[t]) \in Order
  BY StoredType DEF TypeOK
<1>2. log' \in [Ids -> Event]
  BY <1>1, EmitType DEF CheckApproved, EventNames
<1>3. orders' \in [Tokens -> Order]
  BY EmptyOrderType DEF CheckApproved, TypeOK
<1> QED BY <1>2, <1>3 DEF CheckApproved, TypeOK, config, nfts, money

\* revokeAdmin keeps the types.
LEMMA RevokeAdminType ==
  ASSUME TypeOK, NEW caller, NEW t \in Tokens, RevokeAdmin(caller, t)
  PROVE  TypeOK'
<1>1. log' \in [Ids -> Event]
  BY StoredType, EmitType DEF RevokeAdmin, EventNames, TypeOK
<1>2. orders' \in [Tokens -> Order]
  BY EmptyOrderType DEF RevokeAdmin, TypeOK
<1> QED BY <1>1, <1>2 DEF RevokeAdmin, TypeOK, config, nfts, money

\* revokeListAdmin keeps the types, for any list.
LEMMA RevokeListAdminType ==
  ASSUME TypeOK, NEW caller, NEW S \in SUBSET Tokens, RevokeListAdmin(caller, S)
  PROVE  TypeOK'
<1>1. ASSUME NEW id \in Ids, \E t \in S : orders[t].id = id
      PROVE  [name |-> "TokenRevoke",
              item |-> Withdrawn(orders[CHOOSE t \in S : orders[t].id = id])] \in Event
  <2>1. (CHOOSE t \in S : orders[t].id = id) \in Tokens
    BY <1>1
  <2> QED BY <2>1, StoredType DEF TypeOK, Event, EventNames
<1>2. log' \in [Ids -> Event]
  BY <1>1 DEF RevokeListAdmin, TypeOK
<1>3. orders' \in [Tokens -> Order]
  BY EmptyOrderType DEF RevokeListAdmin, TypeOK
<1> QED BY <1>2, <1>3 DEF RevokeListAdmin, TypeOK, config, nfts, money

\* Moving money between two accounts keeps the balances natural numbers.
LEMMA PayType ==
  ASSUME TypeOK, NEW cur \in Currencies, NEW from \in Holders, NEW to \in Holders,
         NEW n \in Sums, Pay(cur, from, to, n)
  PROVE  TypeOK'
<1>1. [balance[cur] EXCEPT ![from] = @ - n, ![to] = @ + n] \in [Holders -> Nat]
  BY InputTypes DEF Pay, TypeOK
<1> QED BY <1>1 DEF Pay, TypeOK, config, book, nfts

\* What the owner and the admins do keeps the types.
LEMMA AdministerType ==
  ASSUME TypeOK, Administer
  PROVE  TypeOK'
<1> PICK caller \in Operators :
      \/ \E t \in Tokens : CheckApproved(caller, t) \/ RevokeAdmin(caller, t)
      \/ \E S \in SUBSET Tokens : RevokeListAdmin(caller, S)
      \/ \E a \in Operators :
           AddAdmin(caller, a) \/ RemoveAdmin(caller, a) \/ TransferOwnership(caller, a)
      \/ \E f \in Fees : SetMarketFee(caller, f)
      \/ \E cur \in Currencies, f \in Fees : AddCurrency(caller, cur, f)
      \/ \E cur \in Currencies : RemoveCurrency(caller, cur)
      \/ \E c \in Collections : AddToBlacklist(caller, c) \/ RemoveFromBlacklist(caller, c)
      \/ \E h \in Helpers : SetRoyaltyHelpers(caller, h)
      \/ \E to \in CrossAddresses, cur \in Currencies, n \in Sums :
           ValidCrossAddress(to) /\ Withdraw(caller, to, cur, n)
  BY DEF Administer
<1>1. CASE \E t \in Tokens : CheckApproved(caller, t) \/ RevokeAdmin(caller, t)
  BY <1>1, CheckApprovedType, RevokeAdminType
<1>2. CASE \E S \in SUBSET Tokens : RevokeListAdmin(caller, S)
  BY <1>2, RevokeListAdminType
<1>3. CASE \E a \in Operators : AddAdmin(caller, a) \/ RemoveAdmin(caller, a)
                                \/ TransferOwnership(caller, a)
  BY <1>3, AddressTypes
     DEF AddAdmin, RemoveAdmin, TransferOwnership, TypeOK, book, nfts, money
<1>4. CASE \E f \in Fees : SetMarketFee(caller, f)
  BY <1>4, InputTypes DEF SetMarketFee, ValidFee, TypeOK, book, nfts, money
<1>5. CASE \E cur \in Currencies, f \in Fees : AddCurrency(caller, cur, f)
  BY <1>5, InputTypes
     DEF AddCurrency, SetCurrency, ValidFee, Currency, TypeOK, book, nfts, money
<1>6. CASE \E cur \in Currencies : RemoveCurrency(caller, cur)
  BY <1>6 DEF RemoveCurrency, NoCurrency, SetCurrency, Currency, TypeOK, book, nfts, money
<1>7. CASE \E c \in Collections : AddToBlacklist(caller, c) \/ RemoveFromBlacklist(caller, c)
  BY <1>7 DEF AddToBlacklist, RemoveFromBlacklist, SetBlacklist, TypeOK, book, nfts, money
<1>8. CASE \E h \in Helpers : SetRoyaltyHelpers(caller, h)
  BY <1>8 DEF SetRoyaltyHelpers, TypeOK, book, nfts, money
<1>9. CASE \E to \in CrossAddresses, cur \in Currencies, n \in Sums :
             ValidCrossAddress(to) /\ Withdraw(caller, to, cur, n)
  <2> PICK to \in CrossAddresses, cur \in Currencies, n \in Sums :
        ValidCrossAddress(to) /\ Withdraw(caller, to, cur, n)
    BY <1>9
  <2>1. AddressOf(to) \in Holders /\ Market \in Holders
    BY AddressOfType DEF Holders
  <2> QED BY <2>1, PayType DEF Withdraw
<1> QED BY <1>1, <1>2, <1>3, <1>4, <1>5, <1>6, <1>7, <1>8, <1>9

\* Transfers, burns, approvals and plain payments keep the types.
LEMMA CollectionType ==
  ASSUME TypeOK, Collection
  PROVE  TypeOK'
<1>1. CASE \E t \in Tokens : Burn(t) \/ Approve(t) \/ Disapprove(t)
  BY <1>1 DEF Burn, Approve, Disapprove, TypeOK, config, book, money
<1>2. CASE \E t \in Tokens, a \in Accounts : Transfer(t, a)
  BY <1>2 DEF Transfer, TypeOK, config, book, money
<1>3. CASE \E a \in Accounts, n \in Sums : Receive(a, n)
  BY <1>3, PayType, LedgerTypes DEF Receive, Holders
<1>4. CASE \E a \in Accounts, cur \in Currencies, n \in Sums : ApproveMoney(a, cur, n)
  BY <1>4, InputTypes DEF ApproveMoney, TypeOK, config, book, nfts
<1> QED BY <1>1, <1>2, <1>3, <1>4 DEF Collection

\* Every step keeps the types.
LEMMA NextType ==
  ASSUME TypeOK, OrdersNameTheirToken, [Next]_vars
  PROVE  TypeOK'
<1>1. CASE Trade
  BY <1>1, PutType, ChangePriceType, RevokeType, BuyType DEF Trade
<1>2. CASE Administer
  BY <1>2, AdministerType
<1>3. CASE Collection
  BY <1>3, CollectionType
<1>4. CASE UNCHANGED vars
  BY <1>4 DEF vars, config, book, nfts, money, TypeOK
<1> QED BY <1>1, <1>2, <1>3, <1>4 DEF Next

-----------------------------------------------------------------------------
(* The order book.  Every transaction that touches it, but the revocation  *)
(* of a list, stores one order and emits it: Recorded says how, and the    *)
(* lemma after it that this keeps BookInv.                                 *)

Recorded(t, o, name) ==
  /\ o \in Order /\ o.token = t /\ o.id \in Ids /\ o.price > 0
  /\ Emit(name, o)
  /\ orders' = [orders EXCEPT ![t] = Stored(o)]
  /\ \/ OnSale(t) /\ o.id = orders[t].id /\ idCount' = idCount
     \/ ~OnSale(t) /\ o.id = idCount /\ idCount' = idCount + 1

\* A transaction that records one order keeps the book and the log in step.
LEMMA RecordedKeepsBook ==
  ASSUME IndInv, NEW t \in Tokens, NEW o, NEW name, Recorded(t, o, name)
  PROVE  BookInv'
<1> USE DEF IndInv
<1>1. /\ log' = [log EXCEPT ![o.id] = [name |-> name, item |-> o]]
      /\ log \in [Ids -> Event] /\ o.id \in Ids /\ Ids \subseteq Nat
  BY DEF Recorded, Emit, TypeOK, Ids
<1>2. log'[o.id].item = o /\ \A id \in Ids \ {o.id} : log'[id] = log[id]
  BY <1>1
<1>3. orders'[t] = Stored(o) /\ \A u \in Tokens \ {t} : orders'[u] = orders[u]
  BY DEF Recorded, TypeOK
<1>4. idCount \in Nat /\ idCount' \in Nat /\ o.id < idCount' /\ idCount <= idCount'
  BY DEF Recorded, TypeOK, BookInv
<1>5. o \in Order /\ o.token = t /\ o.price > 0 /\ o.amount \in Nat
  BY DEF Recorded, Order
\* No other order on sale has the id of this one.
<1>6. ASSUME NEW u \in Tokens \ {t}, OnSale(u)
      PROVE  orders[u].id \in Ids \ {o.id} /\ orders[u].id < idCount
  <2>1. orders[u].id \in 1 .. idCount - 1 /\ log[orders[u].id].item = orders[u]
        /\ orders[u].token = u
    BY <1>6 DEF BookInv
  <2>2. idCount \in 1 .. MaxUint32 /\ MaxUint32 \in Nat
    BY InputTypes DEF TypeOK
  <2>3. orders[u].id \in Ids /\ orders[u].id < idCount
    BY <2>1, <2>2 DEF Ids
  <2>4. CASE OnSale(t) /\ o.id = orders[t].id
    <3>1. log[o.id].item = orders[t] /\ orders[t].token = t
      BY <2>4 DEF BookInv
    <3> QED BY <2>1, <2>3, <3>1
  <2>5. CASE o.id = idCount
    BY <2>3, <2>5, <1>4
  <2> QED BY <2>4, <2>5 DEF Recorded
<1>7. ASSUME NEW u \in Tokens
      PROVE  IF OnSale(u)'
             THEN /\ orders'[u].token = u /\ orders'[u].amount > 0
                  /\ orders'[u].id \in 1 .. idCount' - 1
                  /\ log'[orders'[u].id].item = orders'[u]
             ELSE orders'[u] = EmptyOrder
  <2>1. CASE u = t /\ o.amount = 0
    <3>1. orders'[u] = EmptyOrder
      BY <2>1, <1>3 DEF Stored
    <3>2. ~OnSale(u)'
      BY <3>1 DEF OnSale, EmptyOrder
    <3> QED BY <3>1, <3>2
  <2>2. CASE u = t /\ o.amount # 0
    <3>1. orders'[u] = o
      BY <2>2, <1>3 DEF Stored
    <3>2. o.amount > 0 /\ o.id \in 1 .. idCount' - 1
      BY <2>2, <1>1, <1>4, <1>5 DEF Ids
    <3> QED BY <2>2, <3>1, <3>2, <1>2, <1>5 DEF OnSale
  <2>3. CASE u # t
    <3>1. CASE OnSale(u)
      BY <2>3, <3>1, <1>2, <1>3, <1>4, <1>6 DEF OnSale, BookInv
    <3>2. CASE ~OnSale(u)
      BY <2>3, <3>2, <1>3 DEF OnSale, BookInv
    <3> QED BY <3>1, <3>2
  <2> QED BY <2>1, <2>2, <2>3
<1>8. ASSUME NEW id \in Ids, id >= idCount'
      PROVE  log'[id].item.amount = 0
  BY <1>8, <1>1, <1>2, <1>4 DEF BookInv
<1>9. ASSUME NEW id \in Ids, log'[id].item.amount > 0
      PROVE  /\ log'[id].item.id = id
             /\ log'[id].item.token \in Tokens
             /\ orders'[log'[id].item.token] = log'[id].item
  <2>1. CASE id = o.id
    BY <2>1, <1>9, <1>2, <1>3, <1>5 DEF Stored
  <2>2. CASE id # o.id
    <3>1. /\ log'[id] = log[id] /\ log[id].item.id = id
          /\ log[id].item.token \in Tokens /\ orders[log[id].item.token] = log[id].item
      BY <2>2, <1>2, <1>9 DEF BookInv
    <3>2. log[id].item.token # t
      BY <3>1, <2>2, <1>9 DEF Recorded, BookInv, EmptyOrder, OnSale
    <3> QED BY <3>1, <3>2, <1>3
  <2> QED BY <2>1, <2>2
<1> QED BY <1>7, <1>8, <1>9 DEF BookInv

\* What is known of an order on sale, whichever transaction touches it.
LEMMA OnSaleFacts ==
  ASSUME IndInv, NEW t \in Tokens, OnSale(t)
  PROVE  /\ orders[t] \in Order /\ orders[t].token = t /\ orders[t].amount > 0
         /\ orders[t].id \in Ids
<1>1. orders[t].id \in 1 .. idCount - 1 /\ orders[t].token = t /\ orders[t].amount > 0
  BY DEF IndInv, BookInv
<1>2. idCount \in 1 .. MaxUint32 /\ MaxUint32 \in Nat /\ orders[t] \in Order
  BY InputTypes DEF IndInv, TypeOK
<1> QED BY <1>1, <1>2 DEF Ids

\* put records a new order under the next id.
LEMMA PutRecords ==
  ASSUME IndInv, NEW caller, NEW t \in Tokens, NEW price \in Prices, NEW cur \in Currencies,
         NEW amount \in Amounts, NEW seller \in CrossAddresses,
         Put(caller, t, price, cur, amount, seller)
  PROVE  \E o : Recorded(t, o, "TokenIsUpForSale")
<1> DEFINE order == [id |-> NewId, token |-> t, amount |-> amount, price |-> price,
                     currency |-> cur, seller |-> seller]
<1>1. idCount \in 1 .. MaxUint32 - 1
  BY InputTypes DEF Put, IndInv, TypeOK
<1>2. order \in Order /\ order.token = t /\ order.id \in Ids /\ order.price > 0
  BY <1>1, InputTypes DEF Put, NewId, Ids, Order
<1>3. Emit("TokenIsUpForSale", order) /\ Stored(order) = order
  BY DEF Put, Stored
<1>4. /\ orders' = [orders EXCEPT ![t] = order]
      /\ ~OnSale(t) /\ order.id = idCount /\ idCount' = idCount + 1
  BY DEF Put, NewId
<1> HIDE DEF order
<1> QED BY <1>2, <1>3, <1>4 DEF Recorded

\* changePrice records the order again, under its own id.
LEMMA ChangePriceRecords ==
  ASSUME IndInv, NEW caller, NEW t \in Tokens, NEW price \in Prices, NEW cur \in Currencies,
         ChangePrice(caller, t, price, cur)
  PROVE  \E o : Recorded(t, o, "TokenPriceChanged")
<1> DEFINE order == [orders[t] EXCEPT !.price = price, !.currency = cur]
<1>1. OnSale(t) /\ price # 0 /\ price \in Nat
  BY InputTypes DEF ChangePrice
<1>2. /\ order \in Order /\ order.token = t /\ order.id = orders[t].id
      /\ order.id \in Ids /\ order.price > 0 /\ order.amount > 0
  <2>1. orders[t] \in Order /\ orders[t].token = t /\ orders[t].amount > 0 /\ orders[t].id \in Ids
    BY <1>1, OnSaleFacts
  <2>2. order \in Order
    BY <1>1, <2>1 DEF Order
  <2>3. /\ order.token = orders[t].token /\ order.id = orders[t].id
        /\ order.price = price /\ order.amount = orders[t].amount
    BY <2>1 DEF Order
  <2> QED BY <1>1, <2>1, <2>2, <2>3
<1>3. Emit("TokenPriceChanged", order) /\ orders' = [orders EXCEPT ![t] = order]
      /\ idCount' = idCount
  BY DEF ChangePrice
<1> HIDE DEF order
<1>4. Stored(order) = order
  BY <1>2 DEF Stored
<1> QED BY <1>1, <1>2, <1>3, <1>4 DEF Recorded

\* Taking fractions of an order on sale records what is left of it.
LEMMA LeftRecords ==
  ASSUME IndInv, NEW t \in Tokens, OnSale(t), NEW n \in Nat, n <= orders[t].amount,
         NEW name, Emit(name, Left(orders[t], n)), idCount' = idCount,
         orders' = [orders EXCEPT ![t] = Stored(Left(orders[t], n))]
  PROVE  Recorded(t, Left(orders[t], n), name)
<1>1. Left(orders[t], n) \in Order /\ Left(orders[t], n).id = orders[t].id
      /\ Left(orders[t], n).token = t /\ Left(orders[t], n).price > 0
  BY LeftType, OnSaleFacts DEF Left, OnSale, Order
<1> QED BY <1>1, OnSaleFacts DEF Recorded

\* An order taken off sale by an admin is recorded with nothing left.
LEMMA WithdrawnRecords ==
  ASSUME IndInv, NEW t \in Tokens, OnSale(t), idCount' = idCount,
         Emit("TokenRevoke", Withdrawn(orders[t])),
         orders' = [orders EXCEPT ![t] = EmptyOrder]
  PROVE  Recorded(t, Withdrawn(orders[t]), "TokenRevoke")
<1>1. /\ Withdrawn(orders[t]) \in Order /\ Withdrawn(orders[t]).id = orders[t].id
      /\ Withdrawn(orders[t]).token = t /\ Withdrawn(orders[t]).price > 0
      /\ Stored(Withdrawn(orders[t])) = EmptyOrder
  BY StoredType, OnSaleFacts DEF Withdrawn, OnSale, Order, Stored
<1> QED BY <1>1, OnSaleFacts DEF Recorded

\* checkApproved records the order: withdrawn, or as it stands.
LEMMA CheckApprovedRecords ==
  ASSUME IndInv, NEW caller, NEW t \in Tokens, CheckApproved(caller, t)
  PROVE  \E o, name : Recorded(t, o, name)
<1>1. OnSale(t) /\ idCount' = idCount
  BY DEF CheckApproved
<1>2. CASE t \notin approved \/ tokenOwner[t] # AddressOf(orders[t].seller)
  BY <1>1, <1>2, WithdrawnRecords DEF CheckApproved
<1>3. CASE t \in approved /\ tokenOwner[t] = AddressOf(orders[t].seller)
  <2>1. Emit("TokenIsApproved", orders[t]) /\ orders' = orders
    BY <1>3 DEF CheckApproved
  <2>2. Stored(orders[t]) = orders[t] /\ orders[t].price > 0
    BY <1>1, OnSaleFacts DEF Stored, OnSale
  <2>3. orders = [orders EXCEPT ![t] = Stored(orders[t])]
    BY <2>2 DEF IndInv, TypeOK
  <2> QED BY <1>1, <2>1, <2>2, <2>3, OnSaleFacts DEF Recorded
<1> QED BY <1>2, <1>3

\* revokeListAdmin ends many orders in one step; distinct ids keep their
\* events apart.
LEMMA RevokeListKeepsBook ==
  ASSUME IndInv, NEW caller, NEW S \in SUBSET Tokens, RevokeListAdmin(caller, S)
  PROVE  BookInv'
<1> USE DEF IndInv
<1>1. \A t \in Tokens : orders'[t] = IF t \in S THEN EmptyOrder ELSE orders[t]
  BY DEF RevokeListAdmin
<1>2. \A t \in S : t \in Tokens /\ OnSale(t)
  BY DEF RevokeListAdmin
<1>3. idCount' = idCount
  BY DEF RevokeListAdmin
<1> DEFINE Revoked(id) == \E t \in S : orders[t].id = id
<1>4. ASSUME NEW id \in Ids, Revoked(id)
      PROVE  log'[id].item.amount = 0
  <2>1. log'[id].item = Withdrawn(orders[CHOOSE t \in S : orders[t].id = id])
    BY <1>4 DEF RevokeListAdmin
  <2>2. orders[CHOOSE t \in S : orders[t].id = id] \in Order
    BY <1>4 DEF TypeOK
  <2> QED BY <2>1, <2>2 DEF Withdrawn, Order
<1>5. ASSUME NEW id \in Ids, ~Revoked(id)
      PROVE  log'[id] = log[id]
  BY <1>5 DEF RevokeListAdmin
<1>6. ASSUME NEW u \in Tokens \ S, OnSale(u)
      PROVE  orders[u].id \in Ids /\ ~Revoked(orders[u].id)
  <2>1. orders[u].id \in Ids /\ orders[u].token = u /\ log[orders[u].id].item = orders[u]
    BY <1>6, OnSaleFacts DEF BookInv
  <2>2. ASSUME NEW t \in S, orders[t].id = orders[u].id
        PROVE  FALSE
    <3>1. log[orders[t].id].item = orders[t] /\ orders[t].token = t
      BY <1>2 DEF BookInv
    <3> QED BY <2>1, <2>2, <3>1, <1>6
  <2> QED BY <2>1, <2>2
<1>7. ASSUME NEW u \in Tokens
      PROVE  IF OnSale(u)'
             THEN /\ orders'[u].token = u /\ orders'[u].amount > 0
                  /\ orders'[u].id \in 1 .. idCount' - 1
                  /\ log'[orders'[u].id].item = orders'[u]
             ELSE orders'[u] = EmptyOrder
  <2>1. CASE u \in S
    <3>1. orders'[u] = EmptyOrder
      BY <2>1, <1>1
    <3>2. ~OnSale(u)'
      BY <3>1 DEF OnSale, EmptyOrder
    <3> QED BY <3>1, <3>2
  <2>2. CASE u \notin S /\ OnSale(u)
    <3>1. orders'[u] = orders[u] /\ log'[orders[u].id] = log[orders[u].id]
      BY <2>2, <1>1, <1>5, <1>6
    <3> HIDE DEF Revoked
    <3> QED BY <2>2, <3>1, <1>3 DEF BookInv, OnSale
  <2>3. CASE u \notin S /\ ~OnSale(u)
    BY <2>3, <1>1 DEF BookInv, OnSale
  <2> QED BY <2>1, <2>2, <2>3
<1>8. ASSUME NEW id \in Ids, id >= idCount'
      PROVE  log'[id].item.amount = 0
  BY <1>3, <1>4, <1>5, <1>8 DEF BookInv
<1>9. ASSUME NEW id \in Ids, log'[id].item.amount > 0
      PROVE  /\ log'[id].item.id = id
             /\ log'[id].item.token \in Tokens
             /\ orders'[log'[id].item.token] = log'[id].item
  <2>1. ~Revoked(id)
    BY <1>4, <1>9
  <2>2. log'[id] = log[id]
    BY <1>5, <2>1
  <2>3. /\ log[id].item.id = id /\ log[id].item.token \in Tokens
        /\ orders[log[id].item.token] = log[id].item
    BY <1>9, <2>2 DEF BookInv
  <2>4. log[id].item.token \notin S
    BY <2>1, <2>3
  <2> QED BY <2>2, <2>3, <2>4, <1>1
<1> QED BY <1>7, <1>8, <1>9 DEF BookInv

\* Everything else leaves the order book alone.
LEMMA AdministerBook ==
  ASSUME IndInv, Administer
  PROVE  BookInv'
<1>1. PICK caller \in Operators :
      \/ \E t \in Tokens : CheckApproved(caller, t) \/ RevokeAdmin(caller, t)
      \/ \E S \in SUBSET Tokens : RevokeListAdmin(caller, S)
      \/ UNCHANGED book
  BY DEF Administer, AddAdmin, RemoveAdmin, TransferOwnership, SetMarketFee, AddCurrency,
     RemoveCurrency, SetCurrency, AddToBlacklist, RemoveFromBlacklist, SetBlacklist,
     SetRoyaltyHelpers, Withdraw, Pay
<1>2. ASSUME NEW t \in Tokens, CheckApproved(caller, t)
      PROVE  BookInv'
  BY <1>2, CheckApprovedRecords, RecordedKeepsBook
<1>3. ASSUME NEW t \in Tokens, RevokeAdmin(caller, t)
      PROVE  BookInv'
  BY <1>3, WithdrawnRecords, RecordedKeepsBook DEF RevokeAdmin
<1>4. CASE UNCHANGED book
  BY <1>4 DEF book, IndInv, BookInv, OnSale
<1> QED BY <1>1, <1>2, <1>3, <1>4, RevokeListKeepsBook

\* What users do with their orders keeps the book and the log in step.
LEMMA TradeBook ==
  ASSUME IndInv, Trade
  PROVE  BookInv'
<1>1. PICK caller \in Accounts, t \in Tokens :
    \/ \E p \in Prices, cur \in Currencies, n \in Amounts, s \in CrossAddresses :
         Put(caller, t, p, cur, n, s)
    \/ \E p \in Prices, cur \in Currencies : ChangePrice(caller, t, p, cur)
    \/ \E n \in Amounts : Revoke(caller, t, n)
    \/ \E n \in Amounts, b \in CrossAddresses, v \in Sums : Buy(caller, t, n, b, v)
  BY DEF Trade
<1>2. ASSUME NEW n \in Amounts, Revoke(caller, t, n)
      PROVE  BookInv'
  BY <1>2, InputTypes, LeftRecords, RecordedKeepsBook DEF Revoke
<1>3. ASSUME NEW n \in Amounts, NEW b \in CrossAddresses, NEW v \in Sums, Buy(caller, t, n, b, v)
      PROVE  BookInv'
  BY <1>3, InputTypes, LeftRecords, RecordedKeepsBook DEF Buy, MayBuy
<1> QED BY <1>1, <1>2, <1>3, PutRecords, ChangePriceRecords, RecordedKeepsBook

-----------------------------------------------------------------------------
(* The theorems.                                                           *)

\* The empty book and the empty log agree.
LEMMA InitBook == Init => BookInv
  BY DEF Init, BookInv, OnSale, EmptyOrder

\* The inductive invariant: types, and book and log in step.
LEMMA IndInvHolds == Spec => []IndInv
<1>1. Init => IndInv
  BY InitType, InitBook DEF IndInv
<1>2. IndInv /\ [Next]_vars => IndInv'
  <2> SUFFICES ASSUME IndInv, [Next]_vars
               PROVE  IndInv'
    OBVIOUS
  <2>1. TypeOK'
    BY NextType DEF IndInv, BookInv, OrdersNameTheirToken
  <2>2. BookInv'
    <3>1. CASE Trade
      BY <3>1, TradeBook
    <3>2. CASE Administer
      BY <3>2, AdministerBook
    <3>3. CASE Collection \/ UNCHANGED vars
      <4>1. UNCHANGED book
        BY <3>3 DEF Collection, Burn, Approve, Disapprove, Transfer, Receive, Pay,
           ApproveMoney, vars
      <4> QED BY <4>1 DEF book, IndInv, BookInv, OnSale
    <3> QED BY <3>1, <3>2, <3>3 DEF Next
  <2> QED BY <2>1, <2>2 DEF IndInv
<1> QED BY <1>1, <1>2, PTL DEF Spec

\* Every variable keeps its type: no fee above 100 percent, no negative
\* balance, whatever the constants are.
THEOREM TypeCorrect == Spec => []TypeOK
  BY IndInvHolds, PTL DEF IndInv

\* The log mirrors the order book, for any number of tokens, orders and accounts.
THEOREM LogMirrorsBook == Spec => []EventsTellTheOrderBook
<1>1. IndInv => EventsTellTheOrderBook
  <2> SUFFICES ASSUME IndInv, NEW id \in Ids
               PROVE  IF log[id].item.amount > 0
                      THEN log[id].item.id = id /\ orders[log[id].item.token] = log[id].item
                      ELSE \A t \in Tokens : orders[t].id # id
    BY DEF EventsTellTheOrderBook
  <2>1. CASE log[id].item.amount > 0
    BY <2>1 DEF IndInv, BookInv
  <2>2. ASSUME ~(log[id].item.amount > 0), NEW t \in Tokens, orders[t].id = id
        PROVE  FALSE
    <3>1. OnSale(t)
      <4>1. CASE orders[t] = EmptyOrder
        BY <2>2, <4>1 DEF EmptyOrder, Ids
      <4> QED BY <4>1 DEF IndInv, BookInv
    <3>2. log[id].item = orders[t] /\ orders[t].amount > 0
      BY <2>2, <3>1 DEF IndInv, BookInv
    <3> QED BY <2>2, <3>2
  <2> QED BY <2>1, <2>2
<1> QED BY <1>1, IndInvHolds, PTL

\* No two orders on sale share an id, and every id in use was handed out.
THEOREM DistinctIds == Spec => []OrdersHaveDistinctIds
<1>1. IndInv => OrdersHaveDistinctIds
  <2> SUFFICES ASSUME IndInv, NEW t \in Tokens, NEW u \in Tokens, OnSale(t)
               PROVE  /\ orders[t].id \in 1 .. idCount - 1
                      /\ orders[t].id = orders[u].id => t = u
    BY DEF OrdersHaveDistinctIds
  <2>1. /\ orders[t].id \in 1 .. idCount - 1 /\ orders[t].token = t
        /\ log[orders[t].id].item = orders[t]
    BY DEF IndInv, BookInv
  <2>2. CASE OnSale(u)
    <3>1. orders[u].token = u /\ log[orders[u].id].item = orders[u]
      BY <2>2 DEF IndInv, BookInv
    <3> QED BY <2>1, <3>1
  <2>3. CASE ~OnSale(u)
    <3>1. orders[u].id = 0 /\ idCount \in 1 .. MaxUint32 /\ MaxUint32 \in Nat
      BY <2>3, InputTypes DEF IndInv, BookInv, TypeOK, EmptyOrder
    <3> QED BY <2>1, <3>1
  <2> QED BY <2>1, <2>2, <2>3
<1> QED BY <1>1, IndInvHolds, PTL

-----------------------------------------------------------------------------
(* The contract implements OrderBook.  The mapping Listings is first tied  *)
(* to the invariant: an id on sale shows the order that has it, an id from *)
(* the counter on is new, any other is closed.  A transaction that records *)
(* an order changes the listing of its id and no other, and so is a step   *)
(* of OrderBook or leaves Listings alone.                                  *)

NewListing == [state |-> "new", offer |-> Zero]
ClosedListing == [state |-> "closed", offer |-> Zero]
Shown(o) == [state |-> "open",
             offer |-> [token |-> o.token, seller |-> o.seller, amount |-> o.amount]]

Sees ==
  /\ \A u \in Tokens : OnSale(u) =>
       /\ orders[u].id \in Ids /\ orders[u].id < idCount
       /\ Listing(orders[u].id) = Shown(orders[u])
  /\ \A u, w \in Tokens : OnSale(u) /\ OnSale(w) /\ orders[u].id = orders[w].id => u = w
  /\ \A id \in Ids : id >= idCount => Listing(id) = NewListing
  /\ \A id \in Ids :
       id < idCount /\ (\A u \in Tokens : OnSale(u) => orders[u].id # id)
         => Listing(id) = ClosedListing

\* The invariant gives each id its listing: no two orders on sale share one.
LEMMA SeesHolds == IndInv => Sees
<1> SUFFICES ASSUME IndInv
             PROVE  Sees
  OBVIOUS
<1>1. ASSUME NEW u \in Tokens, NEW w \in Tokens, OnSale(u), OnSale(w),
             orders[u].id = orders[w].id
      PROVE  u = w
  <2>1. orders[u] = log[orders[u].id].item /\ orders[u].token = u
    BY <1>1 DEF IndInv, BookInv
  <2>2. orders[w] = log[orders[w].id].item /\ orders[w].token = w
    BY <1>1 DEF IndInv, BookInv
  <2> QED BY <1>1, <2>1, <2>2
<1>2. ASSUME NEW u \in Tokens, OnSale(u)
      PROVE  /\ orders[u].id \in Ids /\ orders[u].id < idCount
             /\ Listing(orders[u].id) = Shown(orders[u])
  <2>1. /\ orders[u].id \in Ids /\ orders[u].token = u
        /\ orders[u].id \in 1 .. idCount - 1 /\ idCount \in Nat
    BY <1>2, OnSaleFacts DEF IndInv, BookInv, TypeOK
  <2> DEFINE seen == CHOOSE w \in Tokens : OnSale(w) /\ orders[w].id = orders[u].id
  <2>2. seen \in Tokens /\ OnSale(seen) /\ orders[seen].id = orders[u].id
    BY <1>2
  <2>3. seen = u
    BY <1>1, <1>2, <2>2
  <2>4. ~(orders[u].id >= idCount)
    BY <2>1 DEF Ids
  <2>5. Listing(orders[u].id) =
          [state |-> "open", offer |-> [token |-> seen, seller |-> orders[seen].seller,
                                        amount |-> orders[seen].amount]]
    BY <1>2, <2>4 DEF Listing
  <2> HIDE DEF seen
  <2> QED BY <2>1, <2>3, <2>4, <2>5 DEF Shown, Ids
<1>3. ASSUME NEW id \in Ids, id >= idCount
      PROVE  Listing(id) = NewListing
  BY <1>3 DEF Listing, NewListing
<1>4. ASSUME NEW id \in Ids, id < idCount, \A u \in Tokens : OnSale(u) => orders[u].id # id
      PROVE  Listing(id) = ClosedListing
  <2>1. ~(id >= idCount)
    BY <1>4 DEF IndInv, TypeOK, Ids
  <2> QED BY <1>4, <2>1 DEF Listing, ClosedListing
<1> QED BY <1>1, <1>2, <1>3, <1>4 DEF Sees

\* Recording an order changes the listing of its id, and of no other.
LEMMA RecordedListing ==
  ASSUME IndInv, Sees, Sees', idCount' \in Nat, NEW t \in Tokens, NEW o, NEW name,
         Recorded(t, o, name)
  PROVE  /\ \A id \in Ids \ {o.id} : Listing(id)' = Listing(id)
         /\ Listing(o.id)' = IF o.amount = 0 THEN ClosedListing ELSE Shown(o)
<1>1. orders'[t] = Stored(o) /\ \A u \in Tokens \ {t} : orders'[u] = orders[u]
  BY DEF Recorded, IndInv, TypeOK
<1>2. /\ o \in Order /\ o.token = t /\ o.id \in Ids /\ o.price > 0 /\ o.amount \in Nat
      /\ idCount \in Nat /\ Ids \subseteq Nat
  BY DEF Recorded, Order, IndInv, TypeOK, Ids
<1>3. \A u \in Tokens \ {t} : OnSale(u)' <=> OnSale(u)
  BY <1>1 DEF OnSale
<1>5. OnSale(t)' <=> o.amount # 0
  BY <1>1, <1>2 DEF OnSale, Stored, EmptyOrder
<1>6. o.id < idCount'
  BY <1>2 DEF Recorded, Sees
<1>7. ASSUME NEW id \in Ids \ {o.id}
      PROVE  Listing(id)' = Listing(id)
  <2>1. CASE \E u \in Tokens \ {t} : OnSale(u) /\ orders[u].id = id
    <3>1. PICK u \in Tokens \ {t} : OnSale(u) /\ orders[u].id = id
      BY <2>1
    <3>2. Listing(id) = Shown(orders[u])
      BY <3>1 DEF Sees
    <3>3. orders'[u] = orders[u] /\ OnSale(u)'
      BY <1>1, <1>3, <3>1
    <3>4. Listing(id)' = Shown(orders[u])
      BY <3>1, <3>3 DEF Sees, Shown
    <3> QED BY <3>2, <3>4
  <2>2. CASE \A u \in Tokens \ {t} : OnSale(u) => orders[u].id # id
    <3>1. \A u \in Tokens : OnSale(u) => orders[u].id # id
      BY <2>2, <1>7 DEF Recorded
    <3>2. \A u \in Tokens : OnSale(u)' => orders'[u].id # id
      BY <2>2, <1>1, <1>3, <1>5, <1>7 DEF Stored
    <3>3. CASE id >= idCount
      <4>1. id >= idCount'
        BY <3>3, <1>2, <1>7 DEF Recorded
      <4>2. Listing(id) = NewListing
        BY <3>3 DEF Sees
      <4>3. Listing(id)' = NewListing
        BY <4>1 DEF Sees, NewListing
      <4> QED BY <4>2, <4>3
    <3>4. CASE id < idCount
      <4>1. id < idCount'
        BY <3>4, <1>2, <1>7 DEF Recorded
      <4>2. Listing(id) = ClosedListing
        BY <3>1, <3>4 DEF Sees
      <4>3. Listing(id)' = ClosedListing
        BY <3>2, <4>1 DEF Sees, ClosedListing
      <4> QED BY <4>2, <4>3
    <3> QED BY <3>3, <3>4, <1>2
  <2> QED BY <2>1, <2>2
<1>8. CASE o.amount = 0
  <2>1. \A u \in Tokens : OnSale(u)' => orders'[u].id # o.id
    <3>1. ASSUME NEW u \in Tokens \ {t}, OnSale(u)
          PROVE  orders[u].id # o.id
      BY <3>1, <1>2 DEF Recorded, Sees
    <3> QED BY <3>1, <1>1, <1>3, <1>5, <1>8
  <2>2. Listing(o.id)' = ClosedListing
    BY <2>1, <1>2, <1>6 DEF Sees, ClosedListing
  <2> QED BY <2>2, <1>7, <1>8
<1>9. CASE o.amount # 0
  <2>1. orders'[t] = o /\ OnSale(t)'
    BY <1>1, <1>5, <1>9 DEF Stored
  <2>2. Listing(o.id)' = Shown(o)
    BY <2>1 DEF Sees, Shown
  <2> QED BY <2>2, <1>7, <1>9
<1> QED BY <1>8, <1>9
-----------------------------------------------------------------------------
(* The steps of OrderBook.                                                 *)

\* One listing changes.
LEMMA ListingsExcept ==
  ASSUME NEW i \in Ids, NEW v, Listing(i)' = v,
         \A id \in Ids \ {i} : Listing(id)' = Listing(id)
  PROVE  Listings' = [Listings EXCEPT ![i] = v]
  BY DEF Listings

\* No listing changes: the step stutters.
LEMMA ListingsSame ==
  ASSUME \A id \in Ids : Listing(id)' = Listing(id)
  PROVE  UNCHANGED Listings
  BY DEF Listings

\* The listing of an order on sale shows that order, and is open.
LEMMA OnSaleIsOpen ==
  ASSUME Sees, NEW t \in Tokens, OnSale(t)
  PROVE  Listings[orders[t].id] = Shown(orders[t]) /\ OrderBookOf!IsOpen(orders[t].id)
<1>1. orders[t].id \in Ids /\ Listing(orders[t].id) = Shown(orders[t])
  BY DEF Sees
<1>2. Listings[orders[t].id] = Shown(orders[t])
  BY <1>1 DEF Listings
<1> QED BY <1>2 DEF Shown, OrderBookOf!IsOpen

\* put lists a token under the next id.
LEMMA PutLists ==
  ASSUME IndInv, Sees, Sees', idCount' \in Nat, NEW caller, NEW t \in Tokens,
         NEW price \in Prices, NEW cur \in Currencies, NEW amount \in Amounts,
         NEW seller \in CrossAddresses, Put(caller, t, price, cur, amount, seller)
  PROVE  OrderBookOf!Next
<1> DEFINE order == [id |-> NewId, token |-> t, amount |-> amount, price |-> price,
                     currency |-> cur, seller |-> seller]
           offer == [token |-> t, seller |-> seller, amount |-> amount]
<1>1. idCount \in Ids /\ amount # 0 /\ ~OnSale(t) /\ idCount \in Nat
  BY InputTypes DEF Put, IndInv, TypeOK, Ids
<1>2. order \in Order /\ order.price > 0 /\ Stored(order) = order
  BY <1>1, InputTypes DEF Put, NewId, Ids, Order, Stored
<1>3. Recorded(t, order, "TokenIsUpForSale")
  BY <1>1, <1>2 DEF Put, NewId, Recorded
<1>4. order.id = idCount /\ order.amount = amount /\ Shown(order) = OrderBookOf!Open(offer)
  BY DEF NewId, Shown, OrderBookOf!Open
<1>5. PICK o : o = order
  OBVIOUS
<1>6. PICK i \in Ids : i = idCount
  BY <1>1
<1> HIDE DEF order
<1>7. /\ \A id \in Ids \ {i} : Listing(id)' = Listing(id)
      /\ Listing(i)' = OrderBookOf!Open(offer)
  BY <1>1, <1>3, <1>4, <1>5, <1>6, RecordedListing
<1>8. Listings' = [Listings EXCEPT ![i] = OrderBookOf!Open(offer)]
  BY <1>7, ListingsExcept
<1>9. Listings[i] = OrderBookOf!New /\ \A id \in Ids : id < i => Listings[id] # OrderBookOf!New
  <2>1. Listings[i] = NewListing
    BY <1>1, <1>6 DEF Sees, Listings
  <2>2. ASSUME NEW id \in Ids, id < i
        PROVE  Listings[id].state # "new"
    <3>1. CASE \E u \in Tokens : OnSale(u) /\ orders[u].id = id
      <4>1. PICK u \in Tokens : OnSale(u) /\ orders[u].id = id
        BY <3>1
      <4>2. Listings[id] = Shown(orders[u])
        BY <4>1, OnSaleIsOpen
      <4> QED BY <4>2 DEF Shown
    <3>2. CASE \A u \in Tokens : OnSale(u) => orders[u].id # id
      <4>1. id < idCount
        BY <2>2, <1>6
      <4>2. Listing(id) = ClosedListing
        BY <3>2, <4>1 DEF Sees
      <4> QED BY <4>2 DEF Listings, ClosedListing
    <3> QED BY <3>1, <3>2
  <2> QED BY <2>1, <2>2 DEF NewListing, OrderBookOf!New
<1>10. ASSUME NEW id \in Ids, OrderBookOf!IsOpen(id)
       PROVE  Listings[id].offer.token # t
  <2>1. Listings[id] = Listing(id) /\ Listing(id).state = "open"
    BY <1>10 DEF OrderBookOf!IsOpen, Listings
  <2>2. ~(id >= idCount)
    BY <2>1 DEF Sees, NewListing
  <2>3. PICK u \in Tokens : OnSale(u) /\ orders[u].id = id
    BY <1>1, <2>1, <2>2 DEF Sees, ClosedListing, Ids
  <2>4. Listings[id].offer.token = u /\ u # t
    <3>1. Listing(id) = Shown(orders[u])
      BY <2>3 DEF Sees
    <3>2. orders[u].token = u
      BY <2>3, OnSaleFacts
    <3> QED BY <1>1, <2>1, <2>3, <3>1, <3>2 DEF Shown
  <2> QED BY <2>4
<1>11. offer \in OrderBookOf!Offer
  BY DEF OrderBookOf!Offer
<1> QED BY <1>8, <1>9, <1>10, <1>11 DEF OrderBookOf!Next, OrderBookOf!List

\* Taking some of the fractions on sale takes them off the listing; taking the
\* last ones closes it.
LEMMA LeftTakes ==
  ASSUME IndInv, Sees, Sees', idCount' \in Nat, NEW t \in Tokens, OnSale(t),
         NEW n \in Amounts, n # 0, n <= orders[t].amount,
         NEW name, Emit(name, Left(orders[t], n)), idCount' = idCount,
         orders' = [orders EXCEPT ![t] = Stored(Left(orders[t], n))]
  PROVE  OrderBookOf!Next
<1>1. /\ orders[t] \in Order /\ orders[t].token = t /\ orders[t].amount \in Nat
      /\ orders[t].id \in Ids /\ n \in Nat
  BY OnSaleFacts, InputTypes DEF Order
<1>2. Recorded(t, Left(orders[t], n), name)
  BY <1>1, LeftRecords
<1>3. PICK o : o = Left(orders[t], n)
  OBVIOUS
<1>4. PICK i \in Ids : i = orders[t].id
  BY <1>1
<1>5. /\ o.id = i /\ o.token = t /\ o.seller = orders[t].seller
      /\ o.amount = orders[t].amount - n
  BY <1>1, <1>3, <1>4 DEF Left, Order
<1>6. /\ \A id \in Ids \ {i} : Listing(id)' = Listing(id)
      /\ Listing(i)' = IF o.amount = 0 THEN ClosedListing ELSE Shown(o)
  BY <1>2, <1>3, <1>5, RecordedListing
<1>7. Listings[i] = Shown(orders[t]) /\ OrderBookOf!IsOpen(i)
  BY <1>4, OnSaleIsOpen
<1>8. CASE o.amount = 0
  <2>1. Listings' = [id \in Ids |-> IF id \in {i} THEN OrderBookOf!Closed ELSE Listings[id]]
    BY <1>6, <1>8 DEF Listings, ClosedListing, OrderBookOf!Closed
  <2>2. OrderBookOf!Close({i})
    BY <2>1, <1>7 DEF OrderBookOf!Close
  <2> QED BY <2>2 DEF OrderBookOf!Next
<1>9. CASE o.amount # 0
  <2>1. Listings' = [Listings EXCEPT ![i] = Shown(o)]
    BY <1>6, <1>9, ListingsExcept
  <2>2. n < Listings[i].offer.amount
    BY <1>1, <1>5, <1>7, <1>9 DEF Shown
  <2>3. Shown(o) = [Listings[i] EXCEPT !.offer.amount = @ - n]
    BY <1>1, <1>5, <1>7 DEF Shown
  <2>4. Listings' = [Listings EXCEPT ![i].offer.amount = @ - n]
    BY <2>1, <2>3
  <2>5. OrderBookOf!Take(i, n)
    BY <2>2, <2>4, <1>7 DEF OrderBookOf!Take
  <2> QED BY <2>5 DEF OrderBookOf!Next
<1> QED BY <1>8, <1>9

\* changePrice leaves token, seller and fractions of the listing as they are.
LEMMA ChangePriceStutters ==
  ASSUME IndInv, Sees, Sees', idCount' \in Nat, NEW caller, NEW t \in Tokens,
         NEW price \in Prices, NEW cur \in Currencies, ChangePrice(caller, t, price, cur)
  PROVE  UNCHANGED Listings
<1> DEFINE order == [orders[t] EXCEPT !.price = price, !.currency = cur]
<1>1. OnSale(t) /\ price # 0 /\ price \in Nat /\ idCount' = idCount
  BY InputTypes DEF ChangePrice
<1>2. /\ orders[t] \in Order /\ orders[t].token = t /\ orders[t].amount > 0
      /\ orders[t].id \in Ids
  BY <1>1, OnSaleFacts
<1>3. /\ order \in Order /\ order.id = orders[t].id /\ order.token = t /\ order.price = price
      /\ order.amount = orders[t].amount /\ order.seller = orders[t].seller
  BY <1>1, <1>2 DEF Order
<1>4. Emit("TokenPriceChanged", order) /\ orders' = [orders EXCEPT ![t] = order]
  BY DEF ChangePrice
<1> HIDE DEF order
<1>5. order.amount # 0 /\ order.price > 0
  BY <1>1, <1>2, <1>3 DEF Order
<1>6. Recorded(t, order, "TokenPriceChanged")
  BY <1>1, <1>2, <1>3, <1>4, <1>5 DEF Recorded, Stored
<1>7. PICK o : o = order
  OBVIOUS
<1>8. PICK i \in Ids : i = orders[t].id
  BY <1>2
<1>9. /\ \A id \in Ids \ {i} : Listing(id)' = Listing(id)
      /\ Listing(i)' = Shown(o)
  BY <1>3, <1>5, <1>6, <1>7, <1>8, RecordedListing
<1>10. Listing(i) = Shown(orders[t])
  BY <1>1, <1>8 DEF Sees
<1>11. Shown(o) = Shown(orders[t])
  BY <1>2, <1>3, <1>7 DEF Shown
<1> QED BY <1>9, <1>10, <1>11, ListingsSame

\* An order an admin ends is a listing that closes.
LEMMA WithdrawnCloses ==
  ASSUME IndInv, Sees, Sees', idCount' \in Nat, NEW t \in Tokens, OnSale(t),
         idCount' = idCount, Emit("TokenRevoke", Withdrawn(orders[t])),
         orders' = [orders EXCEPT ![t] = EmptyOrder]
  PROVE  OrderBookOf!Next
<1>1. Recorded(t, Withdrawn(orders[t]), "TokenRevoke")
  BY WithdrawnRecords
<1>2. PICK o : o = Withdrawn(orders[t])
  OBVIOUS
<1>3. orders[t] \in Order /\ orders[t].id \in Ids
  BY OnSaleFacts
<1>4. PICK i \in Ids : i = orders[t].id
  BY <1>3
<1>5. o.id = i /\ o.amount = 0
  BY <1>2, <1>3, <1>4 DEF Withdrawn, Order
<1>6. /\ \A id \in Ids \ {i} : Listing(id)' = Listing(id)
      /\ Listing(i)' = ClosedListing
  BY <1>1, <1>2, <1>5, RecordedListing
<1>7. OrderBookOf!IsOpen(i)
  BY <1>4, OnSaleIsOpen
<1>8. Listings' = [id \in Ids |-> IF id \in {i} THEN OrderBookOf!Closed ELSE Listings[id]]
  BY <1>6 DEF Listings, ClosedListing, OrderBookOf!Closed
<1>9. OrderBookOf!Close({i})
  BY <1>7, <1>8 DEF OrderBookOf!Close
<1> QED BY <1>9 DEF OrderBookOf!Next

\* A revoked list closes the listings of its tokens together.
LEMMA RevokeListCloses ==
  ASSUME IndInv, Sees, Sees', NEW caller, NEW S \in SUBSET Tokens, RevokeListAdmin(caller, S)
  PROVE  OrderBookOf!Next
<1> DEFINE C == {orders[t].id : t \in S}
<1>1. \A t \in S : t \in Tokens /\ OnSale(t)
  BY DEF RevokeListAdmin
<1>2. C \in SUBSET Ids
  BY <1>1 DEF Sees
<1>3. \A t \in Tokens : orders'[t] = IF t \in S THEN EmptyOrder ELSE orders[t]
  BY DEF RevokeListAdmin
<1>4. idCount' = idCount
  BY DEF RevokeListAdmin
<1>5. \A t \in Tokens : OnSale(t)' <=> OnSale(t) /\ t \notin S
  BY <1>3 DEF OnSale, EmptyOrder
<1>6. \A id \in C : OrderBookOf!IsOpen(id)
  BY <1>1, OnSaleIsOpen
<1>7. ASSUME NEW id \in Ids
      PROVE  Listing(id)' = IF id \in C THEN ClosedListing ELSE Listing(id)
  <2>1. CASE id \in C
    <3>1. PICK t \in S : orders[t].id = id
      BY <2>1
    <3>2. id < idCount' /\ \A u \in Tokens : OnSale(u)' => orders'[u].id # id
      BY <1>1, <1>3, <1>4, <1>5, <3>1 DEF Sees
    <3>3. Listing(id)' = ClosedListing
      BY <3>2 DEF Sees, ClosedListing
    <3> QED BY <2>1, <3>3
  <2>2. CASE id \notin C /\ \E u \in Tokens : OnSale(u) /\ orders[u].id = id
    <3>1. PICK u \in Tokens : OnSale(u) /\ orders[u].id = id
      BY <2>2
    <3>2. u \notin S /\ orders'[u] = orders[u] /\ OnSale(u)'
      BY <2>2, <3>1, <1>3, <1>5
    <3>3. Listing(id) = Shown(orders[u])
      BY <3>1 DEF Sees
    <3>4. Listing(id)' = Shown(orders[u])
      BY <3>1, <3>2 DEF Sees, Shown
    <3> QED BY <2>2, <3>3, <3>4
  <2>3. CASE id \notin C /\ \A u \in Tokens : OnSale(u) => orders[u].id # id
    <3>1. \A u \in Tokens : OnSale(u)' => orders'[u].id # id
      BY <2>3, <1>3, <1>5
    <3>2. CASE id >= idCount
      <4>1. Listing(id) = NewListing
        BY <3>2 DEF Sees
      <4>2. Listing(id)' = NewListing
        BY <3>2, <1>4 DEF Sees, NewListing
      <4> QED BY <2>3, <4>1, <4>2
    <3>3. CASE id < idCount
      <4>1. Listing(id) = ClosedListing
        BY <2>3, <3>3 DEF Sees
      <4>2. Listing(id)' = ClosedListing
        BY <3>1, <3>3, <1>4 DEF Sees, ClosedListing
      <4> QED BY <2>3, <4>1, <4>2
    <3> QED BY <3>2, <3>3 DEF IndInv, TypeOK, Ids
  <2> QED BY <2>1, <2>2, <2>3
<1>8. Listings' = [id \in Ids |-> IF id \in C THEN OrderBookOf!Closed ELSE Listings[id]]
  BY <1>7 DEF Listings, ClosedListing, OrderBookOf!Closed
<1> HIDE DEF C
<1>9. OrderBookOf!Close(C)
  BY <1>6, <1>8 DEF OrderBookOf!Close
<1> QED BY <1>2, <1>9 DEF OrderBookOf!Next

\* The order book as it is: its listings do not change.
LEMMA SameBook ==
  ASSUME UNCHANGED book
  PROVE  UNCHANGED Listings
  BY DEF book, Listings, Listing, OnSale

\* Every step of the contract and around it is one of OrderBook, or none.
LEMMA StepRefines ==
  ASSUME IndInv, Sees, Sees', idCount' \in Nat, [Next]_vars
  PROVE  OrderBookOf!Next \/ UNCHANGED Listings
<1>1. CASE Trade
  <2>1. PICK caller \in Accounts, t \in Tokens :
      \/ \E p \in Prices, cur \in Currencies, n \in Amounts, s \in CrossAddresses :
           Put(caller, t, p, cur, n, s)
      \/ \E p \in Prices, cur \in Currencies : ChangePrice(caller, t, p, cur)
      \/ \E n \in Amounts : Revoke(caller, t, n)
      \/ \E n \in Amounts, b \in CrossAddresses, v \in Sums : Buy(caller, t, n, b, v)
    BY <1>1 DEF Trade
  <2>2. ASSUME NEW n \in Amounts, Revoke(caller, t, n)
        PROVE  OrderBookOf!Next
    BY <2>2, LeftTakes DEF Revoke
  <2>3. ASSUME NEW n \in Amounts, NEW b \in CrossAddresses, NEW v \in Sums,
               Buy(caller, t, n, b, v)
        PROVE  OrderBookOf!Next
    BY <2>3, LeftTakes DEF Buy, MayBuy
  <2> QED BY <2>1, <2>2, <2>3, PutLists, ChangePriceStutters
<1>2. CASE Administer
  <2>1. PICK caller \in Operators :
        \/ \E t \in Tokens : CheckApproved(caller, t) \/ RevokeAdmin(caller, t)
        \/ \E S \in SUBSET Tokens : RevokeListAdmin(caller, S)
        \/ UNCHANGED book
    BY <1>2 DEF Administer, AddAdmin, RemoveAdmin, TransferOwnership, SetMarketFee, AddCurrency,
       RemoveCurrency, SetCurrency, AddToBlacklist, RemoveFromBlacklist, SetBlacklist,
       SetRoyaltyHelpers, Withdraw, Pay
  <2>2. ASSUME NEW t \in Tokens, CheckApproved(caller, t)
        PROVE  OrderBookOf!Next \/ UNCHANGED Listings
    <3>1. CASE t \notin approved \/ tokenOwner[t] # AddressOf(orders[t].seller)
      BY <2>2, <3>1, WithdrawnCloses DEF CheckApproved
    <3>2. CASE t \in approved /\ tokenOwner[t] = AddressOf(orders[t].seller)
      <4>1. UNCHANGED <<orders, idCount>>
        BY <2>2, <3>2 DEF CheckApproved
      <4> QED BY <4>1 DEF Listings, Listing, OnSale
    <3> QED BY <3>1, <3>2
  <2>3. ASSUME NEW t \in Tokens, RevokeAdmin(caller, t)
        PROVE  OrderBookOf!Next
    BY <2>3, WithdrawnCloses DEF RevokeAdmin
  <2> QED BY <2>1, <2>2, <2>3, RevokeListCloses, SameBook
<1>3. CASE Collection \/ UNCHANGED vars
  <2>1. UNCHANGED book
    BY <1>3 DEF Collection, Burn, Approve, Disapprove, Transfer, Receive, Pay,
       ApproveMoney, vars
  <2> QED BY <2>1, SameBook
<1> QED BY <1>1, <1>2, <1>3 DEF Next

\* The contract implements the order book, for any number of tokens, accounts,
\* orders and fractions: no id is reopened or given to a second listing, no
\* token is listed twice, and what is on sale of a listing only goes down.
THEOREM RefinesOrderBook == Spec => ImplementsOrderBook
<1>1. Init => OrderBookOf!Init
  BY DEF Init, OrderBookOf!Init, OrderBookOf!New, Listings, Listing, Ids
<1>2. IndInv /\ Sees /\ Sees' /\ IndInv' /\ [Next]_vars => [OrderBookOf!Next]_Listings
  BY StepRefines DEF IndInv, TypeOK
<1> QED BY <1>1, <1>2, SeesHolds, IndInvHolds, PTL DEF Spec, ImplementsOrderBook, OrderBookOf!Spec
=============================================================================
