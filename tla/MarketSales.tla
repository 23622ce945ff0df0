---------------------------- MODULE MarketSales ----------------------------
(***************************************************************************)
(* Theorems about the purchases of Market, for all its constants: whose    *)
(* token a purchase may move, what it costs whom, what the contract keeps, *)
(* and when an open order can be bought.  Most speak of steps, so the      *)
(* first thing to know is that a step that puts a purchase into the log is *)
(* a call of buy, of that very order.                                      *)
(***************************************************************************)
EXTENDS MarketProofs, FiniteSetTheorems, WellFoundedInduction

\* buy, by anybody, of n fractions for some cross-address.
Bought(t, n) ==
  \E caller \in Accounts, buyer \in CrossAddresses, value \in Sums :
    Buy(caller, t, n, buyer, value)

\* Recording an order leaves the events of all other ids as they were.
LEMMA EmittedId ==
  ASSUME TypeOK, NEW name, NEW o, Emit(name, o), NEW id \in Ids, log'[id] # log[id]
  PROVE  o.id = id /\ log'[id].name = name /\ log'[id].item = o
<1>1. log \in [Ids -> Event] /\ log' = [log EXCEPT ![o.id] = [name |-> name, item |-> o]]
  BY DEF TypeOK, Emit
<1> QED BY <1>1

\* No administrator's call logs a purchase.
LEMMA AdministerSellsNothing ==
  ASSUME IndInv, Administer, NEW id \in Ids, log'[id] # log[id]
  PROVE  log'[id].name # "TokenIsPurchased"
<1>1. TypeOK
  BY DEF IndInv
<1>2. PICK caller \in Operators :
        \/ \E t \in Tokens : CheckApproved(caller, t) \/ RevokeAdmin(caller, t)
        \/ \E S \in SUBSET Tokens : RevokeListAdmin(caller, S)
        \/ UNCHANGED book
  BY DEF Administer, AddAdmin, RemoveAdmin, TransferOwnership, SetMarketFee, AddCurrency,
     RemoveCurrency, SetCurrency, AddToBlacklist, RemoveFromBlacklist, SetBlacklist,
     SetRoyaltyHelpers, Withdraw, Pay
<1>3. ASSUME NEW t \in Tokens, CheckApproved(caller, t)
      PROVE  log'[id].name # "TokenIsPurchased"
  <2>1. \/ Emit("TokenRevoke", Withdrawn(orders[t]))
        \/ Emit("TokenIsApproved", orders[t])
    BY <1>3 DEF CheckApproved
  <2> QED BY <1>1, <2>1, EmittedId
<1>4. ASSUME NEW t \in Tokens, RevokeAdmin(caller, t)
      PROVE  log'[id].name # "TokenIsPurchased"
  BY <1>1, <1>4, EmittedId DEF RevokeAdmin
<1>5. ASSUME NEW S \in SUBSET Tokens, RevokeListAdmin(caller, S)
      PROVE  log'[id].name # "TokenIsPurchased"
  BY <1>5 DEF RevokeListAdmin
<1>6. CASE UNCHANGED book
  BY <1>6 DEF book
<1> QED BY <1>2, <1>3, <1>4, <1>5, <1>6

\* Of what users do with orders only buy logs a purchase, under the id of the
\* order that it takes from.
LEMMA TradeSellsByBuy ==
  ASSUME IndInv, Trade, NEW id \in Ids, log'[id] # log[id],
         log'[id].name = "TokenIsPurchased"
  PROVE  \E u \in Tokens, n \in Amounts : orders[u].id = id /\ Bought(u, n)
<1>1. TypeOK
  BY DEF IndInv
<1>2. PICK caller \in Accounts, u \in Tokens :
        \/ \E p \in Prices, cur \in Currencies, n \in Amounts, s \in CrossAddresses :
             Put(caller, u, p, cur, n, s)
        \/ \E p \in Prices, cur \in Currencies : ChangePrice(caller, u, p, cur)
        \/ \E n \in Amounts : Revoke(caller, u, n)
        \/ \E n \in Amounts, b \in CrossAddresses, v \in Sums : Buy(caller, u, n, b, v)
  BY DEF Trade
<1>3. ASSUME NEW p \in Prices, NEW cur \in Currencies, NEW n \in Amounts,
             NEW s \in CrossAddresses, Put(caller, u, p, cur, n, s)
      PROVE  FALSE
  <2>1. \E o : Emit("TokenIsUpForSale", o)
    BY <1>3 DEF Put
  <2> QED BY <1>1, <2>1, EmittedId
<1>4. ASSUME NEW p \in Prices, NEW cur \in Currencies, ChangePrice(caller, u, p, cur)
      PROVE  FALSE
  <2>1. \E o : Emit("TokenPriceChanged", o)
    BY <1>4 DEF ChangePrice
  <2> QED BY <1>1, <2>1, EmittedId
<1>5. ASSUME NEW n \in Amounts, Revoke(caller, u, n)
      PROVE  FALSE
  <2>1. \E o : Emit("TokenRevoke", o)
    BY <1>5 DEF Revoke
  <2> QED BY <1>1, <2>1, EmittedId
<1>6. ASSUME NEW n \in Amounts, NEW b \in CrossAddresses, NEW v \in Sums,
             Buy(caller, u, n, b, v)
      PROVE  orders[u].id = id /\ Bought(u, n)
  <2>1. Emit("TokenIsPurchased", Left(orders[u], n))
    BY <1>6 DEF Buy
  <2>2. Left(orders[u], n).id = id
    BY <1>1, <2>1, EmittedId
  <2>3. Left(orders[u], n).id = orders[u].id
    BY <1>1 DEF Left, TypeOK, Order
  <2> QED BY <1>6, <2>2, <2>3 DEF Bought
<1> QED BY <1>2, <1>3, <1>4, <1>5, <1>6

\* A purchase in the log is a call of buy: of the order that carries the id, and
\* of as many fractions as the log shows fewer.
LEMMA PurchaseIsBought ==
  ASSUME IndInv, [Next]_vars, NEW t \in Tokens, Purchased(t)
  PROVE  Sold(t) \in Amounts /\ Bought(t, Sold(t))
<1> DEFINE id == orders[t].id
<1>1. id \in Ids /\ OnSale(t) /\ log'[id] # log[id] /\ log'[id].name = "TokenIsPurchased"
  BY OnSaleFacts DEF Purchased
<1>2. Trade
  <2>1. CASE Administer
    BY <1>1, <2>1, AdministerSellsNothing
  <2>2. CASE Collection \/ UNCHANGED vars
    <3>1. UNCHANGED book
      BY <2>2 DEF Collection, Burn, Approve, Disapprove, Transfer, Receive, Pay,
         ApproveMoney, vars
    <3> QED BY <1>1, <3>1 DEF book
  <2> QED BY <2>1, <2>2 DEF Next
<1>3. PICK u \in Tokens, n \in Amounts : orders[u].id = id /\ Bought(u, n)
  BY <1>1, <1>2, TradeSellsByBuy
<1>4. u = t
  <2>1. OnSale(u)
    BY <1>3 DEF Bought, Buy, MayBuy
  <2>2. log[id].item = orders[u] /\ orders[u].token = u
    BY <1>3, <2>1 DEF IndInv, BookInv
  <2>3. log[id].item = orders[t] /\ orders[t].token = t
    BY <1>1 DEF IndInv, BookInv
  <2> QED BY <2>2, <2>3
<1>5. Sold(t) = n
  <2>1. Emit("TokenIsPurchased", Left(orders[t], n)) /\ TypeOK
    BY <1>3, <1>4 DEF Bought, Buy, IndInv
  <2>2. log'[id].item = Left(orders[t], n)
    BY <1>1, <2>1, EmittedId
  <2>3. orders[t] \in Order /\ n \in Nat
    BY <2>1, <1>3, InputTypes DEF TypeOK
  <2>4. Left(orders[t], n).amount = orders[t].amount - n /\ orders[t].amount \in Nat
    BY <2>3 DEF Left, Order
  <2> QED BY <2>2, <2>3, <2>4 DEF Sold
<1> QED BY <1>3, <1>4, <1>5

-----------------------------------------------------------------------------
(* What a call of buy changes of the ledgers.                              *)

\* The arithmetic of a purchase of n fractions of t.
LEMMA BoughtFacts ==
  ASSUME IndInv, NEW t \in Tokens, NEW n \in Amounts, NEW caller \in Accounts,
         NEW buyer \in CrossAddresses, NEW value \in Sums, Buy(caller, t, n, buyer, value)
  PROVE  /\ orders[t].currency \in Currencies /\ TotalValue(orders[t], n) \in Nat
         /\ MarketFeeValue(orders[t], n) \in 0 .. TotalValue(orders[t], n)
         /\ Outlay(orders[t], n) = TotalValue(orders[t], n) - MarketFeeValue(orders[t], n)
         /\ \A a \in Accounts : Receipt(a, orders[t], n) \in Nat
         /\ value \in Nat /\ AddressOf(buyer) \in Accounts
<1>1. TypeOK /\ n \in Nat /\ value \in Nat /\ OnSale(t) /\ Settles(orders[t], n)
      /\ ValidCrossAddress(buyer)
  BY InputTypes DEF IndInv, Buy, MayBuy
<1>2. orders[t].token = t /\ orders[t].currency \in Currencies
  BY <1>1, OnSaleFacts DEF Order
<1> QED BY <1>1, <1>2, PriceIsSplit, AddressOfType

\* What becomes of the contract's account in a purchase with native money.
LEMMA NativeMarket ==
  ASSUME IndInv, NEW caller, NEW value, NEW o, NEW n, PayNative(caller, value, o, n)
  PROVE  balance'[0][Market] = balance[0][Market] + value - Outlay(o, n)
<1>1. 0 \in Currencies /\ Market \in Holders /\ balance \in [Currencies -> [Holders -> Nat]]
  BY LedgerTypes DEF Holders, IndInv, TypeOK
<1> QED BY <1>1 DEF PayNative

\* What becomes of an account in a purchase in a fungible collection.
LEMMA FungibleHolder ==
  ASSUME IndInv, NEW t \in Tokens, NEW n \in Amounts, NEW caller \in Accounts,
         NEW buyer \in CrossAddresses, NEW value \in Sums, Buy(caller, t, n, buyer, value),
         NEW cur, cur = orders[t].currency, cur # 0
  PROVE  /\ \A h \in Holders : balance'[cur][h] =
              IF h = Market THEN balance[cur][h] + MarketFeeValue(orders[t], n)
              ELSE balance[cur][h]
                   - (IF h = AddressOf(buyer)
                      THEN Outlay(orders[t], n) + MarketFeeValue(orders[t], n) ELSE 0)
                   + Receipt(h, orders[t], n)
         /\ allowance'[cur][AddressOf(buyer)] =
              allowance[cur][AddressOf(buyer)]
              - (Outlay(orders[t], n) + MarketFeeValue(orders[t], n))
<1> DEFINE o == orders[t]
           payer == AddressOf(buyer)
           cost == Outlay(o, n) + MarketFeeValue(o, n)
           new == [h \in Holders |->
             IF h = Market THEN balance[cur][h] + MarketFeeValue(o, n)
             ELSE balance[cur][h] - (IF h = payer THEN cost ELSE 0) + Receipt(h, o, n)]
<1>1. cur \in Currencies /\ cur # 0 /\ payer \in Accounts
      /\ balance \in [Currencies -> [Holders -> Nat]]
      /\ allowance \in [Currencies -> [Accounts -> Nat]]
  BY BoughtFacts DEF IndInv, TypeOK
<1>2. PayFungible(caller, value, buyer, o, n)
  BY DEF Buy
<1>3. /\ \E native : balance' = [balance EXCEPT ![0] = native, ![cur] = new]
      /\ allowance' = [allowance EXCEPT ![cur][payer] = @ - cost]
  BY <1>2 DEF PayFungible, Payer
<1>4. allowance'[cur][payer] = allowance[cur][payer] - cost
  BY <1>1, <1>3
<1>5. balance'[cur] = new
  <2> HIDE DEF new
  <2> QED BY <1>1, <1>3
<1> QED BY <1>4, <1>5

-----------------------------------------------------------------------------
(* The theorems.                                                           *)

\* A purchase takes a token from the owner who listed it, with an approval that it
\* uses up, and from no blacklisted collection, whatever happened to the token, the
\* approval and the blacklist since it was listed.
THEOREM OnlyConsentedSales == Spec => SaleIsConsented
<1>1. ASSUME IndInv, [Next]_vars, NEW t \in Tokens, Purchased(t)
      PROVE  Consented(t)
  BY <1>1, PurchaseIsBought DEF Bought, Buy, MayBuy, TransferToken, Consented
<1>2. IndInv /\ [Next]_vars => [\A t \in Tokens : Purchased(t) => Consented(t)]_vars
  BY <1>1
<1> QED BY <1>2, IndInvHolds, PTL DEF Spec, SaleIsConsented

\* No purchase costs the contract anything: it keeps its percentage of the price,
\* rounded down, for all fees, royalties and shares, in every currency.
THEOREM FeeIsKept == Spec => MarketKeepsItsFee
<1>1. ASSUME IndInv, [Next]_vars, NEW t \in Tokens, Purchased(t)
      PROVE  KeepsItsFee(t)
  <2> DEFINE o == orders[t]
             n == Sold(t)
  <2>1. PICK caller \in Accounts, buyer \in CrossAddresses, value \in Sums :
          Buy(caller, t, n, buyer, value)
    BY <1>1, PurchaseIsBought DEF Bought
  <2>2. n \in Amounts
    BY <1>1, PurchaseIsBought
  <2>3. /\ o.currency \in Currencies /\ value \in Nat /\ TotalValue(o, n) \in Nat
        /\ MarketFeeValue(o, n) \in 0 .. TotalValue(o, n)
        /\ Outlay(o, n) = TotalValue(o, n) - MarketFeeValue(o, n)
    BY <1>1, <2>1, <2>2, BoughtFacts
  <2>4. MarketFeeValue(o, n) = (o.price * n * FeeOf(o.currency)) \div 100
    BY DEF MarketFeeValue, TotalValue
  <2>5. balance[o.currency][Market] \in Nat
    BY <1>1, <2>3 DEF IndInv, TypeOK, Holders
  <2> HIDE DEF o, n
  <2>6. CASE o.currency = 0
    <3>1. PayNative(caller, value, o, n)
      BY <2>1, <2>6 DEF Buy, o
    <3>2. balance'[0][Market] = balance[0][Market] + value - Outlay(o, n)
      BY <1>1, <3>1, NativeMarket
    <3>3. value >= TotalValue(o, n)
      BY <3>1 DEF PayNative
    <3>4. balance'[o.currency][Market] - balance[o.currency][Market] >= MarketFeeValue(o, n)
      BY <2>3, <2>5, <2>6, <3>2, <3>3
    <3> QED BY <2>4, <3>4 DEF o, n, KeepsItsFee
  <2>7. CASE o.currency # 0
    <3>1. balance'[o.currency][Market] = balance[o.currency][Market] + MarketFeeValue(o, n)
      BY <1>1, <2>1, <2>2, <2>7, FungibleHolder DEF Holders, o
    <3>2. balance'[o.currency][Market] - balance[o.currency][Market] >= MarketFeeValue(o, n)
      BY <2>3, <2>5, <3>1
    <3> QED BY <2>4, <3>2 DEF o, n, KeepsItsFee
  <2> QED BY <2>6, <2>7
<1>2. IndInv /\ [Next]_vars => [\A t \in Tokens : Purchased(t) => KeepsItsFee(t)]_vars
  BY <1>1
<1> QED BY <1>2, IndInvHolds, PTL DEF Spec, MarketKeepsItsFee

\* In a fungible currency the allowance of the token's new owner falls by the price
\* of what was sold, and every other account has at least what it had.
THEOREM OnlyTheBuyerPays == Spec => BuyerPaysThePrice
<1>1. ASSUME IndInv, [Next]_vars, NEW t \in Tokens, Purchased(t), orders[t].currency # 0
      PROVE  PaidByBuyer(t)
  <2> DEFINE o == orders[t]
             n == Sold(t)
             cur == orders[t].currency
  <2>1. PICK caller \in Accounts, buyer \in CrossAddresses, value \in Sums :
          Buy(caller, t, n, buyer, value)
    BY <1>1, PurchaseIsBought DEF Bought
  <2>2. n \in Amounts
    BY <1>1, PurchaseIsBought
  <2>3. /\ cur \in Currencies /\ TotalValue(o, n) \in Nat /\ AddressOf(buyer) \in Accounts
        /\ MarketFeeValue(o, n) \in 0 .. TotalValue(o, n)
        /\ Outlay(o, n) = TotalValue(o, n) - MarketFeeValue(o, n)
        /\ \A a \in Accounts : Receipt(a, o, n) \in Nat
    BY <1>1, <2>1, <2>2, BoughtFacts
  <2>4. tokenOwner'[t] = AddressOf(buyer)
    BY <1>1, <2>1 DEF Buy, TransferToken, IndInv, TypeOK
  <2>5. /\ balance[cur] \in [Holders -> Nat] /\ allowance[cur][AddressOf(buyer)] \in Nat
        /\ TotalValue(o, n) = orders[t].price * Sold(t)
    BY <1>1, <2>3 DEF IndInv, TypeOK, TotalValue
  <2>6. /\ \A h \in Holders : balance'[cur][h] =
             IF h = Market THEN balance[cur][h] + MarketFeeValue(o, n)
             ELSE balance[cur][h]
                  - (IF h = AddressOf(buyer) THEN Outlay(o, n) + MarketFeeValue(o, n) ELSE 0)
                  + Receipt(h, o, n)
        /\ allowance'[cur][AddressOf(buyer)] =
             allowance[cur][AddressOf(buyer)] - (Outlay(o, n) + MarketFeeValue(o, n))
    BY <1>1, <2>1, <2>2, FungibleHolder
  <2> HIDE DEF o, n, cur
  <2>7. allowance[cur][tokenOwner'[t]] - allowance'[cur][tokenOwner'[t]] = orders[t].price * Sold(t)
    BY <2>3, <2>4, <2>5, <2>6
  <2>8. ASSUME NEW a \in Holders \ {tokenOwner'[t]}
        PROVE  balance'[cur][a] >= balance[cur][a]
    <3>1. CASE a = Market
      BY <2>3, <2>5, <2>6, <3>1
    <3>2. CASE a # Market
      <4>1. Receipt(a, o, n) \in Nat /\ balance[cur][a] \in Nat /\ a # AddressOf(buyer)
        BY <2>3, <2>4, <2>5, <3>2 DEF Holders
      <4> QED BY <2>6, <3>2, <4>1
    <3> QED BY <3>1, <3>2
  <2> QED BY <2>7, <2>8 DEF cur, PaidByBuyer
<1>2. IndInv /\ [Next]_vars =>
        [\A t \in Tokens : Purchased(t) /\ orders[t].currency # 0 => PaidByBuyer(t)]_vars
  BY <1>1
<1> QED BY <1>2, IndInvHolds, PTL DEF Spec, BuyerPaysThePrice

-----------------------------------------------------------------------------
(* Sums over finite sets.  The library's induction theorems take an operator as a      *)
(* parameter; a least counterexample does for them.                                    *)

\* The element that MapThenSumSet takes first, and what it leaves.
Any(s) == CHOOSE x \in s : TRUE
Rest(s) == s \ {Any(s)}

\* f has the sums of F over the subsets of S, as MapThenSumSet takes them.
IsSum(f, F, S) == f = [s \in SUBSET S |-> IF s = {} THEN 0 ELSE F[Any(s)] + f[Rest(s)]]

\* A nonempty set of numbers has a least one.
LEMMA LeastNumber ==
  ASSUME NEW S \in SUBSET Nat, S # {}
  PROVE  \E n \in S : \A m \in S : n <= m
<1>1. PICK n \in S : \A m \in S : ~(<<m, n>> \in OpToRel(<, Nat))
  BY NatLessThanWellFounded, WFMin
<1>2. \A m \in S : ~(m < n)
  BY <1>1 DEF OpToRel
<1> QED BY <1>2

\* Taking an element leaves a subset with one element less.
LEMMA RestIsSmaller ==
  ASSUME NEW S, IsFiniteSet(S), NEW s \in SUBSET S, s # {}
  PROVE  /\ Any(s) \in S /\ Rest(s) \in SUBSET S
         /\ Cardinality(s) \in Nat \ {0} /\ Cardinality(Rest(s)) = Cardinality(s) - 1
<1>1. Any(s) \in s
  BY DEF Any
<1>2. IsFiniteSet(s) /\ Cardinality(s) \in Nat /\ Cardinality(s) # 0
  BY FS_Subset, FS_CardinalityType, FS_EmptySet
<1>3. Cardinality(Rest(s)) = Cardinality(s) - 1
  BY <1>1, <1>2, FS_RemoveElement DEF Rest
<1> QED BY <1>1, <1>2, <1>3 DEF Rest

\* An induction, over the number of elements: of the numbers up to which there is no
\* sum there is a least one.
LEMMA SumExists ==
  ASSUME NEW S, IsFiniteSet(S), NEW F \in [S -> Nat]
  PROVE  \E f : IsSum(f, F, S)
<1> DEFINE Sum(f, s) == IF s = {} THEN 0 ELSE F[Any(s)] + f[Rest(s)]
           Good(f, k) == \A s \in SUBSET S : Cardinality(s) <= k => f[s] = Sum(f, s)
           Bad == {k \in Nat : ~ \E f \in [SUBSET S -> Nat] : Good(f, k)}
<1>1. ASSUME NEW f \in [SUBSET S -> Nat], NEW s \in SUBSET S
      PROVE  Sum(f, s) \in Nat
  BY RestIsSmaller
<1>2. Bad = {}
  <2>1. SUFFICES ASSUME Bad # {} PROVE FALSE
    OBVIOUS
  <2>2. PICK m \in Bad : \A k \in Bad : m <= k
    <3>1. Bad \in SUBSET Nat
      OBVIOUS
    <3> HIDE DEF Bad
    <3> QED BY <2>1, <3>1, LeastNumber
  <2>3. m # 0
    <3> DEFINE zero == [s \in SUBSET S |-> 0]
    <3>1. \A s \in SUBSET S : Cardinality(s) <= 0 => s = {}
      BY RestIsSmaller
    <3>2. zero \in [SUBSET S -> Nat] /\ Good(zero, 0)
      BY <3>1
    <3> HIDE DEF zero, Good
    <3>3. 0 \notin Bad
      BY <3>2
    <3> HIDE DEF Bad
    <3> QED BY <3>3
  <2>4. m - 1 \in Nat /\ m - 1 \notin Bad
    <3>1. m - 1 \in Nat /\ ~(m <= m - 1)
      BY <2>3
    <3> QED BY <2>2, <3>1
  <2>5. PICK f \in [SUBSET S -> Nat] : Good(f, m - 1)
    BY <2>4
  <2> DEFINE g == [s \in SUBSET S |-> Sum(f, s)]
  <2>6. g \in [SUBSET S -> Nat]
    BY <1>1
  <2>7. ASSUME NEW s \in SUBSET S, Cardinality(s) <= m
        PROVE  g[s] = Sum(g, s)
    <3>1. CASE s = {}
      BY <3>1
    <3>2. CASE s # {}
      <4>1. Rest(s) \in SUBSET S /\ Cardinality(Rest(s)) <= m - 1
        BY <2>4, <2>7, <3>2, RestIsSmaller
      <4>2. f[Rest(s)] = Sum(f, Rest(s))
        BY <2>5, <4>1
      <4>3. g[Rest(s)] = f[Rest(s)]
        BY <4>1, <4>2
      <4> QED BY <3>2, <4>3
    <3> QED BY <3>1, <3>2
  <2>8. Good(g, m)
    <3> HIDE DEF g
    <3> QED BY <2>7
  <2> QED BY <2>2, <2>6, <2>8
<1>3. Cardinality(S) \in Nat /\ \A s \in SUBSET S : Cardinality(s) <= Cardinality(S)
  BY FS_CardinalityType, FS_Subset
<1>4. PICK f \in [SUBSET S -> Nat] : Good(f, Cardinality(S))
  <2> HIDE DEF Good
  <2> QED BY <1>2, <1>3
<1>5. \A s \in SUBSET S : f[s] = Sum(f, s)
  BY <1>3, <1>4
<1>6. f = [s \in SUBSET S |-> Sum(f, s)]
  BY <1>5
<1> QED BY <1>6 DEF IsSum

\* The royalties of a purchase are such a sum, and so are the shares of a token.
LEMMA RoyaltySum ==
  ASSUME NEW o, NEW n, IsFiniteSet(Accounts), \A a \in Accounts : RoyaltyTo(a, o, n) \in Nat
  PROVE  \E F, f :
           /\ F = [a \in Accounts |-> RoyaltyTo(a, o, n)] /\ F \in [Accounts -> Nat]
           /\ IsSum(f, F, Accounts) /\ TotalRoyalty(o, n) = f[Accounts]
<1> PICK F : F = [a \in Accounts |-> RoyaltyTo(a, o, n)]
  OBVIOUS
<1> DEFINE it == CHOOSE f : f = [s \in SUBSET Accounts |->
                                   IF s = {} THEN 0 ELSE RoyaltyTo(Any(s), o, n) + f[Rest(s)]]
<1>1. F \in [Accounts -> Nat] /\ IsFiniteSet(Accounts)
  OBVIOUS
<1>2. \A s \in SUBSET Accounts : s # {} => F[Any(s)] = RoyaltyTo(Any(s), o, n)
  BY RestIsSmaller
<1>3. \E f : f = [s \in SUBSET Accounts |-> IF s = {} THEN 0 ELSE RoyaltyTo(Any(s), o, n) + f[Rest(s)]]
  <2>1. PICK f : IsSum(f, F, Accounts)
    BY <1>1, SumExists
  <2>2. f = [s \in SUBSET Accounts |-> IF s = {} THEN 0 ELSE RoyaltyTo(Any(s), o, n) + f[Rest(s)]]
    BY <1>2, <2>1 DEF IsSum
  <2> QED BY <2>2
<1>4. it = [s \in SUBSET Accounts |-> IF s = {} THEN 0 ELSE RoyaltyTo(Any(s), o, n) + it[Rest(s)]]
  BY <1>3
<1>5. TotalRoyalty(o, n) = it[Accounts]
  BY DEF TotalRoyalty, MapThenSumSet, MapThenFoldSet, Any, Rest
<1> HIDE DEF it
<1>6. IsSum(it, F, Accounts)
  BY <1>2, <1>4 DEF IsSum
<1> QED BY <1>1, <1>5, <1>6

\* What a helper has of a token's price for all its recipients, in hundredths.
SharesOf(h, t) == MapThenSumSet(LAMBDA a : Shares[h][t][a], Accounts)

\* The same of the shares.
LEMMA ShareSum ==
  ASSUME NEW h \in Helpers, NEW t \in Tokens, IsFiniteSet(Accounts)
  PROVE  \E g : IsSum(g, Shares[h][t], Accounts) /\ SharesOf(h, t) = g[Accounts]
<1> PICK G : G = Shares[h][t]
  OBVIOUS
<1> DEFINE it == CHOOSE f : f = [s \in SUBSET Accounts |->
                                   IF s = {} THEN 0 ELSE Shares[h][t][Any(s)] + f[Rest(s)]]
<1>1. G \in [Accounts -> Nat] /\ IsFiniteSet(Accounts)
  BY RoyaltyTypes
<1>2. \E f : f = [s \in SUBSET Accounts |-> IF s = {} THEN 0 ELSE Shares[h][t][Any(s)] + f[Rest(s)]]
  <2>1. PICK f : IsSum(f, G, Accounts)
    BY <1>1, SumExists
  <2>2. f = [s \in SUBSET Accounts |-> IF s = {} THEN 0 ELSE Shares[h][t][Any(s)] + f[Rest(s)]]
    BY <2>1 DEF IsSum
  <2> QED BY <2>2
<1>3. it = [s \in SUBSET Accounts |-> IF s = {} THEN 0 ELSE Shares[h][t][Any(s)] + it[Rest(s)]]
  BY <1>2
<1>4. SharesOf(h, t) = it[Accounts]
  BY DEF SharesOf, MapThenSumSet, MapThenFoldSet, Any, Rest
<1> HIDE DEF it
<1>5. IsSum(it, Shares[h][t], Accounts)
  BY <1>3 DEF IsSum
<1> QED BY <1>4, <1>5

\* Rounding each recipient's royalty down, they get no more together than the sum of
\* their shares gives.
LEMMA SumOfShares ==
  ASSUME NEW S, IsFiniteSet(S), NEW base \in Nat, NEW F \in [S -> Nat], NEW G \in [S -> Nat],
         \A a \in S : F[a] = (base * G[a]) \div 100,
         NEW f, NEW g, IsSum(f, F, S), IsSum(g, G, S)
  PROVE  f[S] \in Nat /\ g[S] \in Nat /\ f[S] * 100 <= base * g[S]
<1> DEFINE Holds(s) == f[s] \in Nat /\ g[s] \in Nat /\ f[s] * 100 <= base * g[s]
           Bad == {k \in Nat : \E s \in SUBSET S : Cardinality(s) = k /\ ~Holds(s)}
<1>1. \A s \in SUBSET S : /\ f[s] = IF s = {} THEN 0 ELSE F[Any(s)] + f[Rest(s)]
                          /\ g[s] = IF s = {} THEN 0 ELSE G[Any(s)] + g[Rest(s)]
  BY DEF IsSum
<1>2. Bad = {}
  <2>1. SUFFICES ASSUME Bad # {} PROVE FALSE
    OBVIOUS
  <2>2. PICK m \in Bad : \A k \in Bad : m <= k
    <3>1. Bad \in SUBSET Nat
      OBVIOUS
    <3> HIDE DEF Bad
    <3> QED BY <2>1, <3>1, LeastNumber
  <2>3. PICK s \in SUBSET S : Cardinality(s) = m /\ ~Holds(s)
    BY <2>2
  <2>4. s # {}
    <3>1. base * 0 = 0 /\ 0 * 100 <= 0
      OBVIOUS
    <3>2. ASSUME s = {} PROVE f[s] = 0 /\ g[s] = 0
      BY <1>1, <3>2
    <3> QED BY <2>3, <3>1, <3>2
  <2>5. /\ Any(s) \in S /\ Rest(s) \in SUBSET S /\ m \in Nat
        /\ Cardinality(Rest(s)) = m - 1 /\ m - 1 \in Nat /\ ~(m <= m - 1)
    BY <2>3, <2>4, RestIsSmaller
  <2>6. Holds(Rest(s))
    BY <2>2, <2>5
  <2>7. PICK x : x = Any(s)
    OBVIOUS
  <2>8. F[x] \in Nat /\ G[x] \in Nat /\ F[x] = (base * G[x]) \div 100
    BY <2>5, <2>7
  <2>9. F[x] * 100 <= base * G[x]
    <3>1. base * G[x] \in Nat
      BY <2>8
    <3> QED BY <2>8, <3>1
  <2>10. f[s] = F[x] + f[Rest(s)] /\ g[s] = G[x] + g[Rest(s)]
    BY <1>1, <2>4, <2>7
  <2>11. base * g[s] = base * G[x] + base * g[Rest(s)]
    <3>1. \A a, b \in Nat : base * (a + b) = base * a + base * b
      OBVIOUS
    <3> QED BY <2>6, <2>8, <2>10, <3>1
  <2>12. base * G[x] \in Nat /\ base * g[Rest(s)] \in Nat
    BY <2>6, <2>8
  <2> QED BY <2>3, <2>6, <2>8, <2>9, <2>10, <2>11, <2>12
<1>3. Cardinality(S) \in Nat /\ S \in SUBSET S
  BY FS_CardinalityType
<1>4. Holds(S)
  <2> HIDE DEF Holds
  <2> QED BY <1>2, <1>3
<1> QED BY <1>4

-----------------------------------------------------------------------------
(* What orders and fees may be.                                            *)

SetFees == {fee \in Fees : ValidFee(fee)}

\* An order has a price that somebody asked for, and no more fractions than somebody
\* put up; every fee in force is one that an admin set.
TermsInv ==
  /\ \A t \in Tokens : OnSale(t) =>
       orders[t].price \in Prices /\ \E n \in Amounts : orders[t].amount <= n
  /\ marketFee \in SetFees
  /\ \A cur \in Currencies : availableCurrencies[cur].fee \in SetFees \cup {0}

\* The terms hold before anything is listed.
LEMMA StartsWithTerms == ASSUME Init PROVE TermsInv
  BY DEF Init, TermsInv, OnSale, EmptyOrder, SetFees

\* What TermsInv says of one order.
Termly(o) == o.price > 0 => o.price \in Prices /\ \E n \in Amounts : o.amount <= n

\* Buying or revoking fractions keeps the terms of what remains.
LEMMA StoredIsTermly ==
  ASSUME NEW o \in Order, Termly(o), NEW n \in Nat, n <= o.amount
  PROVE  Termly(Stored(Left(o, n)))
<1>1. Left(o, n) \in Order /\ Left(o, n).price = o.price /\ Left(o, n).amount <= o.amount /\ EmptyOrder.price = 0
  BY DEF Left, Order, EmptyOrder
<1>2. Termly(Left(o, n))
  <2>1. ASSUME o.price > 0 PROVE \E k \in Amounts : Left(o, n).amount <= k
    <3>1. PICK k \in Amounts : o.amount <= k
      BY <2>1 DEF Termly
    <3>2. k \in Nat /\ o.amount \in Nat /\ Left(o, n).amount \in Nat
      BY <1>1, InputTypes DEF Order
    <3> QED BY <1>1, <3>1, <3>2
  <2> QED BY <1>1, <2>1 DEF Termly
<1> QED BY <1>1, <1>2 DEF Stored, Termly

\* No call stores other terms, and an admin's fee passed its check.
LEMMA StepsKeepTerms ==
  ASSUME IndInv, TermsInv, [Next]_vars
  PROVE  TermsInv'
<1>1. orders \in [Tokens -> Order] /\ availableCurrencies \in [Currencies -> Currency]
      /\ Amounts \subseteq Nat /\ EmptyOrder.price = 0
  BY InputTypes DEF IndInv, TypeOK, EmptyOrder
<1>2. \A t \in Tokens : Termly(orders[t])
  BY DEF TermsInv, OnSale, Termly
<1>3. ASSUME \A t \in Tokens : Termly(orders'[t]), UNCHANGED <<marketFee, availableCurrencies>>
      PROVE  TermsInv'
  BY <1>3 DEF TermsInv, OnSale, Termly
<1>4. CASE Trade
  <2> PICK caller \in Accounts, t \in Tokens :
        \/ \E p \in Prices, cur \in Currencies, n \in Amounts, s \in CrossAddresses :
             Put(caller, t, p, cur, n, s)
        \/ \E p \in Prices, cur \in Currencies : ChangePrice(caller, t, p, cur)
        \/ \E n \in Amounts : Revoke(caller, t, n)
        \/ \E n \in Amounts, b \in CrossAddresses, v \in Sums : Buy(caller, t, n, b, v)
    BY <1>4 DEF Trade
  <2>1. UNCHANGED config
    BY DEF Put, ChangePrice, Revoke, Buy
  <2>2. \E o : orders' = [orders EXCEPT ![t] = o] /\ Termly(o)
    <3>1. ASSUME NEW p \in Prices, NEW cur \in Currencies, NEW n \in Amounts,
                 NEW s \in CrossAddresses, Put(caller, t, p, cur, n, s)
          PROVE  \E o : orders' = [orders EXCEPT ![t] = o] /\ Termly(o)
      <4> DEFINE order == [id |-> NewId, token |-> t, amount |-> n, price |-> p,
                           currency |-> cur, seller |-> s]
      <4>1. orders' = [orders EXCEPT ![t] = order] /\ Termly(order)
        BY <1>1, <3>1 DEF Put, Termly
      <4> HIDE DEF order
      <4> QED BY <4>1
    <3>2. ASSUME NEW p \in Prices, NEW cur \in Currencies, ChangePrice(caller, t, p, cur)
          PROVE  \E o : orders' = [orders EXCEPT ![t] = o] /\ Termly(o)
      <4> DEFINE order == [orders[t] EXCEPT !.price = p, !.currency = cur]
      <4>1. order.amount = orders[t].amount /\ order.price = p
        BY <1>1 DEF Order
      <4>2. orders' = [orders EXCEPT ![t] = order] /\ orders[t].price > 0
        BY <3>2 DEF ChangePrice, OnSale
      <4> HIDE DEF order
      <4> QED BY <1>2, <4>1, <4>2 DEF Termly
    <3>3. ASSUME NEW n \in Amounts, Revoke(caller, t, n)
          PROVE  \E o : orders' = [orders EXCEPT ![t] = o] /\ Termly(o)
      <4>1. n \in Nat /\ n <= orders[t].amount /\ orders[t] \in Order /\ Termly(orders[t])
            /\ orders' = [orders EXCEPT ![t] = Stored(Left(orders[t], n))]
        BY <1>1, <1>2, <3>3 DEF Revoke
      <4> QED BY <4>1, StoredIsTermly
    <3>4. ASSUME NEW n \in Amounts, NEW b \in CrossAddresses, NEW v \in Sums,
                 Buy(caller, t, n, b, v)
          PROVE  \E o : orders' = [orders EXCEPT ![t] = o] /\ Termly(o)
      <4>1. n \in Nat /\ n <= orders[t].amount /\ orders[t] \in Order /\ Termly(orders[t])
            /\ orders' = [orders EXCEPT ![t] = Stored(Left(orders[t], n))]
        BY <1>1, <1>2, <3>4 DEF Buy, MayBuy
      <4> QED BY <4>1, StoredIsTermly
    <3> QED BY <3>1, <3>2, <3>3, <3>4
  <2>3. \A u \in Tokens : Termly(orders'[u])
    BY <1>1, <1>2, <2>2
  <2> QED BY <1>3, <2>1, <2>3 DEF config
<1>5. CASE Administer
  <2>1. \/ \E t \in Tokens : orders' = [orders EXCEPT ![t] = EmptyOrder]
        \/ \E S \in SUBSET Tokens :
             orders' = [t \in Tokens |-> IF t \in S THEN EmptyOrder ELSE orders[t]]
        \/ UNCHANGED orders
    BY <1>5 DEF Administer, CheckApproved, RevokeAdmin, RevokeListAdmin, AddAdmin,
       RemoveAdmin, TransferOwnership, SetMarketFee, AddCurrency, RemoveCurrency,
       SetCurrency, AddToBlacklist, RemoveFromBlacklist, SetBlacklist,
       SetRoyaltyHelpers, Withdraw, Pay, book
  <2>2. Termly(EmptyOrder)
    BY <1>1 DEF Termly
  <2>3. \A u \in Tokens : Termly(orders'[u])
    <3>1. \A u \in Tokens : orders'[u] \in {orders[u], EmptyOrder}
      BY <1>1, <2>1
    <3> QED BY <1>2, <2>2, <3>1
  <2>4. marketFee' \in SetFees
    BY <1>5 DEF Administer, CheckApproved, RevokeAdmin, RevokeListAdmin, AddAdmin,
       RemoveAdmin, TransferOwnership, SetMarketFee, AddCurrency, RemoveCurrency,
       SetCurrency, AddToBlacklist, RemoveFromBlacklist, SetBlacklist,
       SetRoyaltyHelpers, Withdraw, Pay, config, TermsInv, SetFees
  <2>5. \/ UNCHANGED availableCurrencies
        \/ \E cur \in Currencies : \E entry :
             availableCurrencies' = [availableCurrencies EXCEPT ![cur] = entry]
             /\ entry.fee \in SetFees \cup {0}
    <3>1. NoCurrency.fee = 0
      BY DEF NoCurrency
    <3>2. \A fee \in Fees : ValidFee(fee) => [isAvailable |-> TRUE, fee |-> fee].fee \in SetFees \cup {0}
      BY DEF SetFees
    <3> QED BY <1>5, <3>1, <3>2 DEF Administer, CheckApproved, RevokeAdmin, RevokeListAdmin, AddAdmin,
       RemoveAdmin, TransferOwnership, SetMarketFee, AddCurrency, RemoveCurrency,
       SetCurrency, AddToBlacklist, RemoveFromBlacklist, SetBlacklist,
       SetRoyaltyHelpers, Withdraw, Pay, config
  <2>6. \A cur \in Currencies : availableCurrencies'[cur].fee \in SetFees \cup {0}
    BY <1>1, <2>5 DEF TermsInv
  <2> QED BY <2>3, <2>4, <2>6 DEF TermsInv, OnSale, Termly
<1>6. CASE Collection \/ UNCHANGED vars
  <2>1. UNCHANGED <<config, book>>
    BY <1>6 DEF Collection, Burn, Approve, Disapprove, Transfer, Receive, Pay,
       ApproveMoney, vars
  <2> QED BY <1>2, <1>3, <2>1 DEF config, book
<1> QED BY <1>4, <1>5, <1>6 DEF Next

-----------------------------------------------------------------------------
(* When open orders can be bought.                                         *)

\* The prices and amounts callers pass are far from the word's end: buy's products do
\* not overflow.
ProductsFit == \A p \in Prices, n \in Amounts : p * n * 100 <= MaxUint256

\* Of what it is paid of, no helper gives all away.
RoyaltiesLeaveSome ==
  IsFiniteSet(Accounts) /\ \A h \in Helpers, t \in Tokens : SharesOf(h, t) < 100

\* What buy's products are for a number of fractions that are on sale.
LEMMA ProductsOfBuy ==
  ASSUME ProductsFit, IndInv, TermsInv, NEW t \in Tokens, OnSale(t),
         NEW n \in 1 .. orders[t].amount, NEW o, o = orders[t], NEW fee, fee = FeeOf(o.currency)
  PROVE  /\ o \in Order /\ o.token = t /\ n \in Nat \ {0} /\ o.price \in Nat \ {0}
         /\ fee \in 0 .. 100
         /\ o.price * n \in Nat /\ o.price * n >= o.price /\ (o.price * n) * fee \in Nat
         /\ o.price * n <= MaxUint256 /\ (o.price * n) * fee <= MaxUint256
<1> PICK p : p = o.price
  OBVIOUS
<1>1. o \in Order /\ o.token = t /\ o.amount \in Nat /\ n \in Nat /\ n > 0 /\ n <= o.amount
      /\ p \in Nat /\ p > 0 /\ p \in Prices
  BY OnSaleFacts DEF Order, TermsInv, OnSale
<1>2. PICK k \in Amounts : o.amount <= k
  BY DEF TermsInv
<1>3. fee \in 0 .. 100
  <2>1. o.currency \in Currencies
    BY <1>1 DEF Order
  <2>2. fee \in SetFees
    BY <2>1, InputTypes DEF TermsInv, FeeOf, SetFees
  <2> QED BY <2>2, InputTypes DEF SetFees, ValidFee
<1>4. k \in Nat /\ n <= k /\ p * k * 100 <= MaxUint256 /\ MaxUint256 \in Nat
  BY <1>1, <1>2, InputTypes DEF ProductsFit
<1>5. PICK T : T = p * n
  OBVIOUS
<1>6. T \in Nat /\ T >= p /\ T * 100 <= MaxUint256
  <2>1. p * n <= p * k /\ p * n \in Nat /\ p * k \in Nat /\ p * n >= p
    BY <1>1, <1>4
  <2> QED BY <1>4, <1>5, <2>1
<1>7. T * fee \in Nat /\ T * fee <= T * 100
  BY <1>3, <1>6
<1>8. T <= MaxUint256 /\ T * fee <= MaxUint256
  BY <1>4, <1>6, <1>7
<1> QED BY <1>1, <1>3, <1>5, <1>6, <1>7, <1>8

\* All recipients together get less than the base, or nothing of nothing.
LEMMA RoyaltiesStayBelow ==
  ASSUME RoyaltiesLeaveSome, IndInv, NEW t \in Tokens, NEW o \in Order, o.token = t,
         NEW n \in Nat, NEW base \in Nat, base = RoyaltyBase(o, n)
  PROVE  TotalRoyalty(o, n) \in Nat /\ (TotalRoyalty(o, n) < base \/ TotalRoyalty(o, n) = 0)
<1> PICK h : h = royaltyHelpers
  OBVIOUS
<1>1. h \in Helpers /\ Shares[h][t] \in [Accounts -> Nat] /\ IsFiniteSet(Accounts)
  BY RoyaltyTypes DEF IndInv, TypeOK, RoyaltiesLeaveSome
<1>2. \A a \in Accounts : RoyaltyTo(a, o, n) = (base * Shares[h][t][a]) \div 100
  BY DEF RoyaltyTo
<1>3. \A a \in Accounts : RoyaltyTo(a, o, n) \in Nat
  BY <1>1, <1>2, ShareType
<1>4. PICK F, f : /\ F = [a \in Accounts |-> RoyaltyTo(a, o, n)] /\ F \in [Accounts -> Nat]
                  /\ IsSum(f, F, Accounts) /\ TotalRoyalty(o, n) = f[Accounts]
  BY <1>1, <1>3, RoyaltySum
<1>5. PICK g : IsSum(g, Shares[h][t], Accounts) /\ SharesOf(h, t) = g[Accounts]
  BY <1>1, ShareSum
<1>6. PICK G : G = Shares[h][t]
  OBVIOUS
<1>7. \A a \in Accounts : F[a] = (base * G[a]) \div 100
  BY <1>2, <1>4, <1>6
<1>8. f[Accounts] \in Nat /\ g[Accounts] \in Nat /\ f[Accounts] * 100 <= base * g[Accounts]
  BY <1>1, <1>4, <1>5, <1>6, <1>7, SumOfShares
<1>9. g[Accounts] <= 99
  BY <1>1, <1>5, <1>8 DEF RoyaltiesLeaveSome
<1>10. base * g[Accounts] <= base * 99 /\ base * g[Accounts] \in Nat
  BY <1>8, <1>9
<1> QED BY <1>4, <1>8, <1>10

\* buy's arithmetic, for n fractions of what is on sale.
LEMMA SettlesOrBarred ==
  ASSUME ProductsFit, RoyaltiesLeaveSome, IndInv, TermsInv, NEW t \in Tokens, OnSale(t),
         NEW n \in 1 .. orders[t].amount
  PROVE  Settles(orders[t], n) <=> ~FeeBars(orders[t], n)
<1> PICK o : o = orders[t]
  OBVIOUS
<1> PICK p : p = o.price
  OBVIOUS
<1> PICK fee : fee = FeeOf(o.currency)
  OBVIOUS
<1> PICK T : T = p * n
  OBVIOUS
<1>1. /\ o \in Order /\ o.token = t /\ n \in Nat \ {0} /\ p \in Nat \ {0} /\ fee \in 0 .. 100
      /\ T \in Nat /\ T >= p /\ T * fee \in Nat /\ T <= MaxUint256 /\ T * fee <= MaxUint256
  BY ProductsOfBuy
<1> PICK kept : kept = (T * fee) \div 100
  OBVIOUS
<1>2. TotalValue(o, n) = T /\ MarketFeeValue(o, n) = kept /\ RoyaltyBase(o, n) = p - kept
  BY DEF TotalValue, MarketFeeValue, RoyaltyBase
<1>3. kept \in Nat /\ (p - kept >= 0 <=> T * fee < 100 * p + 100)
  BY <1>1
<1>4. FeeBars(o, n) <=> fee = 100 \/ T * fee >= 100 * p + 100
  <2>1. p * (n * fee - 100) = T * fee - 100 * p
    BY <1>1
  <2>2. FeeBars(o, n) <=> fee = 100 \/ p * (n * fee - 100) >= 100
    BY DEF FeeBars
  <2> QED BY <1>1, <2>1, <2>2
<1>5. Settles(o, n) <=> p - kept >= 0 /\ TotalRoyalty(o, n) \in 0 .. T - kept - 1
  BY <1>1, <1>2 DEF Settles
<1>6. CASE fee = 100
  <2>1. kept = T
    BY <1>1, <1>6
  <2> QED BY <1>1, <1>4, <1>5, <1>6, <2>1
<1>7. CASE fee # 100 /\ p - kept >= 0
  <2>1. p - kept \in Nat
    BY <1>1, <1>3, <1>7
  <2>2. PICK r : r = TotalRoyalty(o, n) /\ r \in Nat /\ (r < p - kept \/ r = 0)
    BY <1>1, <1>2, <2>1, RoyaltiesStayBelow
  <2>3. T * fee <= T * 99
    BY <1>1, <1>7
  <2>4. kept < T
    BY <1>1, <2>3
  <2>5. r \in 0 .. T - kept - 1
    BY <1>1, <1>3, <2>2, <2>4
  <2> QED BY <1>1, <1>3, <1>4, <1>5, <1>7, <2>2, <2>5
<1>8. CASE fee # 100 /\ ~(p - kept >= 0)
  BY <1>1, <1>3, <1>4, <1>5, <1>8
<1> QED BY <1>6, <1>7, <1>8

\* Whatever fees, helpers, royalties and currencies are switched under open orders, and
\* whatever the percentages: a number of fractions that is on sale can be bought exactly
\* if the fee in force does not take the whole price, or of all of them more than the
\* price of one.
THEOREM OrdersSellUnlessTheFeeBars ==
  ASSUME ProductsFit, RoyaltiesLeaveSome
  PROVE  Spec => []SellsUnlessTheFeeBars
<1>1. Init => TermsInv
  BY StartsWithTerms
<1>2. IndInv /\ TermsInv /\ [Next]_vars => TermsInv'
  BY StepsKeepTerms
<1>3. IndInv /\ TermsInv => SellsUnlessTheFeeBars
  BY SettlesOrBarred DEF SellsUnlessTheFeeBars
<1> QED BY <1>1, <1>2, <1>3, IndInvHolds, PTL DEF Spec
=============================================================================
