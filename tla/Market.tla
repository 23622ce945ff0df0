------------------------------- MODULE Market -------------------------------
(***************************************************************************)
(* The marketplace contract, packages/contracts/src/Market.sol: every      *)
(* state-changing external function is an action.  A transaction runs      *)
(* alone and either takes effect as a whole or reverts, so a function that *)
(* reverts is an action that is not enabled.                               *)
(*                                                                         *)
(* The chain around it (the NFT collections and the fungible collections   *)
(* reached through their precompiles) is external and modelled from how    *)
(* the contract uses it: who owns a token, whether the contract is         *)
(* approved for it, balances and allowances.                               *)
(***************************************************************************)
EXTENDS Integers, FiniteSets, FiniteSetsExt

CONSTANTS
  Accounts,        \* Ethereum addresses: users, and mirrors of Substrate ones
  Market,          \* address(this)
  Zero,            \* address(0), the zero public key and "no token"
  CrossAddresses,  \* the CrossAddress arguments callers pass
  Deployer,        \* the sender of initialize
  Operators,       \* the accounts that send, and are named in, admin calls
  Tokens,          \* the (collection, token) pairs
  CollectionOf,    \* the collection of each token
  InitialOwner,    \* the owner of each token at the start
  Currencies,      \* fungible collection ids; 0 is the native token
  InitialBalance,  \* the accounts' balances at the start, per currency
  Helpers,         \* royalty helper contracts
  Shares,          \* Shares[h][t][a]: percent of the base h gives a for t
  Prices, Amounts, Fees, Sums, \* prices, fractions, percents, money passed in
  MaxUint32,       \* the largest uint32
  MaxUint256       \* the largest uint256

NoAddress == [eth |-> Zero, sub |-> Zero]
Holders == Accounts \cup {Market}
Collections == {CollectionOf[t] : t \in Tokens}
Ids == 1 .. MaxUint32 - 1

ASSUME NamesDiffer == Zero \notin Holders \cup Tokens /\ Market \notin Accounts
ASSUME AddressTypes ==
  /\ CrossAddresses \subseteq [eth : Accounts \cup {Zero}, sub : Accounts \cup {Zero}]
  /\ Deployer \in Accounts /\ Operators \subseteq Accounts
ASSUME LedgerTypes ==
  /\ InitialOwner \in [Tokens -> Accounts]
  /\ Currencies \subseteq Nat /\ 0 \in Currencies
  /\ InitialBalance \in [Currencies -> [Accounts -> Nat]]
ASSUME RoyaltyTypes == Shares \in [Helpers -> [Tokens -> [Accounts -> Nat]]]
ASSUME InputTypes ==
  /\ Prices \subseteq Nat /\ Amounts \subseteq Nat
  /\ Fees \subseteq Nat /\ Sums \subseteq Nat
  /\ MaxUint32 \in Nat \ {0} /\ MaxUint256 \in Nat

VARIABLES
  owner, admins, marketFee, availableCurrencies, blacklist, royaltyHelpers,
  orders,        \* orders[t]: a zeroed record when t is not on sale
  idCount,
  log,           \* log[id]: the last event the contract emitted of order id
  tokenOwner, approved,   \* external: ownerOf; tokens approved to the contract
  balance, allowance      \* external: the ledgers, allowances to the contract

config == <<owner, admins, marketFee, availableCurrencies, blacklist, royaltyHelpers>>
book == <<orders, idCount, log>>
nfts == <<tokenOwner, approved>>
money == <<balance, allowance>>
vars == <<config, book, nfts, money>>

Order == [id : Nat, token : Tokens \cup {Zero}, amount : Nat, price : Nat,
          currency : Currencies, seller : CrossAddresses \cup {NoAddress}]
EmptyOrder == [id |-> 0, token |-> Zero, amount |-> 0, price |-> 0,
               currency |-> 0, seller |-> NoAddress]
Currency == [isAvailable : BOOLEAN, fee : 0 .. 100]
NoCurrency == [isAvailable |-> FALSE, fee |-> 0]
EventNames == {"None", "TokenIsUpForSale", "TokenPriceChanged", "TokenRevoke",
               "TokenIsApproved", "TokenIsPurchased"}
Event == [name : EventNames, item : Order]

-----------------------------------------------------------------------------
(* Addresses, modifiers and guards.                                        *)

\* A Substrate account stands for its Ethereum mirror, sub >> 96.
AddressOf(c) == IF c.eth # Zero THEN c.eth ELSE c.sub

ValidCrossAddress(c) == (c.eth = Zero) # (c.sub = Zero)

OnlyAdmin(caller) == caller = owner \/ caller \in admins

OnSale(t) == orders[t].price > 0

\* ownerOf reverts for a burnt token, whose owner is Zero here.
ValidOwner(caller, t, seller) ==
  tokenOwner[t] = AddressOf(seller) /\ AddressOf(seller) = caller

\* The contract moves a token it is approved for out of its owner's account.
TransferToken(t, seller, buyer) ==
  /\ t \in approved /\ tokenOwner[t] = AddressOf(seller)
  /\ tokenOwner' = [tokenOwner EXCEPT ![t] = AddressOf(buyer)]
  /\ approved' = approved \ {t}

-----------------------------------------------------------------------------
(* The order book.                                                         *)

\* The mutant counts too late and hands an id out again.
MutNewId == IF idCount = 1 THEN 1 ELSE idCount - 1
NewId == idCount

Left(o, n) == [o EXCEPT !.amount = o.amount - n]

\* The mutant keeps an order whose last fraction is gone.
MutStored(o) == o
Stored(o) == IF o.amount = 0 THEN EmptyOrder ELSE o

\* What checkApproved and revokeAdmin emit: the order with nothing left.
MutWithdrawn(o) == o
Withdrawn(o) == [o EXCEPT !.amount = 0]

Emit(name, o) == log' = [log EXCEPT ![o.id] = [name |-> name, item |-> o]]

Put(caller, t, price, cur, amount, seller) ==
  LET order == [id |-> NewId, token |-> t, amount |-> amount, price |-> price,
                currency |-> cur, seller |-> seller]
  IN /\ ValidCrossAddress(seller) /\ ValidOwner(caller, t, seller)
     /\ price # 0 /\ availableCurrencies[cur].isAvailable /\ amount # 0
     /\ CollectionOf[t] \notin blacklist
     /\ ~OnSale(t)
     /\ t \in approved
     /\ idCount < MaxUint32
     /\ idCount' = idCount + 1
     /\ orders' = [orders EXCEPT ![t] = order]
     /\ Emit("TokenIsUpForSale", order)
     /\ UNCHANGED <<config, nfts, money>>

\* Neither the blacklist nor the approval is looked at again.
ChangePrice(caller, t, price, cur) ==
  LET order == [orders[t] EXCEPT !.price = price, !.currency = cur]
  IN /\ price # 0 /\ OnSale(t) /\ availableCurrencies[cur].isAvailable
     /\ ValidOwner(caller, t, orders[t].seller)
     /\ orders' = [orders EXCEPT ![t] = order]
     /\ Emit("TokenPriceChanged", order)
     /\ UNCHANGED <<config, idCount, nfts, money>>

Revoke(caller, t, amount) ==
  LET order == Left(orders[t], amount)
  IN /\ amount # 0 /\ OnSale(t) /\ amount <= orders[t].amount
     /\ ValidOwner(caller, t, orders[t].seller)
     /\ orders' = [orders EXCEPT ![t] = Stored(order)]
     /\ Emit("TokenRevoke", order)
     /\ UNCHANGED <<config, idCount, nfts, money>>

-----------------------------------------------------------------------------
(* Buying.                                                                 *)

FeeOf(cur) ==
  IF availableCurrencies[cur].fee # 0 THEN availableCurrencies[cur].fee ELSE marketFee

TotalValue(o, n) == o.price * n
MarketFeeValue(o, n) == (TotalValue(o, n) * FeeOf(o.currency)) \div 100

\* The base is the price less the fee, whatever amount is bought.
MutRoyaltyBase(o, n) == o.price
RoyaltyBase(o, n) == o.price - MarketFeeValue(o, n)

RoyaltyTo(a, o, n) == (RoyaltyBase(o, n) * Shares[royaltyHelpers][o.token][a]) \div 100
TotalRoyalty(o, n) == MapThenSumSet(LAMBDA a : RoyaltyTo(a, o, n), Accounts)

\* The mutant also gives the seller the market's fee.
MutProceeds(o, n) == TotalValue(o, n) - TotalRoyalty(o, n)
Proceeds(o, n) == TotalValue(o, n) - MarketFeeValue(o, n) - TotalRoyalty(o, n)

\* The checked arithmetic of buy does not revert, and neither does the test
\* of the royalties.  RoyaltyBase is unsigned.
Settles(o, n) ==
  /\ TotalValue(o, n) <= MaxUint256 /\ TotalValue(o, n) * FeeOf(o.currency) <= MaxUint256
  /\ RoyaltyBase(o, n) >= 0
  /\ TotalRoyalty(o, n) \in 0 .. TotalValue(o, n) - MarketFeeValue(o, n) - 1

\* What the contract sends to an account: royalties, and proceeds to the seller.
Receipt(a, o, n) ==
  RoyaltyTo(a, o, n) + (IF a = AddressOf(o.seller) THEN Proceeds(o, n) ELSE 0)
Outlay(o, n) == TotalRoyalty(o, n) + Proceeds(o, n)

\* The native token: the caller's value goes to the contract, which pays the
\* royalties and the seller from it and keeps whatever is left.
PayNative(caller, value, o, n) ==
  /\ value >= TotalValue(o, n)
  /\ balance[0][caller] >= value
  /\ balance[0][Market] + value >= Outlay(o, n)
  /\ balance' = [balance EXCEPT ![0] = [h \in Holders |->
       IF h = Market THEN balance[0][h] + value - Outlay(o, n)
       ELSE balance[0][h] - (IF h = caller THEN value ELSE 0) + Receipt(h, o, n)]]
  /\ UNCHANGED allowance

\* The mutant charges the caller in every currency.
MutPayer(caller, buyer) == caller
Payer(caller, buyer) == AddressOf(buyer)

\* A fungible collection: everything, the fee too, is taken out of the buyer's
\* account by the contract's allowance.  Value sent along stays with the contract.
PayFungible(caller, value, buyer, o, n) ==
  LET cur == o.currency
      payer == Payer(caller, buyer)
      cost == Outlay(o, n) + MarketFeeValue(o, n)
  IN /\ balance[0][caller] >= value
     /\ balance[cur][payer] >= cost /\ allowance[cur][payer] >= cost
     /\ balance' = [balance EXCEPT
          ![0] = [balance[0] EXCEPT ![caller] = @ - value, ![Market] = @ + value],
          ![cur] = [h \in Holders |->
             IF h = Market THEN balance[cur][h] + MarketFeeValue(o, n)
             ELSE balance[cur][h] - (IF h = payer THEN cost ELSE 0) + Receipt(h, o, n)]]
     /\ allowance' = [allowance EXCEPT ![cur][payer] = @ - cost]

MutMayBuy(t, n) ==
  /\ n # 0 /\ OnSale(t) /\ n <= orders[t].amount
  /\ availableCurrencies[orders[t].currency].isAvailable
MayBuy(t, n) ==
  /\ n # 0 /\ CollectionOf[t] \notin blacklist /\ OnSale(t) /\ n <= orders[t].amount
  /\ availableCurrencies[orders[t].currency].isAvailable

\* The caller pays a price in the native token, the buyer any other.
Buy(caller, t, amount, buyer, value) ==
  LET o == orders[t]
      order == Left(o, amount)
  IN /\ ValidCrossAddress(buyer) /\ MayBuy(t, amount) /\ Settles(o, amount)
     /\ orders' = [orders EXCEPT ![t] = Stored(order)]
     /\ TransferToken(t, o.seller, buyer)
     /\ IF o.currency = 0
        THEN PayNative(caller, value, o, amount)
        ELSE PayFungible(caller, value, buyer, o, amount)
     /\ Emit("TokenIsPurchased", order)
     /\ UNCHANGED <<config, idCount>>

-----------------------------------------------------------------------------
(* Administration.                                                         *)

\* A burnt token has no ownerOf or getApproved to ask: the call reverts.
CheckApproved(caller, t) ==
  /\ OnlyAdmin(caller) /\ OnSale(t) /\ tokenOwner[t] # Zero
  /\ IF t \notin approved \/ tokenOwner[t] # AddressOf(orders[t].seller)
     THEN /\ orders' = [orders EXCEPT ![t] = EmptyOrder]
          /\ Emit("TokenRevoke", Withdrawn(orders[t]))
     ELSE /\ Emit("TokenIsApproved", orders[t])
          /\ UNCHANGED orders
  /\ UNCHANGED <<config, idCount, nfts, money>>

RevokeAdmin(caller, t) ==
  /\ OnlyAdmin(caller) /\ OnSale(t)
  /\ orders' = [orders EXCEPT ![t] = EmptyOrder]
  /\ Emit("TokenRevoke", Withdrawn(orders[t]))
  /\ UNCHANGED <<config, idCount, nfts, money>>

\* One token of the list that is not on sale, or is named twice, reverts all.
RevokeListAdmin(caller, S) ==
  /\ OnlyAdmin(caller)
  /\ Cardinality({CollectionOf[t] : t \in S}) = 1 /\ \A t \in S : OnSale(t)
  /\ orders' = [t \in Tokens |-> IF t \in S THEN EmptyOrder ELSE orders[t]]
  /\ log' = [id \in Ids |->
       IF \E t \in S : orders[t].id = id
       THEN [name |-> "TokenRevoke",
             item |-> Withdrawn(orders[CHOOSE t \in S : orders[t].id = id])]
       ELSE log[id]]
  /\ UNCHANGED <<config, idCount, nfts, money>>

AddAdmin(caller, a) ==
  /\ OnlyAdmin(caller) /\ admins' = admins \cup {a}
  /\ UNCHANGED <<owner, marketFee, availableCurrencies, blacklist, royaltyHelpers,
                 book, nfts, money>>

RemoveAdmin(caller, a) ==
  /\ OnlyAdmin(caller) /\ admins' = admins \ {a}
  /\ UNCHANGED <<owner, marketFee, availableCurrencies, blacklist, royaltyHelpers,
                 book, nfts, money>>

\* The mutant accepts any percentage.
MutValidFee(fee) == TRUE
ValidFee(fee) == fee <= 100

SetMarketFee(caller, fee) ==
  /\ OnlyAdmin(caller) /\ ValidFee(fee) /\ marketFee' = fee
  /\ UNCHANGED <<owner, admins, availableCurrencies, blacklist, royaltyHelpers,
                 book, nfts, money>>

SetCurrency(caller, cur, entry) ==
  /\ OnlyAdmin(caller)
  /\ availableCurrencies' = [availableCurrencies EXCEPT ![cur] = entry]
  /\ UNCHANGED <<owner, admins, marketFee, blacklist, royaltyHelpers, book, nfts, money>>

AddCurrency(caller, cur, fee) ==
  ValidFee(fee) /\ SetCurrency(caller, cur, [isAvailable |-> TRUE, fee |-> fee])

RemoveCurrency(caller, cur) == SetCurrency(caller, cur, NoCurrency)

SetBlacklist(caller, bl) ==
  /\ OnlyAdmin(caller) /\ blacklist' = bl
  /\ UNCHANGED <<owner, admins, marketFee, availableCurrencies, royaltyHelpers,
                 book, nfts, money>>

AddToBlacklist(caller, c) == SetBlacklist(caller, blacklist \cup {c})
RemoveFromBlacklist(caller, c) == SetBlacklist(caller, blacklist \ {c})

SetRoyaltyHelpers(caller, h) ==
  /\ OnlyAdmin(caller) /\ royaltyHelpers' = h
  /\ UNCHANGED <<owner, admins, marketFee, availableCurrencies, blacklist,
                 book, nfts, money>>

\* transferOwnership of OwnableUpgradeable.
TransferOwnership(caller, a) ==
  /\ caller = owner /\ owner' = a
  /\ UNCHANGED <<admins, marketFee, availableCurrencies, blacklist, royaltyHelpers,
                 book, nfts, money>>

Pay(cur, from, to, n) ==
  /\ balance[cur][from] >= n /\ from # to
  /\ balance' = [balance EXCEPT ![cur] = [balance[cur] EXCEPT ![from] = @ - n, ![to] = @ + n]]
  /\ UNCHANGED <<config, book, nfts, allowance>>

Withdraw(caller, to, cur, n) == caller = owner /\ Pay(cur, Market, AddressOf(to), n)

\* Plain native transfers to the contract, for self-sponsoring.
Receive(caller, n) == Pay(0, caller, Market, n)

-----------------------------------------------------------------------------
(* What users do on the collections themselves.  A transfer, a burn and a  *)
(* new approval drop the approval given to the contract.                   *)

Transfer(t, a) ==
  /\ tokenOwner[t] \notin {Zero, a}
  /\ tokenOwner' = [tokenOwner EXCEPT ![t] = a]
  /\ approved' = approved \ {t}
  /\ UNCHANGED <<config, book, money>>

Burn(t) ==
  /\ tokenOwner[t] # Zero
  /\ tokenOwner' = [tokenOwner EXCEPT ![t] = Zero]
  /\ approved' = approved \ {t}
  /\ UNCHANGED <<config, book, money>>

Approve(t) ==
  /\ tokenOwner[t] # Zero
  /\ approved' = approved \cup {t}
  /\ UNCHANGED <<config, book, money, tokenOwner>>

Disapprove(t) ==
  /\ tokenOwner[t] # Zero
  /\ approved' = approved \ {t}
  /\ UNCHANGED <<config, book, money, tokenOwner>>

ApproveMoney(a, cur, n) ==
  /\ cur # 0
  /\ allowance' = [allowance EXCEPT ![cur][a] = n]
  /\ UNCHANGED <<config, book, nfts, balance>>

-----------------------------------------------------------------------------
(* initialize, and everything that can happen after it.                    *)

Init ==
  /\ owner = Deployer /\ admins = {} /\ blacklist = {}
  /\ marketFee \in {f \in Fees : ValidFee(f)}
  /\ availableCurrencies =
       [c \in Currencies |-> [isAvailable |-> c = 0, fee |-> 0]]
  /\ royaltyHelpers \in Helpers
  /\ orders = [t \in Tokens |-> EmptyOrder]
  /\ idCount = 1
  /\ log = [id \in Ids |-> [name |-> "None", item |-> EmptyOrder]]
  /\ tokenOwner = InitialOwner /\ approved = {}
  /\ balance = [c \in Currencies |->
       [h \in Holders |-> IF h = Market THEN 0 ELSE InitialBalance[c][h]]]
  /\ allowance = [c \in Currencies |-> [a \in Accounts |-> 0]]

Trade ==
  \E caller \in Accounts, t \in Tokens :
    \/ \E p \in Prices, cur \in Currencies, n \in Amounts, s \in CrossAddresses :
         Put(caller, t, p, cur, n, s)
    \/ \E p \in Prices, cur \in Currencies : ChangePrice(caller, t, p, cur)
    \/ \E n \in Amounts : Revoke(caller, t, n)
    \/ \E n \in Amounts, b \in CrossAddresses, v \in Sums : Buy(caller, t, n, b, v)

Administer ==
  \E caller \in Operators :
    \/ \E t \in Tokens : CheckApproved(caller, t) \/ RevokeAdmin(caller, t)
    \/ \E S \in SUBSET Tokens : RevokeListAdmin(caller, S)
    \/ \E a \in Operators :
         AddAdmin(caller, a) \/ RemoveAdmin(caller, a) \/ TransferOwnership(caller, a)
    \/ \E f \in Fees : SetMarketFee(caller, f)
    \/ \E cur \in Currencies, f \in Fees : AddCurrency(caller, cur, f)
    \/ \E cur \in Currencies : RemoveCurrency(caller, cur)
    \/ \E c \in Collections : AddToBlacklist(caller, c) \/ RemoveFromBlacklist(caller, c)
    \/ \E h \in Helpers : SetRoyaltyHelpers(caller, h)
    \/ \E to \in CrossAddresses, cur \in Currencies, n \in Sums :
         ValidCrossAddress(to) /\ Withdraw(caller, to, cur, n)

Collection ==
  \/ \E t \in Tokens : Burn(t) \/ Approve(t) \/ Disapprove(t)
  \/ \E t \in Tokens, a \in Accounts : Transfer(t, a)
  \/ \E a \in Accounts, n \in Sums : Receive(a, n)
  \/ \E a \in Accounts, cur \in Currencies, n \in Sums : ApproveMoney(a, cur, n)

Next == Trade \/ Administer \/ Collection

Spec == Init /\ [][Next]_vars

-----------------------------------------------------------------------------
(* Properties.                                                             *)

\* Every variable holds a value of its type; fees are percentages.
TypeOK ==
  /\ owner \in Accounts /\ admins \subseteq Accounts
  /\ marketFee \in 0 .. 100
  /\ availableCurrencies \in [Currencies -> Currency]
  /\ blacklist \subseteq Collections /\ royaltyHelpers \in Helpers
  /\ orders \in [Tokens -> Order] /\ idCount \in 1 .. MaxUint32
  /\ log \in [Ids -> Event]
  /\ tokenOwner \in [Tokens -> Accounts \cup {Zero}] /\ approved \subseteq Tokens
  /\ balance \in [Currencies -> [Holders -> Nat]]
  /\ allowance \in [Currencies -> [Accounts -> Nat]]

\* What the service mirrors is right: for every order id ever handed out, the
\* last event the contract emitted shows the order as it stands (price,
\* currency, fractions left), and shows none left exactly when the id is not
\* on sale any more.
EventsTellTheOrderBook ==
  \A id \in Ids :
    LET item == log[id].item
    IN IF item.amount > 0
       THEN item.id = id /\ orders[item.token] = item
       ELSE \A t \in Tokens : orders[t].id # id

\* The inductive form of the two invariants around it.  What is on sale is what
\* the log says last of its id, and what the log says is on sale is on sale.
BookInv ==
  /\ \A t \in Tokens :
       IF OnSale(t)
       THEN /\ orders[t].token = t /\ orders[t].amount > 0
            /\ orders[t].id \in 1 .. idCount - 1
            /\ log[orders[t].id].item = orders[t]
       ELSE orders[t] = EmptyOrder
  /\ \A id \in Ids : id >= idCount => log[id].item.amount = 0
  /\ \A id \in Ids : log[id].item.amount > 0 =>
       /\ log[id].item.id = id
       /\ log[id].item.token \in Tokens /\ orders[log[id].item.token] = log[id].item

\* An id names one order: two tokens on sale have different ids, all handed out.
OrdersHaveDistinctIds ==
  \A t, u \in Tokens :
    OnSale(t) => /\ orders[t].id \in 1 .. idCount - 1
                 /\ orders[t].id = orders[u].id => t = u

Purchased(t) ==
  LET id == orders[t].id
  IN OnSale(t) /\ log'[id] # log[id] /\ log'[id].name = "TokenIsPurchased"

Sold(t) == orders[t].amount - log'[orders[t].id].item.amount

KeepsItsFee(t) ==
  LET cur == orders[t].currency
  IN balance'[cur][Market] - balance[cur][Market]
       >= (orders[t].price * Sold(t) * FeeOf(cur)) \div 100

\* A purchase never costs the contract anything: out of the price it keeps at
\* least its percentage, whoever is paid royalties and however much was sent.
MarketKeepsItsFee == [][\A t \in Tokens : Purchased(t) => KeepsItsFee(t)]_vars

PaidByBuyer(t) ==
  LET cur == orders[t].currency
      buyer == tokenOwner'[t]
  IN /\ allowance[cur][buyer] - allowance'[cur][buyer] = orders[t].price * Sold(t)
     /\ \A a \in Holders \ {buyer} : balance'[cur][a] >= balance[cur][a]

\* In a fungible currency the new owner pays the price of what was sold, once:
\* royalties and the fee come out of it.  Nobody else pays anything, the caller
\* neither, who need not be the buyer: the buyer's allowance is enough.
BuyerPaysThePrice ==
  [][\A t \in Tokens : Purchased(t) /\ orders[t].currency # 0 => PaidByBuyer(t)]_vars

Consented(t) ==
  /\ tokenOwner[t] = AddressOf(orders[t].seller)
  /\ t \in approved /\ t \notin approved'
  /\ CollectionOf[t] \notin blacklist

\* The contract moves a token only out of the hands of the owner who listed it,
\* approves it still, and in no blacklisted collection: an order that went
\* stale (sold elsewhere, given away, taken back) sells nothing.
SaleIsConsented == [][\A t \in Tokens : Purchased(t) => Consented(t)]_vars

\* The order book as OrderBook sees it: the id an order has, and no order of
\* an id that was handed out, tell its listing.
Listing(id) ==
  IF id >= idCount THEN [state |-> "new", offer |-> Zero]
  ELSE IF \E t \in Tokens : OnSale(t) /\ orders[t].id = id
       THEN LET t == CHOOSE u \in Tokens : OnSale(u) /\ orders[u].id = id
            IN [state |-> "open",
                offer |-> [token |-> t, seller |-> orders[t].seller,
                           amount |-> orders[t].amount]]
       ELSE [state |-> "closed", offer |-> Zero]
Listings == [id \in Ids |-> Listing(id)]

OrderBookOf == INSTANCE OrderBook
  WITH listing <- Listings, Sellers <- CrossAddresses, NoListing <- Zero

\* The contract implements OrderBook: no transaction reopens a closed id, gives
\* an id to a second listing, raises the fractions on sale, or lists a token twice.
ImplementsOrderBook == OrderBookOf!Spec

\* The fee takes the whole price, or that of all the fractions bought comes, rounded
\* down, to more than the price of one, of which the royalties are computed.
FeeBars(o, n) ==
  LET fee == FeeOf(o.currency)
  IN fee = 100 \/ o.price * (n * fee - 100) >= 100

\* As long as royalties do not take everything, the arithmetic of buy lets n fractions
\* of an open order be sold exactly if the fee in force at the purchase does not bar it.
\* So there are orders that nobody can buy, or not in one piece: none at a fee of 100
\* percent, where the royalties are not less than the nothing left of the price, and
\* not two fractions of 8 at 60 percent, where buy subtracts 9 from 8.  One at a time
\* fractions are sold at every fee but 100.
SellsUnlessTheFeeBars ==
  \A t \in Tokens : \A n \in 1 .. orders[t].amount :
    OnSale(t) => (Settles(orders[t], n) <=> ~FeeBars(orders[t], n))

EthereumUsers == {c.eth : c \in CrossAddresses} \ {Zero}

\* What the comment on buy says of the buyer: "eth part must be equal to the transaction
\* signer address".  Whoever names an Ethereum account as the buyer is that account, so a
\* price in the native token, which the signer sends along, is at no other's cost.
BuyerSigns ==
  [][\A t \in Tokens :
       Purchased(t) /\ orders[t].currency = 0 /\ tokenOwner'[t] \in EthereumUsers \ {tokenOwner[t]} =>
         \A a \in Accounts \ {tokenOwner[t], tokenOwner'[t]} : balance'[0][a] >= balance[0][a]]_vars

\* For an NFT a purchase ends the order: no sold token stays on sale.
PurchaseEndsTheOrder == [][\A t \in Tokens : Purchased(t) => orders'[t].price = 0]_vars
=============================================================================
