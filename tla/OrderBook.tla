----------------------------- MODULE OrderBook -----------------------------
(***************************************************************************)
(* What the marketplace contract promises of its orders, and the off-chain *)
(* services rely on when they use an order's id as its key: ids are handed *)
(* out in order, an id stands for one listing of one token by one seller,  *)
(* its fractions only go down, a token has one open listing at most, and a *)
(* listing that is over stays over.  Prices, money and the token's owner   *)
(* are left out.                                                           *)
(***************************************************************************)
EXTENDS Integers

CONSTANTS Tokens, Sellers, Amounts, Ids, NoListing

VARIABLE listing   \* listing[id]: "new", "closed", or what is on offer

Offer == [token : Tokens, seller : Sellers, amount : Amounts]
New == [state |-> "new", offer |-> NoListing]
Closed == [state |-> "closed", offer |-> NoListing]
Open(offer) == [state |-> "open", offer |-> offer]

IsOpen(id) == listing[id].state = "open"

Init == listing = [id \in Ids |-> New]

List(id) ==
  /\ listing[id] = New /\ \A i \in Ids : i < id => listing[i] # New
  /\ \E offer \in Offer :
       /\ listing' = [listing EXCEPT ![id] = Open(offer)]
       /\ \A i \in Ids : IsOpen(i) => listing[i].offer.token # offer.token

Take(id, n) ==
  /\ IsOpen(id) /\ n < listing[id].offer.amount
  /\ listing' = [listing EXCEPT ![id].offer.amount = @ - n]

Close(S) ==
  /\ \A id \in S : IsOpen(id)
  /\ listing' = [id \in Ids |-> IF id \in S THEN Closed ELSE listing[id]]

Next ==
  \/ \E id \in Ids : List(id)
  \/ \E id \in Ids, n \in Amounts \ {0} : Take(id, n)
  \/ \E S \in SUBSET Ids : Close(S)

Spec == Init /\ [][Next]_listing
=============================================================================
