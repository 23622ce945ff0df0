------------------------------ MODULE MCMarket ------------------------------
(***************************************************************************)
(* Small instances of Market.  ann uses Ethereum and made the tokens;      *)
(* sub has a Substrate account, deploys the contract and runs it.          *)
(*                                                                         *)
(* And samples of royalties, whose properties depend on no state.          *)
(***************************************************************************)
EXTENDS Market, Royalty, TLC

CONSTANTS ann, sub, coll, helper1, helper2, NativeSum, FungibleSum

\* A cross address of each kind, and one that names nobody.
MCCrossAddresses ==
  {[eth |-> ann, sub |-> Zero], [eth |-> Zero, sub |-> sub], NoAddress}
MCCollectionOf == [t \in Tokens |-> coll]
MCInitialOwner == [t \in Tokens |-> ann]
\* Everyone but ann has money.
MCInitialBalance ==
  [c \in Currencies |-> [a \in Accounts |->
     IF a = ann THEN 0 ELSE IF c = 0 THEN NativeSum ELSE FungibleSum]]
\* helper1 grants ann 60 percent of a sale, helper2 nothing.
MCShares ==
  [h \in Helpers |-> [t \in Tokens |-> [a \in Accounts |->
     IF a = ann /\ h = helper1 THEN 60 ELSE 0]]]

\* Tokens are of one collection and one owner: nothing tells them apart.
TokenSymmetry == Permutations(Tokens)

-----------------------------------------------------------------------------
(* Royalties: words with bits at both ends of each field.  What is said of *)
(* them depends on no state and is evaluated once, before the first order. *)

SampleAddresses ==
  {<<{0, 159}, {}>>, <<{}, {0, 96, 255}>>, <<{}, {}>>}
SampleParts ==
  {[version |-> v, decimals |-> d, value |-> w, isPrimarySaleOnly |-> p, eth |-> a[1], sub |-> a[2]] :
     v \in SUBSET {0, 7}, d \in SUBSET {0, 2, 7}, w \in SUBSET {0, 63}, p \in BOOLEAN, a \in SampleAddresses}
SampleRoyalties ==
  LET short == {p \in SampleParts : p.version = {0} /\ p.value = {0}}
  IN {<<p>> : p \in SampleParts} \cup short \X short
SampleLegacyParts ==
  {[account |-> a, value |-> w] : a \in {{0, 159}, {8}, {}}, w \in SUBSET {0, 63}}
\* Of a price, in hundredths and in tenths.
SampleShares ==
  {[value |-> v, decimals |-> d, isPrimarySaleOnly |-> p] : v \in {0, 5, 9}, d \in {1, 2}, p \in BOOLEAN}

NoOrderYet == idCount = 1

\* Whatever royalties a creator encodes, decode gives back the same parts in the
\* same order: no field runs into another.  Both ways of writing a LibPart whose
\* value has 64 bits are read alike by both decoders, as a part of the secondary
\* sale with 4 decimals.
RoyaltiesRoundTrip == NoOrderYet => RoundTrips

\* Of a token with two parts, and of a collection with one or with both.
StaysWithinThePrice(p, q, price) ==
  LET hundredths(part) == IF part.isPrimarySaleOnly THEN 0 ELSE part.value * 10 ^ (2 - part.decimals)
      earned == Calculate(<<p, q>>, <<p>>, price)
  IN hundredths(p) + hundredths(q) <= 100
       => /\ earned[1] + earned[2] <= price
          /\ Calculate(Unreadable, <<p, q>>, price) = Calculate(<<p, q>>, <<q>>, price)

\* Parts of up to the whole price in the one sale never earn more than the price,
\* whatever the parts of the other sale and of the collection; and without parts
\* of its own a token earns what its collection says.
RoyaltiesStayWithinThePrice ==
  NoOrderYet => \A p, q \in SampleShares, price \in {0, 1, 7, 19, 100} : StaysWithinThePrice(p, q, price)
=============================================================================
