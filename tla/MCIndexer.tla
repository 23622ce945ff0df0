----------------------------- MODULE MCIndexer -----------------------------
(***************************************************************************)
(* Instances of TokenIndexer.                                              *)
(***************************************************************************)
EXTENDS TokenIndexer, TLC

CONSTANTS a, w1, w2    \* the account, workers

WorkersAlike == Permutations(Workers)

\* Nothing has been minted, or token 1.
MintedOrNot == {[t \in Tokens |-> Unminted], [t \in Tokens |-> IF t = 1 THEN a ELSE Unminted]}
\* Token 1 is nested in token 2.
OneInTwo == {[t \in Tokens |-> IF t = 1 THEN 2 ELSE a]}

\* Tokens come and go, and the collection is added and looked at; or a token on sale
\* is burnt; or one is sold; or the collection is added because of an offer and by an
\* administrator.
ToTokenOne(methods) == methods \X {1}
Everything ==
  {ToTokenOne({"ItemCreated", "ItemDestroyed"})
     \cup {"other", "new-collection-added", "getOneColection"} \X {None},
   ToTokenOne({"TokenIsUpForSale", "TokenPriceChanged", "TokenRevoke", "ItemDestroyed"}),
   ToTokenOne({"TokenIsUpForSale", "TokenIsPurchased"}),
   ToTokenOne({"ItemCreated", "TokenIsUpForSale"}) \cup {<<"new-collection-added", None>>}}
Transfers == {{"Approved", "Transfer"} \X Tokens}
=============================================================================
