------------------------------- MODULE MCRest -------------------------------
(***************************************************************************)
(* An instance of RestApp and Collections.  Currencies, banners, checks    *)
(* and collections share no state, and neither do the words of an admin,   *)
(* the pages of settings and the counts but for the rows themselves: a     *)
(* behaviour has requests of one kind.                                     *)
(***************************************************************************)
EXTENDS Collections, TLC

CONSTANTS MaxCounts, MaxMoves   \* bounds of the counts, of one collection
VARIABLE about

MCTexts == {<<<<1>>, <<2, 3>>>>, <<<<3, 2>>>>, <<<<None>>>>, <<<<1, 2, 0>>>>, <<<<4>>, <<0, 1>>>>}

MCInit == CollectionsInit /\ about \in {"currencies", "banners", "checks", "pages", "words", "counts"}

Requested ==
  /\ \/ \E r \in Requests :
          \/ about = "currencies" /\ Currency(r)
          \/ about = "banners" /\ Banner(r)
          \/ about = "checks" /\ Check(r)
          \/ Fail(r)
     \/ about = "checks" /\ (Order \/ MoveToken \/ FindMirrored \/ SaveMirrored)
  /\ UNCHANGED <<told, seen, watched>>

Subjects == IF about = "pages" THEN Ids ELSE {CHOOSE c \in Ids : TRUE}
OfCollections ==
  /\ \/ \E r \in Requests : FailRequest(r)
     \/ /\ \E c \in Subjects :
             \/ Collect(c)
             \/ about # "words" /\ Offers(c)
             \/ about = "pages" /\ (Curate(c) \/ \E r \in Requests : Toggle(r, c) \/ Page(r))
             \/ about = "words" /\ \E r \in Requests : Admin(r, c) \/ Toggle(r, c)
             \/ about = "counts" /\ (Restock(c) \/ \E r \in Requests : Count(r, c))
        /\ UNCHANGED failures
  /\ about = "pages" => \A k \in 1 .. Len(listed') : listed'[k].price = (CHOOSE p \in Prices : TRUE)
  /\ about = "counts" => started' <= MaxCounts /\ changed' <= MaxMoves
  /\ Watch /\ UNCHANGED <<money, files, market, suspects>>

MCNext ==
  /\ UNCHANGED about
  /\ IF about \in {"pages", "words", "counts"} THEN OfCollections ELSE Requested

\* Requests are alike.
Alike == Permutations(Requests)

MCSpec == MCInit /\ [][MCNext]_<<vars, told, seen, watched, about>>
=============================================================================
