--------------------------- MODULE CatalogProofs ---------------------------
(***************************************************************************)
(* Theorems about Catalog, for all tables, requests and sorts.             *)
(*                                                                         *)
(* What a list says holds of every state whose tables are well formed:     *)
(* TablesOK.  What a reader of pages has seen needs an invariant of its    *)
(* own, ReaderInv: an offer it has yet to see has at least as many offers  *)
(* before it as the reader has gone past, and these never get fewer.       *)
(***************************************************************************)
EXTENDS MCCatalog, FiniteSetTheorems, SequenceTheorems, WellFoundedInduction, TLAPS

-----------------------------------------------------------------------------
(* The tables.                                                             *)

Offer ==
  [token : Tokens, seller : Accounts, price : Nat, currency : Currencies,
   status : {"Opened", "Canceled", "Completed"}]
Trade == [offer : Nat \ {0}, buyer : Accounts]

TablesOK ==
  /\ offers \in Seq(Offer) /\ trades \in Seq(Trade)
  /\ \A i \in Keys(trades) : trades[i].offer \in Keys(offers)
  /\ index \in [Tokens -> Infos \cup {NoInfo}] /\ DOMAIN tokens = Tokens
  /\ rates \in [Currencies -> Nat \cup {NoRate}]

\* The numbers of the rows are the domain of their sequence.
LEMMA KeysOf == ASSUME NEW S, NEW rows \in Seq(S)
                PROVE  /\ Keys(rows) = DOMAIN rows /\ Len(rows) \in Nat
                       /\ \A k \in Keys(rows) : k \in Nat \ {0} /\ rows[k] \in S
  BY LenProperties DEF Keys

LEMMA KeysFinite == ASSUME NEW S, NEW rows \in Seq(S)
                    PROVE  IsFiniteSet(Keys(rows)) /\ Cardinality(Keys(rows)) = Len(rows)
<1>1. Len(rows) \in Nat
  BY LenProperties
<1>2. IsFiniteSet(1 .. Len(rows)) /\ Cardinality(1 .. Len(rows)) = Len(rows)
  BY <1>1, FS_Interval
<1> QED BY <1>2 DEF Keys

\* Setting the status of an offer leaves the rest of the rows.
LEMMA StatusSet ==
  ASSUME TablesOK, NEW k \in Keys(offers), NEW status \in {"Opened", "Canceled", "Completed"},
         offers' = [offers EXCEPT ![k].status = status]
  PROVE  /\ offers' \in Seq(Offer) /\ Len(offers') = Len(offers)
         /\ \A j \in Keys(offers) : offers'[j] = IF j = k THEN [offers[j] EXCEPT !.status = status] ELSE offers[j]
<1>1. offers \in Seq(Offer) /\ k \in 1 .. Len(offers) /\ offers[k] \in Offer /\ DOMAIN offers = 1 .. Len(offers)
  BY KeysOf DEF TablesOK, Keys
<1>2. [offers[k] EXCEPT !.status = status] \in Offer
  BY <1>1 DEF Offer
<1>3. offers' = [offers EXCEPT ![k] = [offers[k] EXCEPT !.status = status]]
  OBVIOUS
<1>4. offers' \in Seq(Offer) /\ Len(offers') = Len(offers)
  BY <1>1, <1>2, <1>3, ExceptSeq
<1> QED BY <1>1, <1>3, <1>4 DEF Keys

\* Every step leaves well formed tables.
LEMMA TablesStep == TablesOK /\ [Next]_vars => TablesOK'
<1> SUFFICES ASSUME TablesOK, [Next]_vars PROVE TablesOK'
  OBVIOUS
<1> USE DEF TablesOK, Keys
<1>1. ASSUME NEW l \in Listings, Create(l)
      PROVE  TablesOK'
  <2> DEFINE row == [token |-> l.token, seller |-> l.seller, price |-> l.price,
                     currency |-> l.currency, status |-> "Opened"]
  <2>1. row \in Offer
    BY CatalogInputs DEF Offer, Currencies
  <2>2. offers' \in Seq(Offer) /\ Len(offers') = Len(offers) + 1
    BY <1>1, <2>1, AppendProperties DEF Create
  <2>3. UNCHANGED <<index, tokens, trades, rates>>
    BY <1>1 DEF Create
  <2> QED BY <2>2, <2>3, LenProperties
<1>2. ASSUME NEW k \in Keys(offers), Cancel(k)
      PROVE  TablesOK'
  <2>1. offers' \in Seq(Offer) /\ Len(offers') = Len(offers) /\ UNCHANGED <<index, tokens, trades, rates>>
    BY <1>2, StatusSet DEF Cancel, SetStatus
  <2> QED BY <2>1
<1>3. ASSUME NEW k \in Keys(offers), NEW l \in Listings, ChangePrice(k, l.price)
      PROVE  TablesOK'
  <2>1. l.price \in Nat /\ k \in 1 .. Len(offers) /\ offers[k] \in Offer
    BY CatalogInputs, KeysOf
  <2>2. [offers[k] EXCEPT !.price = l.price] \in Offer
    BY <2>1 DEF Offer
  <2>3. offers' = [offers EXCEPT ![k] = [offers[k] EXCEPT !.price = l.price]]
    BY <1>3 DEF ChangePrice
  <2>4. offers' \in Seq(Offer) /\ Len(offers') = Len(offers)
    BY <2>1, <2>2, <2>3, ExceptSeq
  <2>5. UNCHANGED <<index, tokens, trades, rates>>
    BY <1>3 DEF ChangePrice, Change
  <2> QED BY <2>4, <2>5
<1>4. ASSUME NEW k \in Keys(offers), NEW buyer \in Accounts, NEW status \in {"Opened", "Completed"},
             Buy(k, buyer, status)
      PROVE  TablesOK'
  <2>1. offers' \in Seq(Offer) /\ Len(offers') = Len(offers) /\ UNCHANGED <<index, tokens, rates>>
    BY <1>4, StatusSet DEF Buy, SetStatus
  <2>2. [offer |-> k, buyer |-> buyer] \in Trade /\ trades' = Append(trades, [offer |-> k, buyer |-> buyer])
    BY <1>4, KeysOf DEF Buy, Trade
  <2>3. /\ trades' \in Seq(Trade) /\ Len(trades') = Len(trades) + 1
        /\ \A i \in 1 .. Len(trades) : trades'[i] = trades[i]
        /\ trades'[Len(trades) + 1].offer = k
    BY <2>2, AppendProperties
  <2>4. \A i \in 1 .. Len(trades') : trades'[i].offer \in 1 .. Len(offers')
    BY <2>1, <2>3, LenProperties
  <2> QED BY <2>1, <2>3, <2>4
<1>5. ASSUME NEW t \in Tokens,
             DropIndex(t) \/ (\E info \in Infos : SaveIndex(t, info))
               \/ (\E start \in AtStart : SaveToken(t, start.tokens[t]))
      PROVE  TablesOK'
  BY <1>5 DEF DropIndex, SaveIndex, SaveToken, Change
<1>6. ASSUME NEW start \in AtStart, Refresh(start.rates)
      PROVE  TablesOK'
  BY <1>6, WhatIsWritten DEF Refresh, Change, Currencies
<1>7. ASSUME (\E sort \in Sorts : StartReading(sort)) \/ ReadPage \/ Leave \/ UNCHANGED vars
      PROVE  TablesOK'
  <2>1. UNCHANGED tables
    BY <1>7 DEF StartReading, ReadPage, Leave, vars
  <2> QED BY <2>1 DEF tables
<1> QED BY <1>1, <1>2, <1>3, <1>4, <1>5, <1>6, <1>7 DEF Next

LEMMA TablesHold == Spec => []TablesOK
<1>1. Init => TablesOK
  <2> SUFFICES ASSUME Init PROVE TablesOK
    OBVIOUS
  <2>1. offers = <<>> /\ trades = <<>> /\ Keys(trades) = {}
    BY DEF Init, Keys
  <2>2. offers \in Seq(Offer) /\ trades \in Seq(Trade)
    BY <2>1, EmptySeq
  <2> QED BY <2>1, <2>2, WhatIsWritten DEF Init, TablesOK, Currencies
<1> QED BY <1>1, TablesStep, PTL DEF Spec

-----------------------------------------------------------------------------
(* Orders of rows, and the pages they are cut into.                        *)

\* Of any two rows that differ one is before the other, and none before itself.
IsTotal(before, rows) ==
  /\ \A j, k \in rows : j # k => <<j, k>> \in before \/ <<k, j>> \in before
  /\ \A k \in rows : <<k, k>> \notin before
IsOrder(before, rows) ==
  /\ IsTotal(before, rows)
  /\ \A i, j, k \in rows : <<i, j>> \in before /\ <<j, k>> \in before => <<i, k>> \in before

Ahead(k, rows, before) == {j \in rows : <<j, k>> \in before}

\* A nonempty set of numbers has a least one.
LEMMA LeastNumber ==
  ASSUME NEW S \in SUBSET Nat, S # {}
  PROVE  \E n \in S : \A m \in S : n <= m
<1>1. PICK n \in S : \A m \in S : ~(<<m, n>> \in OpToRel(<, Nat))
  BY NatLessThanWellFounded, WFMin
<1>2. \A m \in S : ~(m < n)
  BY <1>1 DEF OpToRel
<1> QED BY <1>2

\* A row that is not on a page and not before it has the whole page and all that
\* was skipped ahead of it; one that was skipped has fewer ahead than were skipped.
LEMMA PageGoesOn ==
  ASSUME NEW rows, IsFiniteSet(rows), NEW before, IsTotal(before, rows),
         NEW size \in Nat \ {0}, NEW number \in Nat \ {0},
         NEW page \in SUBSET rows, MayBePage(page, rows, before, number, size),
         NEW k \in rows \ page, Cardinality(Ahead(k, rows, before)) >= (number - 1) * size
  PROVE  /\ Cardinality(page) = size
         /\ Cardinality(Ahead(k, rows, before)) >= number * size
<1> DEFINE ahead == Ahead(k, rows, before)
           gone == (number - 1) * size
<1>1. PICK skipped \in SUBSET (rows \ page) :
        /\ Cardinality(skipped) = Least(gone, Cardinality(rows))
        /\ Cardinality(page) = Least(size, Cardinality(rows \ skipped))
        /\ \A i \in skipped, j \in rows \ skipped : <<j, i>> \notin before
        /\ \A i \in page, j \in rows \ (skipped \cup page) : <<j, i>> \notin before
  BY DEF MayBePage, Offset
<1>2. /\ IsFiniteSet(skipped) /\ IsFiniteSet(page) /\ IsFiniteSet(ahead) /\ IsFiniteSet(rows \ skipped)
      /\ Cardinality(skipped) \in Nat /\ Cardinality(page) \in Nat /\ Cardinality(ahead) \in Nat
      /\ Cardinality(rows) \in Nat /\ Cardinality(rows \ skipped) \in Nat
  BY FS_Subset, FS_CardinalityType DEF Ahead
<1>3. gone \in Nat /\ number * size = gone + size
  OBVIOUS
<1> HIDE DEF gone
<1>4. k \notin skipped
  <2>1. SUFFICES ASSUME k \in skipped PROVE FALSE
    OBVIOUS
  <2>2. ahead \subseteq skipped \ {k}
    BY <1>1, <2>1 DEF Ahead, IsTotal
  <2>3. IsFiniteSet(skipped \ {k}) /\ Cardinality(skipped \ {k}) = Cardinality(skipped) - 1
    BY <1>2, <2>1, FS_RemoveElement
  <2>4. Cardinality(ahead) <= Cardinality(skipped) - 1
    BY <2>2, <2>3, FS_Subset
  <2>5. Cardinality(skipped) <= gone
    BY <1>1, <1>2, <1>3 DEF Least
  <2> QED BY <1>2, <1>3, <2>4, <2>5
<1>5. Cardinality(skipped) = gone
  <2>1. Cardinality(skipped) # Cardinality(rows)
    BY <1>4, FS_Subset
  <2> QED BY <1>1, <2>1 DEF Least
<1>6. Cardinality(page) = size
  <2>1. page \in SUBSET (rows \ skipped) /\ page # rows \ skipped
    BY <1>1, <1>4
  <2>2. Cardinality(page) # Cardinality(rows \ skipped)
    BY <1>2, <2>1, FS_Subset
  <2> QED BY <1>1, <2>2 DEF Least
<1>7. skipped \cup page \subseteq ahead
  BY <1>1, <1>4 DEF Ahead, IsTotal
<1>8. /\ IsFiniteSet(skipped \cup page)
      /\ Cardinality(skipped \cup page) = gone + size
  <2>1. skipped \cap page = {}
    BY <1>1
  <2>2. /\ IsFiniteSet(skipped \cup page)
        /\ Cardinality(skipped \cup page) = Cardinality(skipped) + Cardinality(page) - Cardinality(skipped \cap page)
    BY <1>2, FS_Union
  <2>3. Cardinality(skipped \cap page) = 0
    BY <2>1, FS_EmptySet
  <2> QED BY <1>3, <1>5, <1>6, <2>2, <2>3
<1>9. gone + size <= Cardinality(ahead)
  BY <1>2, <1>7, <1>8, FS_Subset
<1> QED BY <1>2, <1>3, <1>6, <1>9

\* The pages that are not empty are no more than the rows.
LEMMA PagesEnd ==
  ASSUME NEW rows, IsFiniteSet(rows), NEW before, NEW size \in Nat \ {0}, NEW number \in Nat \ {0},
         NEW page \in SUBSET rows, MayBePage(page, rows, before, number, size), page # {}
  PROVE  number <= Cardinality(rows)
<1>1. PICK skipped \in SUBSET (rows \ page) :
        Cardinality(skipped) = Least((number - 1) * size, Cardinality(rows))
  BY DEF MayBePage, Offset
<1>2. Cardinality(skipped) < Cardinality(rows) /\ Cardinality(skipped) \in Nat /\ Cardinality(rows) \in Nat
  <2>1. skipped # rows /\ skipped \in SUBSET rows
    BY <1>1
  <2> QED BY <2>1, FS_Subset, FS_CardinalityType
<1>3. (number - 1) * size < Cardinality(rows)
  BY <1>1, <1>2 DEF Least
<1>4. number - 1 <= (number - 1) * size
  OBVIOUS
<1> QED BY <1>2, <1>3, <1>4

\* The first place that differs makes an order of rows, as long as some place does.
LEMMA PrecedesOneWay ==
  ASSUME NEW n \in Nat, NEW p \in [1 .. n -> Nat], NEW q \in [1 .. n -> Nat],
         NEW asc, DOMAIN asc = 1 .. n, NEW d \in 1 .. n, p[d] # q[d]
  PROVE  Precedes(p, q, asc) \/ Precedes(q, p, asc)
<1> DEFINE differ == {i \in 1 .. n : p[i] # q[i]}
<1>1. differ \in SUBSET Nat /\ differ # {}
  OBVIOUS
<1> HIDE DEF differ
<1>2. PICK i \in differ : \A m \in differ : i <= m
  BY <1>1, LeastNumber
<1> USE DEF differ
<1>3. i \in 1 .. n /\ p[i] # q[i] /\ \A h \in 1 .. i - 1 : p[h] = q[h]
  <2>1. ASSUME NEW h \in 1 .. i - 1, p[h] # q[h]
        PROVE  FALSE
    BY <1>2, <2>1
  <2> QED BY <1>2, <2>1
<1>4. p[i] \in Nat /\ q[i] \in Nat /\ p[i] \in Int /\ q[i] \in Int
  BY <1>3
<1>5. (Lower(p[i], q[i]) \/ Lower(q[i], p[i]))
  BY <1>3, <1>4, CatalogInputs DEF Lower
<1> QED BY <1>3, <1>5 DEF Precedes

LEMMA PrecedesNotSelf ==
  ASSUME NEW n \in Nat, NEW p \in [1 .. n -> Nat], NEW asc, DOMAIN asc = 1 .. n
  PROVE  ~Precedes(p, p, asc)
<1>1. \A i \in 1 .. n : p[i] \in Nat /\ p[i] # NoRate
  BY CatalogInputs
<1> QED BY <1>1 DEF Precedes, Lower

LEMMA PrecedesOn ==
  ASSUME NEW n \in Nat, NEW p \in [1 .. n -> Nat], NEW q \in [1 .. n -> Nat], NEW r \in [1 .. n -> Nat],
         NEW asc, DOMAIN asc = 1 .. n, Precedes(p, q, asc), Precedes(q, r, asc)
  PROVE  Precedes(p, r, asc)
<1>1. \A x, y \in Nat : Lower(x, y) <=> x < y
  BY CatalogInputs DEF Lower
<1>2. PICK i \in 1 .. n :
        /\ \A h \in 1 .. i - 1 : p[h] = q[h]
        /\ IF asc[i] THEN Lower(p[i], q[i]) ELSE Lower(q[i], p[i])
  BY DEF Precedes
<1>3. PICK j \in 1 .. n :
        /\ \A h \in 1 .. j - 1 : q[h] = r[h]
        /\ IF asc[j] THEN Lower(q[j], r[j]) ELSE Lower(r[j], q[j])
  BY DEF Precedes
<1>4. \A h \in 1 .. n : p[h] \in Nat /\ q[h] \in Nat /\ r[h] \in Nat
  OBVIOUS
<1>5. CASE i < j
  <2>1. \A h \in 1 .. i - 1 : p[h] = r[h]
    BY <1>2, <1>3, <1>5
  <2>2. q[i] = r[i]
    BY <1>3, <1>5
  <2> QED BY <1>2, <2>1, <2>2 DEF Precedes
<1>6. CASE i > j
  <2>1. \A h \in 1 .. j - 1 : p[h] = r[h]
    BY <1>2, <1>3, <1>6
  <2>2. p[j] = q[j]
    BY <1>2, <1>6
  <2> QED BY <1>3, <2>1, <2>2 DEF Precedes
<1>7. CASE i = j
  <2>1. \A h \in 1 .. i - 1 : p[h] = r[h]
    BY <1>2, <1>3, <1>7
  <2>2. IF asc[i] THEN Lower(p[i], r[i]) ELSE Lower(r[i], p[i])
    BY <1>1, <1>2, <1>3, <1>4, <1>7
  <2> QED BY <2>1, <2>2 DEF Precedes
<1> QED BY <1>5, <1>6, <1>7

-----------------------------------------------------------------------------
(* Who reads by pages.                                                     *)

\* A sort that no change of a price moves, and that has a date in it: every column
\* that is no other stands for the date.
Steady(columns) ==
  /\ columns \in Seq(SortingParameter)
  /\ \A i \in DOMAIN columns : columns[i].column \notin {"Price", "UsdtPrice"}
  /\ \E i \in DOMAIN columns : columns[i].column \notin {"TokenId", "CollectionId"}
PlaceOf(t, k, s) ==
  CASE s.column = "TokenId" -> t[2] [] s.column = "CollectionId" -> t[1] [] OTHER -> k

LEMMA SteadyPlaces ==
  ASSUME TablesOK, NEW columns, Steady(columns), NEW k \in Keys(offers)
  PROVE  /\ DOMAIN columns = 1 .. Len(columns) /\ Len(columns) \in Nat
         /\ [i \in DOMAIN columns |-> Place(k, columns[i])] \in [1 .. Len(columns) -> Nat]
         /\ \A i \in DOMAIN columns : Place(k, columns[i]) = PlaceOf(offers[k].token, k, columns[i])
<1>1. DOMAIN columns = 1 .. Len(columns) /\ Len(columns) \in Nat
  BY LenProperties DEF Steady
<1>2. \A i \in DOMAIN columns : Place(k, columns[i]) = PlaceOf(offers[k].token, k, columns[i])
  BY DEF Place, PlaceOf, Steady
<1>3. k \in Nat /\ offers[k].token \in (Nat \ {0}) \X (Nat \ {0})
  <2>1. k \in Nat /\ offers[k] \in Offer
    BY KeysOf DEF TablesOK
  <2>2. offers[k].token \in Tokens
    BY <2>1 DEF Offer
  <2> QED BY <2>1, <2>2, CatalogInputs
<1>4. \A i \in DOMAIN columns : Place(k, columns[i]) \in Nat
  BY <1>2, <1>3 DEF PlaceOf
<1> QED BY <1>1, <1>2, <1>4

\* By such a sort the offers have an order, whatever tokens they are of.
LEMMA SteadyIsTotal ==
  ASSUME TablesOK, NEW columns, Steady(columns)
  PROVE  IsTotal(Before(columns), Opened)
<1> DEFINE places(k) == [i \in DOMAIN columns |-> Place(k, columns[i])]
           asc == [i \in DOMAIN columns |-> Ascending(columns[i])]
<1>1. \A j, k : <<j, k>> \in Before(columns) <=>
                  j \in Opened /\ k \in Opened /\ Precedes(places(j), places(k), asc)
  BY DEF Before
<1>2. \A k \in Opened : k \in Keys(offers)
  BY DEF Opened
<1>3. ASSUME NEW j \in Opened, NEW k \in Opened, j # k
      PROVE  Precedes(places(j), places(k), asc) \/ Precedes(places(k), places(j), asc)
  <2>1. PICK d \in DOMAIN columns : columns[d].column \notin {"TokenId", "CollectionId"}
    BY DEF Steady
  <2>2. Place(j, columns[d]) = j /\ Place(k, columns[d]) = k
    BY <1>2, <2>1, SteadyPlaces DEF PlaceOf
  <2>3. /\ places(j) \in [1 .. Len(columns) -> Nat] /\ places(k) \in [1 .. Len(columns) -> Nat]
        /\ DOMAIN asc = 1 .. Len(columns) /\ Len(columns) \in Nat /\ d \in 1 .. Len(columns)
        /\ places(j)[d] # places(k)[d]
    BY <1>2, <1>3, <2>1, <2>2, SteadyPlaces
  <2> HIDE DEF places, asc
  <2> QED BY <2>3, PrecedesOneWay
<1>4. ASSUME NEW k \in Opened
      PROVE  ~Precedes(places(k), places(k), asc)
  <2>1. /\ places(k) \in [1 .. Len(columns) -> Nat]
        /\ DOMAIN asc = 1 .. Len(columns) /\ Len(columns) \in Nat
    BY <1>2, SteadyPlaces
  <2> HIDE DEF places, asc
  <2> QED BY <2>1, PrecedesNotSelf
<1> HIDE DEF places, asc
<1> QED BY <1>1, <1>3, <1>4 DEF IsTotal

\* All sorts there are to read by are such.
SortsAreSteady == \A sort \in Sorts : sort \in SortingRequest /\ Steady(ParseSort(sort))

GoneBy == (reader.page - 1) * PageSize(SizeOfPage)
AheadOf(k) == Ahead(k, Opened, Before(reader.sort))

\* An offer the reader has yet to see has at least as many before it as he has gone
\* past.
ReaderInv ==
  /\ reader \in [page : Nat, sort : Seq(SortingParameter), asked : SUBSET Keys(offers),
                 seen : SUBSET Keys(offers), upset : BOOLEAN]
  /\ Len(offers) <= MaxOffers /\ reader.page <= Len(offers) + 1
  /\ reader.page > 0 => Steady(reader.sort)
  /\ reader.page = 0 /\ ~reader.upset => reader.asked \subseteq reader.seen
  /\ reader.page > 0 /\ ~reader.upset =>
       /\ reader.asked \subseteq Opened
       /\ \A k \in reader.asked \ reader.seen : Cardinality(AheadOf(k)) >= GoneBy

LEMMA OpenedIsFinite ==
  ASSUME TablesOK
  PROVE  IsFiniteSet(Opened) /\ Cardinality(Opened) \in Nat /\ Cardinality(Opened) <= Len(offers)
<1>1. Len(offers) \in Nat
  BY LenProperties DEF TablesOK
<1>2. IsFiniteSet(1 .. Len(offers)) /\ Cardinality(1 .. Len(offers)) = Len(offers)
  BY <1>1, FS_Interval
<1> QED BY <1>2, FS_Subset, FS_CardinalityType DEF Opened, Keys

LEMMA PageSizes == PageSize(SizeOfPage) \in Nat \ {0}
BY CatalogInputs, RequestInputs DEF PageSize

LEMMA OpenedStaysFinite == ASSUME TablesOK' PROVE IsFiniteSet(Opened')
<1>1. Len(offers)' \in Nat
  BY LenProperties DEF TablesOK
<1>2. IsFiniteSet(1 .. Len(offers)')
  BY <1>1, FS_Interval
<1>3. Opened' \subseteq 1 .. Len(offers)'
  BY DEF Opened, Keys
<1> QED BY <1>2, <1>3, FS_Subset

\* Offers that open, prices and rates leave the offers that were before another
\* where they were.
LEMMA AheadGrows ==
  ASSUME TablesOK, TablesOK', UNCHANGED reader.sort, Steady(reader.sort), Opened \subseteq Opened',
         \A k \in Opened : offers'[k].token = offers[k].token,
         NEW k \in Opened
  PROVE  Cardinality(AheadOf(k)') >= Cardinality(AheadOf(k)) /\ Cardinality(AheadOf(k)) \in Nat
<1> DEFINE sort == reader.sort
           places(j) == [i \in DOMAIN sort |-> Place(j, sort[i])]
           asc == [i \in DOMAIN sort |-> Ascending(sort[i])]
<1>1. ASSUME NEW j \in Opened
      PROVE  places(j)' = places(j)
  <2>1. \A i \in DOMAIN sort : Place(j, sort[i]) = PlaceOf(offers[j].token, j, sort[i])
    BY DEF Place, PlaceOf, Steady
  <2>2. \A i \in DOMAIN sort : Place(j, sort[i])' = PlaceOf(offers'[j].token, j, sort[i])
    BY DEF Place, PlaceOf, Steady
  <2> QED BY <2>1, <2>2
<1>2. asc' = asc
  OBVIOUS
<1>3. \A j \in Opened : <<j, k>> \in Before(sort) <=> Precedes(places(j), places(k), asc)
  BY DEF Before
<1>4. \A j \in Opened' : <<j, k>> \in Before(sort)' <=> Precedes(places(j)', places(k)', asc')
  BY DEF Before
<1>5. AheadOf(k) \subseteq AheadOf(k)'
  <2> HIDE DEF places, asc
  <2> QED BY <1>1, <1>2, <1>3, <1>4 DEF AheadOf, Ahead
<1>6. IsFiniteSet(AheadOf(k)')
  <2>1. IsFiniteSet(Opened')
    BY OpenedStaysFinite
  <2> QED BY <2>1, FS_Subset DEF AheadOf, Ahead
<1> QED BY <1>5, <1>6, FS_Subset, FS_CardinalityType


\* A step that takes no offer away and leaves the reader alone.
LEMMA ReaderStays ==
  ASSUME TablesOK, TablesOK', ReaderInv, UNCHANGED reader, Opened \subseteq Opened',
         \A k \in Opened : offers'[k].token = offers[k].token,
         Len(offers) <= Len(offers'), Len(offers') <= MaxOffers
  PROVE  ReaderInv'
<1>1. Len(offers) \in Nat /\ Len(offers') \in Nat
  BY LenProperties DEF TablesOK
<1>2. Keys(offers) \subseteq Keys(offers)' /\ reader.page <= Len(offers') + 1
  BY <1>1 DEF Keys, ReaderInv
<1>3. ASSUME reader.page > 0, ~reader.upset, NEW k \in reader.asked \ reader.seen
      PROVE  Cardinality(AheadOf(k)') >= GoneBy'
  <2>1. k \in Opened /\ Steady(reader.sort) /\ Cardinality(AheadOf(k)) >= GoneBy
    BY <1>3 DEF ReaderInv
  <2>2. Cardinality(AheadOf(k)') >= Cardinality(AheadOf(k)) /\ Cardinality(AheadOf(k)) \in Nat
    BY <2>1, AheadGrows
  <2>3. GoneBy' = GoneBy /\ GoneBy \in Int
    BY PageSizes DEF GoneBy, ReaderInv
  <2>4. Cardinality(AheadOf(k)') \in Nat
    <3>1. IsFiniteSet(Opened')
      BY OpenedStaysFinite
    <3> QED BY <3>1, FS_Subset, FS_CardinalityType DEF AheadOf, Ahead
  <2> QED BY <2>1, <2>2, <2>3, <2>4
<1> QED BY <1>2, <1>3 DEF ReaderInv

\* A step that takes an offer away: whoever reads is upset.
LEMMA ReaderUpset ==
  ASSUME ReaderInv, NEW k \in Keys(offers), NEW status \in {"Canceled", "Completed"},
         SetStatus(k, status), Len(offers') = Len(offers)
  PROVE  ReaderInv'
<1>1. Keys(offers)' = Keys(offers)
  BY DEF Keys
<1>2. reader' = IF reader.page > 0 THEN [reader EXCEPT !.upset = TRUE] ELSE reader
  BY DEF SetStatus
<1> QED BY <1>1, <1>2 DEF ReaderInv


\* A page is read: what is left has the page ahead of it too.
LEMMA ReaderReads == ASSUME TablesOK, ReaderInv, ReadPage PROVE ReaderInv'
<1> DEFINE size == PageSize(SizeOfPage)
           before == Before(reader.sort)
<1>1. PICK page \in SUBSET Opened :
        /\ MayBePage(page, Opened, before, reader.page, size)
        /\ reader' = [reader EXCEPT !.page = IF page = {} THEN 0 ELSE @ + 1, !.seen = @ \cup page]
  BY DEF ReadPage
<1>2. UNCHANGED tables
  BY DEF ReadPage
<1>3. offers' = offers /\ Keys(offers)' = Keys(offers) /\ Opened' = Opened /\ Opened \subseteq Keys(offers)
  BY <1>2 DEF tables, Keys, Opened
<1>4. /\ reader.page \in Nat \ {0} /\ size \in Nat \ {0} /\ IsTotal(before, Opened)
      /\ IsFiniteSet(Opened) /\ Cardinality(Opened) \in Nat /\ Cardinality(Opened) <= Len(offers)
      /\ Len(offers) \in Nat
  BY SteadyIsTotal, PageSizes, OpenedIsFinite, LenProperties DEF ReadPage, ReaderInv, TablesOK
<1> HIDE DEF size, before
<1>5. /\ reader' \in [page : Nat, sort : Seq(SortingParameter), asked : SUBSET Keys(offers),
                      seen : SUBSET Keys(offers), upset : BOOLEAN]
      /\ UNCHANGED <<reader.sort, reader.asked, reader.upset>>
      /\ reader'.page = (IF page = {} THEN 0 ELSE reader.page + 1)
      /\ reader'.seen = reader.seen \cup page
  <2>1. reader \in [page : Nat, sort : Seq(SortingParameter), asked : SUBSET Keys(offers),
                    seen : SUBSET Keys(offers), upset : BOOLEAN]
    BY DEF ReaderInv
  <2>2. (IF page = {} THEN 0 ELSE reader.page + 1) \in Nat /\ reader.seen \cup page \in SUBSET Keys(offers)
    BY <1>3, <1>4, <2>1
  <2> QED BY <1>1, <2>1, <2>2
<1>6. reader'.page <= Len(offers) + 1
  <2>1. CASE page = {}
    BY <1>4, <1>5, <2>1
  <2>2. CASE page # {}
    <3>1. reader.page <= Cardinality(Opened)
      BY <1>1, <1>4, <2>2, PagesEnd
    <3> QED BY <1>4, <1>5, <2>2, <3>1
  <2> QED BY <2>1, <2>2
<1>7. ASSUME ~reader.upset
      PROVE  /\ reader.asked \subseteq Opened
             /\ \A k \in reader.asked \ (reader.seen \cup page) :
                  Cardinality(page) = size /\ Cardinality(Ahead(k, Opened, before)) >= reader.page * size
  <2>1. /\ reader.asked \subseteq Opened
        /\ \A k \in reader.asked \ reader.seen : Cardinality(Ahead(k, Opened, before)) >= (reader.page - 1) * size
    BY <1>4, <1>7 DEF ReaderInv, AheadOf, GoneBy, size, before
  <2>2. ASSUME NEW k \in reader.asked \ (reader.seen \cup page)
        PROVE  Cardinality(page) = size /\ Cardinality(Ahead(k, Opened, before)) >= reader.page * size
    <3>1. k \in Opened \ page /\ Cardinality(Ahead(k, Opened, before)) >= (reader.page - 1) * size
      BY <2>1
    <3> QED BY <1>1, <1>4, <3>1, PageGoesOn
  <2> QED BY <2>1, <2>2
<1>8. ASSUME page = {}, ~reader.upset
      PROVE  reader.asked \subseteq reader.seen
  BY <1>4, <1>7, <1>8, FS_EmptySet
<1>9. ASSUME page # {}
      PROVE  GoneBy' = reader.page * size /\ \A k : AheadOf(k)' = Ahead(k, Opened, before)
  <2>1. reader'.page - 1 = reader.page /\ size' = size
    BY <1>4, <1>5, <1>9 DEF size
  <2>2. Before(reader.sort)' = before
    <3>1. rates' = rates /\ reader'.sort = reader.sort
      BY <1>2, <1>5 DEF tables
    <3> QED BY <1>3, <3>1 DEF before, Before, Place, PriceInUsdt
  <2> QED BY <1>3, <2>1, <2>2 DEF GoneBy, AheadOf, size, Ahead
<1> QED BY <1>3, <1>4, <1>5, <1>6, <1>7, <1>8, <1>9 DEF ReaderInv

\* Every step keeps what the reader is owed.
LEMMA ReaderStep ==
  ASSUME SortsAreSteady, TablesOK, TablesOK', ReaderInv, [Next]_vars
  PROVE  ReaderInv'
<1>1. /\ offers \in Seq(Offer) /\ Len(offers) \in Nat /\ Opened \subseteq Keys(offers)
      /\ Len(offers) <= MaxOffers
  BY LenProperties DEF TablesOK, Opened, ReaderInv
<1>2. ASSUME NEW l \in Listings, Create(l)
      PROVE  ReaderInv'
  <2> DEFINE row == [token |-> l.token, seller |-> l.seller, price |-> l.price,
                     currency |-> l.currency, status |-> "Opened"]
  <2>1. offers' = Append(offers, row) /\ UNCHANGED reader /\ Len(offers) < MaxOffers
    BY <1>2 DEF Create
  <2>2. row \in Offer
    BY CatalogInputs DEF Offer, Currencies
  <2>3. Len(offers') = Len(offers) + 1 /\ \A k \in 1 .. Len(offers) : offers'[k] = offers[k]
    BY <1>1, <2>1, <2>2, AppendProperties
  <2>4. Opened \subseteq Opened' /\ \A k \in Opened : offers'[k].token = offers[k].token
    BY <1>1, <2>3 DEF Opened, Keys
  <2>5. Len(offers) <= Len(offers') /\ Len(offers') <= MaxOffers
    BY <1>1, <2>1, <2>3, CatalogInputs
  <2> QED BY <2>1, <2>4, <2>5, ReaderStays
<1>3. ASSUME NEW k \in Keys(offers), Cancel(k)
      PROVE  ReaderInv'
  <2>1. SetStatus(k, "Canceled")
    BY <1>3 DEF Cancel
  <2>2. Len(offers') = Len(offers)
    BY <2>1, StatusSet DEF SetStatus
  <2> QED BY <2>1, <2>2, ReaderUpset
<1>4. ASSUME NEW k \in Keys(offers), NEW l \in Listings, ChangePrice(k, l.price)
      PROVE  ReaderInv'
  <2>1. UNCHANGED reader /\ offers' = [offers EXCEPT ![k] = [offers[k] EXCEPT !.price = l.price]]
    BY <1>4 DEF ChangePrice, Change
  <2>2. DOMAIN offers = 1 .. Len(offers) /\ DOMAIN offers' = 1 .. Len(offers') /\ Len(offers') \in Nat
    BY <1>1, LenProperties DEF TablesOK
  <2>3. Len(offers') = Len(offers)
    BY <1>1, <2>1, <2>2
  <2>4. \A j \in Keys(offers) : offers'[j].token = offers[j].token /\ offers'[j].status = offers[j].status
    <3>1. offers[k] \in Offer
      BY <1>1, KeysOf
    <3> QED BY <2>1, <2>2, <3>1 DEF Offer, Keys
  <2>5. Opened' = Opened
    BY <2>3, <2>4 DEF Opened, Keys
  <2> QED BY <1>1, <2>1, <2>3, <2>4, <2>5, ReaderStays
<1>5. ASSUME NEW k \in Keys(offers), NEW buyer \in Accounts, Buy(k, buyer, "Opened")
      PROVE  ReaderInv'
  <2>1. UNCHANGED reader /\ SetStatus(k, "Opened") /\ k \in Opened
    BY <1>5 DEF Buy, SetStatus
  <2>2. /\ Len(offers') = Len(offers)
        /\ \A j \in Keys(offers) : offers'[j] = IF j = k THEN [offers[j] EXCEPT !.status = "Opened"] ELSE offers[j]
    BY <2>1, StatusSet DEF SetStatus
  <2>3. \A j \in Keys(offers) : offers[j] \in Offer
    BY <1>1, KeysOf
  <2>4. \A j \in Keys(offers) : offers'[j].token = offers[j].token /\ offers'[j].status = offers[j].status
    BY <2>1, <2>2, <2>3 DEF Offer, Opened
  <2>5. Opened' = Opened
    BY <2>2, <2>4 DEF Opened, Keys
  <2> QED BY <1>1, <2>1, <2>2, <2>4, <2>5, ReaderStays
<1>6. ASSUME NEW k \in Keys(offers), NEW buyer \in Accounts, Buy(k, buyer, "Completed")
      PROVE  ReaderInv'
  <2>1. SetStatus(k, "Completed")
    BY <1>6 DEF Buy
  <2>2. Len(offers') = Len(offers)
    BY <2>1, StatusSet DEF SetStatus
  <2> QED BY <2>1, <2>2, ReaderUpset
<1>7. ASSUME UNCHANGED <<offers, reader>>
      PROVE  ReaderInv'
  <2>1. Opened' = Opened
    BY <1>7 DEF Opened, Keys
  <2> QED BY <1>1, <1>7, <2>1, ReaderStays
<1>8. ASSUME NEW rawSort \in Sorts, StartReading(rawSort)
      PROVE  ReaderInv'
  <2>1. /\ reader' = [page |-> 1, sort |-> ParseSort(rawSort), asked |-> Opened, seen |-> {}, upset |-> FALSE]
        /\ UNCHANGED offers
    BY <1>8 DEF StartReading, Idle, tables
  <2>2. Opened' = Opened /\ Keys(offers)' = Keys(offers)
    BY <2>1 DEF Opened, Keys
  <2>3. ParseSort(rawSort) \in Seq(SortingParameter) /\ Steady(ParseSort(rawSort))
    BY DEF SortsAreSteady, Steady
  <2>4. GoneBy' = 0
    BY <2>1, PageSizes DEF GoneBy
  <2>5. \A k : Cardinality(AheadOf(k)') \in Nat
    <3>1. IsFiniteSet(Opened')
      BY OpenedStaysFinite
    <3> QED BY <3>1, FS_Subset, FS_CardinalityType DEF AheadOf, Ahead
  <2> QED BY <1>1, <2>1, <2>2, <2>3, <2>4, <2>5 DEF ReaderInv
<1>9. ASSUME Leave
      PROVE  ReaderInv'
  <2>1. UNCHANGED offers /\ reader' = Idle
    BY <1>9 DEF Leave, tables
  <2>2. <<>> \in Seq(SortingParameter)
    BY EmptySeq
  <2> QED BY <1>1, <2>1, <2>2 DEF ReaderInv, Idle, Keys
<1>10. ASSUME ReadPage
       PROVE  ReaderInv'
  BY <1>10, ReaderReads
<1>11. ASSUME NEW t \in Tokens,
              DropIndex(t) \/ (\E info \in Infos : SaveIndex(t, info))
                \/ (\E start \in AtStart : SaveToken(t, start.tokens[t]))
       PROVE  ReaderInv'
  BY <1>7, <1>11 DEF DropIndex, SaveIndex, SaveToken, Change
<1>12. ASSUME NEW start \in AtStart, Refresh(start.rates)
       PROVE  ReaderInv'
  BY <1>7, <1>12 DEF Refresh, Change
<1>13. ASSUME UNCHANGED vars
       PROVE  ReaderInv'
  BY <1>7, <1>13 DEF vars, tables
<1> QED BY <1>2, <1>3, <1>4, <1>5, <1>6, <1>8, <1>9, <1>10, <1>11, <1>12, <1>13 DEF Next

\* Who reads the pages by a sort that has a date in it, and none of the prices, comes
\* to the last one, and has then seen every offer that was there when he began.
THEOREM PagesHold == ASSUME SortsAreSteady PROVE Spec => []PagesSkipNothing
<1>1. Init => ReaderInv
  <2> SUFFICES ASSUME Init PROVE ReaderInv
    OBVIOUS
  <2>1. offers = <<>> /\ reader = Idle /\ Len(offers) = 0 /\ <<>> \in Seq(SortingParameter)
    BY EmptySeq DEF Init
  <2> QED BY <2>1, CatalogInputs DEF ReaderInv, Idle, Keys
<1>2. TablesOK /\ TablesOK' /\ ReaderInv /\ [Next]_vars => ReaderInv'
  BY ReaderStep
<1>3. TablesOK /\ ReaderInv => PagesSkipNothing
  <2> SUFFICES ASSUME TablesOK, ReaderInv PROVE PagesSkipNothing
    OBVIOUS
  <2>1. Len(offers) \in Nat /\ MaxOffers \in Nat /\ reader.page \in Nat
    BY CatalogInputs, LenProperties DEF TablesOK, ReaderInv
  <2> QED BY <2>1 DEF ReaderInv, PagesSkipNothing
<1> QED BY <1>1, <1>2, <1>3, TablesHold, PTL DEF Spec

-----------------------------------------------------------------------------
(* Lists of offers.                                                        *)

LEMMA OneToOne ==
  ASSUME NEW S, NEW T, IsFiniteSet(S), NEW f \in [S -> T],
         \A a, b \in S : f[a] = f[b] => a = b, \A r \in T : \E a \in S : f[a] = r
  PROVE  IsFiniteSet(T) /\ Cardinality(T) = Cardinality(S) /\ Cardinality(S) \in Nat
<1>1. f \in Bijection(S, T)
  BY DEF Bijection, Injection, Surjection, IsInjective
<1>2. ExistsBijection(S, T)
  BY <1>1 DEF ExistsBijection
<1> QED BY <1>2, FS_Bijection, FS_CardinalityType

\* What the pipe makes of a request that can be read.
LEMMA OffersParsed ==
  ASSUME NEW raw \in OffersFilter
  PROVE  LET q == ParseOffersFilter(raw)
         IN IF Junk \in raw.collectionId \cup raw.currencies \cup raw.numberOfAttributes
            THEN q = Refused
            ELSE /\ q \in OffersFilter /\ q # Refused
                 /\ q.collectionId = Given(raw.collectionId) /\ q.currencies = Given(raw.currencies)
                 /\ q.numberOfAttributes = Given(raw.numberOfAttributes) /\ q.attributes = raw.attributes
                 /\ q.minPrice = Number(raw.minPrice) /\ q.maxPrice = Number(raw.maxPrice)
                 /\ q.minUsdtPrice = Number(raw.minUsdtPrice) /\ q.maxUsdtPrice = Number(raw.maxUsdtPrice)
                 /\ q.seller = Text(raw.seller) /\ q.searchText = Text(raw.searchText)
                 /\ q.searchLocale = Text(raw.searchLocale)
<1> DEFINE lists == {"collectionId", "currencies", "numberOfAttributes"}
           numbers == {"maxPrice", "minPrice", "maxUsdtPrice", "minUsdtPrice"}
           texts == {"seller", "searchText", "searchLocale"}
           q == ParseOffersFilter(raw)
           fields == lists \cup numbers \cup texts \cup {"attributes"}
<1>1. DOMAIN raw = fields
  BY DEF OffersFilter
<1>2. (\E f \in lists : Unreadable(raw[f])) <=> Junk \in raw.collectionId \cup raw.currencies \cup raw.numberOfAttributes
  BY DEF Unreadable
<1>3. CASE Junk \in raw.collectionId \cup raw.currencies \cup raw.numberOfAttributes
  BY <1>2, <1>3 DEF ParseOffersFilter, Parsed
<1>4. CASE Junk \notin raw.collectionId \cup raw.currencies \cup raw.numberOfAttributes
  <2>1. q = [f \in fields |-> CASE f \in lists -> Ids(raw[f])
                                [] f \in numbers -> Number(raw[f])
                                [] f \in texts -> Text(raw[f])
                                [] OTHER -> raw[f]]
    BY <1>1, <1>2, <1>4 DEF ParseOffersFilter, Parsed
  <2>2. /\ q.collectionId = Given(raw.collectionId) /\ q.currencies = Given(raw.currencies)
        /\ q.numberOfAttributes = Given(raw.numberOfAttributes) /\ q.attributes = raw.attributes
        /\ q.minPrice = Number(raw.minPrice) /\ q.maxPrice = Number(raw.maxPrice)
        /\ q.minUsdtPrice = Number(raw.minUsdtPrice) /\ q.maxUsdtPrice = Number(raw.maxUsdtPrice)
        /\ q.seller = Text(raw.seller) /\ q.searchText = Text(raw.searchText)
        /\ q.searchLocale = Text(raw.searchLocale)
    BY <2>1 DEF Ids, Given
  <2>3. q \in OffersFilter
    <3>1. \A x \in Limit : Number(x) \in Limit
      BY DEF Number, Limit
    <3>2. \A x \in Single : Text(x) \in Single
      BY DEF Text, Single
    <3>3. \A x \in SUBSET Numerals : Ids(x) \in SUBSET Numerals
      BY DEF Ids
    <3>4. /\ raw.collectionId \in SUBSET Numerals /\ raw.currencies \in SUBSET Numerals
          /\ raw.numberOfAttributes \in SUBSET Numerals /\ raw.attributes \in SUBSET Values
          /\ raw.minPrice \in Limit /\ raw.maxPrice \in Limit /\ raw.minUsdtPrice \in Limit /\ raw.maxUsdtPrice \in Limit
          /\ raw.seller \in Single /\ raw.searchText \in Single /\ raw.searchLocale \in Single
      BY DEF OffersFilter
    <3>5. q = [collectionId |-> q.collectionId, currencies |-> q.currencies, numberOfAttributes |-> q.numberOfAttributes,
               attributes |-> q.attributes, minPrice |-> q.minPrice, maxPrice |-> q.maxPrice,
               minUsdtPrice |-> q.minUsdtPrice, maxUsdtPrice |-> q.maxUsdtPrice, seller |-> q.seller,
               searchText |-> q.searchText, searchLocale |-> q.searchLocale]
      BY <2>1
    <3> HIDE DEF q
    <3>6. /\ q.collectionId \in SUBSET Numerals /\ q.currencies \in SUBSET Numerals
          /\ q.numberOfAttributes \in SUBSET Numerals /\ q.attributes \in SUBSET Values
          /\ q.minPrice \in Limit /\ q.maxPrice \in Limit /\ q.minUsdtPrice \in Limit /\ q.maxUsdtPrice \in Limit
          /\ q.seller \in Single /\ q.searchText \in Single /\ q.searchLocale \in Single
      BY <2>2, <3>1, <3>2, <3>3, <3>4 DEF Ids, Given
    <3> QED BY <3>5, <3>6 DEF OffersFilter
  <2>4. q # Refused
    BY <2>3, RefusalIsNoRequest
  <2> QED BY ONLY <1>4, <2>2, <2>3, <2>4
<1> QED BY <1>3, <1>4

\* What the rows of a token that is indexed say, all of them together.
LEMMA RowsTell ==
  ASSUME TablesOK, NEW t \in Tokens, index[t] # NoInfo
  PROVE  LET rows == PropertiesOf(t, index[t])
         IN /\ ListItems(rows) = {a.value : a \in AttributesOf(t)}
            /\ TotalItems(rows) = Cardinality({a \in AttributesOf(t) : a.key # "video"})
            /\ TotalItems(rows) \in Nat
            /\ {p.item : p \in Joined(t)} = Searched(t)
            /\ Joined(t) # {}
            /\ \A p \in Joined(t) : p.list = ListItems(rows) /\ p.total = TotalItems(rows) /\ p.locale = NoItem
<1> DEFINE info == index[t]
           rows == PropertiesOf(t, info)
           own(a) == Row(a.key, IF a.value \in Nat THEN "Number" ELSE "String", a.value)
<1>1. info \in Infos
  BY DEF TablesOK
<1>2. /\ IsFiniteSet(info.attributes) /\ \A a \in info.attributes : a = [key |-> a.key, value |-> a.value]
      /\ \A m \in info.media : m.type \in {"ImageURL", "VideoURL"}
  BY <1>1, WhatIsWritten
<1>3. AttributesOf(t) = {a \in info.attributes : a.value \notin Nat /\ a.key \notin OwnFields}
  BY DEF AttributesOf
<1>4. \A r : r \in rows <=>
        \/ r = Row("prefix", "Prefix", About[t[1]].prefix)
        \/ r = Row("description", "String", About[t[1]].description)
        \/ r = Row("collectionName", "String", About[t[1]].name)
        \/ r = Row("collectionCover", "ImageURL", About[t[1]].cover)
        \/ r = Row("tokenId", "Number", t[2])
        \/ \E m \in info.media : r = Row(m.key, m.type, m.url)
        \/ \E a \in info.attributes : r = own(a)
  BY DEF PropertiesOf, FromCollection, FromMedia, FromAttributes
<1> HIDE DEF rows, info
<1>5. \A r \in rows : r.type \in {"Enum", "String"} /\ r.key \notin OwnFields
                        <=> \E a \in AttributesOf(t) : r = Row(a.key, "String", a.value)
  <2> SUFFICES ASSUME NEW r \in rows
               PROVE  r.type \in {"Enum", "String"} /\ r.key \notin OwnFields
                        <=> \E a \in AttributesOf(t) : r = Row(a.key, "String", a.value)
    OBVIOUS
  <2>1. ASSUME NEW a \in AttributesOf(t), r = Row(a.key, "String", a.value)
        PROVE  r.type \in {"Enum", "String"} /\ r.key \notin OwnFields
    BY <1>3, <2>1 DEF Row
  <2>2. ASSUME r.type \in {"Enum", "String"}, r.key \notin OwnFields
        PROVE  \E a \in AttributesOf(t) : r = Row(a.key, "String", a.value)
    <3>1. r.key \notin {"prefix", "description", "collectionName", "collectionCover", "tokenId"}
      BY <2>2 DEF OwnFields
    <3>2. \A m \in info.media : r # Row(m.key, m.type, m.url)
      BY <1>2, <2>2 DEF Row
    <3>3. PICK a \in info.attributes : r = own(a)
      BY <1>4, <3>1, <3>2 DEF Row
    <3>4. a.value \notin Nat
      BY <2>2, <3>3 DEF Row
    <3>5. r = Row(a.key, "String", a.value) /\ r.key = a.key
      BY <3>3, <3>4 DEF Row
    <3> QED BY <1>3, <2>2, <3>4, <3>5
  <2> QED BY <2>1, <2>2
<1>6. \A a \in AttributesOf(t) : Row(a.key, "String", a.value) \in rows
  BY <1>3, <1>4
<1>7. ListItems(rows) = {a.value : a \in AttributesOf(t)}
  <2>1. \A a : Row(a.key, "String", a.value).item = a.value
    BY DEF Row
  <2> QED BY <1>5, <1>6, <2>1 DEF ListItems
<1>8. /\ TotalItems(rows) = Cardinality({a \in AttributesOf(t) : a.key # "video"})
      /\ TotalItems(rows) \in Nat
  <2> DEFINE S == {a \in AttributesOf(t) : a.key # "video"}
             T == {r \in rows : r.type \in {"Enum", "String"} /\ r.key \notin OwnFields \cup {"video"}}
             f == [a \in S |-> Row(a.key, "String", a.value)]
  <2>1. IsFiniteSet(S)
    BY <1>2, <1>3, FS_Subset
  <2>2. \A a \in S : f[a] \in T
    BY <1>5, <1>6 DEF Row
  <2>3. \A a, b \in S : f[a] = f[b] => a = b
    <3> SUFFICES ASSUME NEW a \in S, NEW b \in S, f[a] = f[b] PROVE a = b
      OBVIOUS
    <3>1. a.key = b.key /\ a.value = b.value
      BY DEF Row
    <3>2. a = [key |-> a.key, value |-> a.value] /\ b = [key |-> b.key, value |-> b.value]
      BY <1>2, <1>3
    <3> QED BY <3>1, <3>2
  <2>4. \A r \in T : \E a \in S : f[a] = r
    BY <1>5 DEF Row
  <2>5. f \in [S -> T]
    BY <2>2
  <2>6. Cardinality(S) = Cardinality(T) /\ Cardinality(S) \in Nat
    <3> HIDE DEF S, T, f
    <3> QED BY <2>1, <2>3, <2>4, <2>5, OneToOne
  <2> QED BY <2>6 DEF TotalItems
<1>9. Joined(t) = Unnested(rows)
  BY DEF Joined, rows, info
<1>10. \A p \in Joined(t) : p.list = ListItems(rows) /\ p.total = TotalItems(rows) /\ p.locale = NoItem
  <2>1. \A r \in rows : r.locale = NoItem
    BY <1>4 DEF Row
  <2> QED BY <1>9, <2>1 DEF Unnested
<1>11. \A x : (\E p \in Joined(t) : p.item = x) <=> \E r \in rows : r.type # "ImageURL" /\ r.item = x
  <2> DEFINE told(r) == [key |-> r.key, item |-> r.item, locale |-> r.locale, total |-> TotalItems(rows),
                         list |-> ListItems(rows)]
  <2>1. \A p : p \in Joined(t) <=> \E r \in rows : r.type # "ImageURL" /\ p = told(r)
    BY <1>9 DEF Unnested
  <2>2. \A r : told(r).item = r.item
    OBVIOUS
  <2> HIDE DEF told
  <2> QED BY <2>1, <2>2
<1>12. {p.item : p \in Joined(t)} = Searched(t)
  <2>1. Searched(t) = {About[t[1]].prefix, About[t[1]].description, About[t[1]].name, t[2]}
                        \cup {a.value : a \in info.attributes}
                        \cup {m.url : m \in {n \in info.media : n.type # "ImageURL"}}
    BY DEF Searched, info
  <2>2. ASSUME NEW r \in rows, r.type # "ImageURL"
        PROVE  r.item \in Searched(t)
    <3>1. \A key, type, item : Row(key, type, item).type = type /\ Row(key, type, item).item = item
      BY DEF Row
    <3> QED BY <1>4, <2>1, <2>2, <3>1
  <2>3. ASSUME NEW x \in Searched(t)
        PROVE  \E r \in rows : r.type # "ImageURL" /\ r.item = x
    <3>1. \A key, type, item : Row(key, type, item).type = type /\ Row(key, type, item).item = item
      BY DEF Row
    <3>2. CASE x \in {About[t[1]].prefix, About[t[1]].description, About[t[1]].name, t[2]}
      <4>1. /\ Row("prefix", "Prefix", About[t[1]].prefix) \in rows
            /\ Row("description", "String", About[t[1]].description) \in rows
            /\ Row("collectionName", "String", About[t[1]].name) \in rows
            /\ Row("tokenId", "Number", t[2]) \in rows
        BY <1>4
      <4> QED BY <3>1, <3>2, <4>1
    <3>3. ASSUME NEW a \in info.attributes, x = a.value
          PROVE  \E r \in rows : r.type # "ImageURL" /\ r.item = x
      <4>1. own(a) \in rows /\ own(a).type # "ImageURL" /\ own(a).item = x
        BY <1>4, <3>1, <3>3
      <4> QED BY <4>1
    <3>4. ASSUME NEW m \in info.media, m.type # "ImageURL", x = m.url
          PROVE  \E r \in rows : r.type # "ImageURL" /\ r.item = x
      <4>1. Row(m.key, m.type, m.url) \in rows
        BY <1>4
      <4> QED BY <3>1, <3>4, <4>1
    <3> QED BY <2>1, <3>2, <3>3, <3>4
  <2> QED BY <1>11, <2>2, <2>3
<1>13. Joined(t) # {}
  BY <1>12 DEF Searched
<1> QED BY <1>7, <1>8, <1>10, <1>12, <1>13 DEF rows, info

LEMMA OffersInView ==
  \A v : v \in ViewOffers <=> \E k \in Opened : \E p \in Joined(offers[k].token) : v = [offer |-> k, property |-> p]
BY DEF ViewOffers

LEMMA OfferTypes ==
  ASSUME TablesOK, NEW k \in Keys(offers)
  PROVE  /\ k \in Nat \ {0} /\ offers[k] \in Offer /\ offers[k].token \in Tokens
         /\ offers[k].token[1] \in Nat \ {0} /\ offers[k].token[2] \in Nat \ {0}
         /\ offers[k].token = <<offers[k].token[1], offers[k].token[2]>>
         /\ offers[k].price \in Nat /\ offers[k].currency \in Nat /\ offers[k].currency \in Currencies
         /\ PriceInUsdt(k) \in Nat \cup {NoRate}
<1>1. k \in Nat \ {0} /\ offers[k] \in Offer
  BY KeysOf DEF TablesOK
<1>2. offers[k].token \in Tokens /\ offers[k].price \in Nat /\ offers[k].currency \in Currencies
  BY <1>1 DEF Offer
<1>3. offers[k].currency \in Nat
  BY <1>2, CatalogInputs DEF Currencies
<1>4. offers[k].token \in (Nat \ {0}) \X (Nat \ {0})
  BY <1>2, CatalogInputs
<1>5. PriceInUsdt(k) \in Nat \cup {NoRate}
  <2>1. rates[offers[k].currency] \in Nat \cup {NoRate}
    BY <1>2 DEF TablesOK
  <2> QED BY <1>2, <2>1 DEF PriceInUsdt
<1> QED BY <1>1, <1>2, <1>3, <1>4, <1>5

\* A bound that is no number, or 0, bounds nothing.
LEMMA BoundsBound ==
  ASSUME NEW price \in Nat \cup {NoRate}, NEW bound \in Limit
  PROVE  /\ Number(bound) # Absent <=> bound \in Int \ {0}
         /\ Number(bound) # Absent => Number(bound) = bound
         /\ AtMost(price, Number(bound)) <=> (bound \in Int \ {0} => price # NoRate /\ price <= bound)
         /\ AtLeast(price, Number(bound)) <=> (bound \in Int \ {0} => price # NoRate /\ price >= bound)
<1>1. Number(bound) # Absent <=> bound \in Int \ {0}
  BY RequestInputs DEF Number, Limit, Numerals
<1>2. Number(bound) # Absent => Number(bound) = bound
  BY DEF Number
<1>3. price # NoRate <=> price \in Nat
  BY CatalogInputs
<1> QED BY <1>1, <1>2, <1>3 DEF AtMost, AtLeast

\* All that is asked for of an offer that its token's properties do not tell.
LEMMA OfferFits ==
  ASSUME TablesOK, NEW raw \in OffersFilter, ~BoundsClash(raw),
         Junk \notin raw.collectionId \cup raw.currencies \cup raw.numberOfAttributes,
         NEW k \in Keys(offers), NEW p
  PROVE  LET q == ParseOffersFilter(raw)
             o == offers[k]
         IN ApplyCommonFilters([offer |-> k, property |-> p], q) <=>
              /\ Given(raw.collectionId) # {} => o.token[1] \in raw.collectionId
              /\ Given(raw.currencies) # {} => o.currency \in raw.currencies
              /\ Bounded(o.price, raw, "minPrice", "maxPrice")
              /\ Bounded(PriceInUsdt(k), raw, "minUsdtPrice", "maxUsdtPrice")
              /\ raw.seller \in {Absent, Blank, o.seller}
              /\ ByTrait(p, o.token[1], Text(raw.searchText))
              /\ (Text(raw.searchLocale) = Absent \/ p.locale = Text(raw.searchLocale))
              /\ raw.attributes \subseteq p.list
<1> DEFINE q == ParseOffersFilter(raw)
           o == offers[k]
           v == [offer |-> k, property |-> p]
           max == Bound(q.maxPrice, q.maxUsdtPrice)
           min == Bound(q.minPrice, q.minUsdtPrice)
<1>1. /\ q.collectionId = Given(raw.collectionId) /\ q.currencies = Given(raw.currencies)
      /\ q.attributes = raw.attributes
      /\ q.minPrice = Number(raw.minPrice) /\ q.maxPrice = Number(raw.maxPrice)
      /\ q.minUsdtPrice = Number(raw.minUsdtPrice) /\ q.maxUsdtPrice = Number(raw.maxUsdtPrice)
      /\ q.seller = Text(raw.seller) /\ q.searchText = Text(raw.searchText)
      /\ q.searchLocale = Text(raw.searchLocale)
  BY OffersParsed
<1>2. /\ o.token[1] \in Nat \ {0} /\ o.currency \in Nat /\ o.price \in Nat /\ PriceInUsdt(k) \in Nat \cup {NoRate}
      /\ o.token[1] # Blank /\ o.currency # Blank
  BY OfferTypes, RequestInputs
<1>3. /\ raw.minPrice \in Limit /\ raw.maxPrice \in Limit /\ raw.minUsdtPrice \in Limit /\ raw.maxUsdtPrice \in Limit
  BY DEF OffersFilter
<1> HIDE DEF q, o
<1>4. OneOf(o.token[1], q.collectionId) <=> (Given(raw.collectionId) # {} => o.token[1] \in raw.collectionId)
  BY <1>1, <1>2 DEF OneOf, Given
<1>5. OneOf(o.currency, q.currencies) <=> (Given(raw.currencies) # {} => o.currency \in raw.currencies)
  BY <1>1, <1>2 DEF OneOf, Given
<1>6. Is(o.seller, q.seller) <=> raw.seller \in {Absent, Blank, o.seller}
  BY <1>1 DEF Is, Text
<1>7. ~(q.maxPrice # Absent /\ q.maxUsdtPrice # Absent) /\ ~(q.minPrice # Absent /\ q.minUsdtPrice # Absent)
  BY <1>1, <1>2, <1>3, BoundsBound DEF BoundsClash
<1>8. /\ (q.maxPrice # Absent => AtMost(o.price, max)) <=> AtMost(o.price, q.maxPrice)
      /\ (q.minPrice # Absent => AtLeast(o.price, min)) <=> AtLeast(o.price, q.minPrice)
      /\ (q.maxUsdtPrice # Absent => AtMost(PriceInUsdt(k), max)) <=> AtMost(PriceInUsdt(k), q.maxUsdtPrice)
      /\ (q.minUsdtPrice # Absent => AtLeast(PriceInUsdt(k), min)) <=> AtLeast(PriceInUsdt(k), q.minUsdtPrice)
  BY <1>7 DEF Bound, AtMost, AtLeast
<1>9. /\ AtMost(o.price, q.maxPrice) /\ AtLeast(o.price, q.minPrice) <=> Bounded(o.price, raw, "minPrice", "maxPrice")
      /\ AtMost(PriceInUsdt(k), q.maxUsdtPrice) /\ AtLeast(PriceInUsdt(k), q.minUsdtPrice)
           <=> Bounded(PriceInUsdt(k), raw, "minUsdtPrice", "maxUsdtPrice")
  <2>1. ASSUME NEW price \in Nat \cup {NoRate}, NEW min0 \in Limit, NEW max0 \in Limit
        PROVE  AtMost(price, Number(max0)) /\ AtLeast(price, Number(min0)) <=>
                 /\ max0 \in Int \ {0} => price # NoRate /\ price <= max0
                 /\ min0 \in Int \ {0} => price # NoRate /\ price >= min0
    BY BoundsBound
  <2>2. /\ AtMost(o.price, q.maxPrice) /\ AtLeast(o.price, q.minPrice) <=>
             /\ raw.maxPrice \in Int \ {0} => o.price # NoRate /\ o.price <= raw.maxPrice
             /\ raw.minPrice \in Int \ {0} => o.price # NoRate /\ o.price >= raw.minPrice
        /\ AtMost(PriceInUsdt(k), q.maxUsdtPrice) /\ AtLeast(PriceInUsdt(k), q.minUsdtPrice) <=>
             /\ raw.maxUsdtPrice \in Int \ {0} => PriceInUsdt(k) # NoRate /\ PriceInUsdt(k) <= raw.maxUsdtPrice
             /\ raw.minUsdtPrice \in Int \ {0} => PriceInUsdt(k) # NoRate /\ PriceInUsdt(k) >= raw.minUsdtPrice
    <3>1. AtMost(o.price, Number(raw.maxPrice)) /\ AtLeast(o.price, Number(raw.minPrice)) <=>
             /\ raw.maxPrice \in Int \ {0} => o.price # NoRate /\ o.price <= raw.maxPrice
             /\ raw.minPrice \in Int \ {0} => o.price # NoRate /\ o.price >= raw.minPrice
      BY <1>2, <1>3, <2>1
    <3>2. AtMost(PriceInUsdt(k), Number(raw.maxUsdtPrice)) /\ AtLeast(PriceInUsdt(k), Number(raw.minUsdtPrice)) <=>
             /\ raw.maxUsdtPrice \in Int \ {0} => PriceInUsdt(k) # NoRate /\ PriceInUsdt(k) <= raw.maxUsdtPrice
             /\ raw.minUsdtPrice \in Int \ {0} => PriceInUsdt(k) # NoRate /\ PriceInUsdt(k) >= raw.minUsdtPrice
      BY <1>2, <1>3, <2>1
    <3> QED BY <1>1, <3>1, <3>2
  <2> QED BY <2>2 DEF Bounded
<1>10. v.offer = k /\ v.property = p
  OBVIOUS
<1>11. ApplyCommonFilters(v, q) <=>
         /\ OneOf(o.token[1], q.collectionId)
         /\ q.maxPrice # Absent => AtMost(o.price, max)
         /\ q.minPrice # Absent => AtLeast(o.price, min)
         /\ q.maxUsdtPrice # Absent => AtMost(PriceInUsdt(k), max)
         /\ q.minUsdtPrice # Absent => AtLeast(PriceInUsdt(k), min)
         /\ OneOf(o.currency, q.currencies)
         /\ Is(o.seller, q.seller)
         /\ ByTrait(p, o.token[1], Text(raw.searchText))
         /\ (Text(raw.searchLocale) = Absent \/ p.locale = Text(raw.searchLocale))
         /\ raw.attributes \subseteq p.list
  <2> HIDE DEF v
  <2> QED BY <1>1, <1>10 DEF ApplyCommonFilters, ByLocale, o
<1> HIDE DEF v, max, min
<1>12. ApplyCommonFilters(v, q) <=>
              /\ Given(raw.collectionId) # {} => o.token[1] \in raw.collectionId
              /\ Given(raw.currencies) # {} => o.currency \in raw.currencies
              /\ Bounded(o.price, raw, "minPrice", "maxPrice")
              /\ Bounded(PriceInUsdt(k), raw, "minUsdtPrice", "maxUsdtPrice")
              /\ raw.seller \in {Absent, Blank, o.seller}
              /\ ByTrait(p, o.token[1], Text(raw.searchText))
              /\ (Text(raw.searchLocale) = Absent \/ p.locale = Text(raw.searchLocale))
              /\ raw.attributes \subseteq p.list
  BY <1>4, <1>5, <1>6, <1>8, <1>9, <1>11
<1> QED BY ONLY <1>12 DEF q, o, v

\* A list has the open offers that are asked for.
LEMMA ListedFit ==
  ASSUME TablesOK, NEW raw \in OffersFilter, ~BoundsClash(raw),
         Junk \notin raw.collectionId \cup raw.currencies \cup raw.numberOfAttributes
  PROVE  FilterItems(ParseOffersFilter(raw)) = {k \in Opened : Fits(k, raw)}
<1> DEFINE q == ParseOffersFilter(raw)
           view(k, p) == [offer |-> k, property |-> p]
           fits(k, p) == ApplyCommonFilters(view(k, p), q) /\ ByNumberOfAttributes(view(k, p), q)
<1>1. q.numberOfAttributes = Given(raw.numberOfAttributes)
  BY OffersParsed
<1> HIDE DEF q
<1>2. ASSUME NEW k
      PROVE  k \in FilterItems(q) <=> k \in Opened /\ \E p \in Joined(offers[k].token) : fits(k, p)
  <2>1. \A j, p : view(j, p).offer = j
    OBVIOUS
  <2> HIDE DEF view
  <2>2. \A v : v \in ViewOffers <=> \E j \in Opened : \E p \in Joined(offers[j].token) : v = view(j, p)
    BY OffersInView DEF view
  <2> QED BY <2>1, <2>2 DEF FilterItems, Distinct
<1>3. ASSUME NEW k \in Opened
      PROVE  (\E p \in Joined(offers[k].token) : fits(k, p)) <=> Fits(k, raw)
  <2> DEFINE o == offers[k]
             t == o.token
             ofOffer == /\ Given(raw.collectionId) # {} => t[1] \in raw.collectionId
                        /\ Given(raw.currencies) # {} => o.currency \in raw.currencies
                        /\ Bounded(o.price, raw, "minPrice", "maxPrice")
                        /\ Bounded(PriceInUsdt(k), raw, "minUsdtPrice", "maxUsdtPrice")
                        /\ raw.seller \in {Absent, Blank, o.seller}
             number == Cardinality({a \in AttributesOf(t) : a.key # "video"})
             numbered == Given(raw.numberOfAttributes) # {} => index[t] # NoInfo /\ number \in raw.numberOfAttributes
             has == \A value \in raw.attributes : \E a \in AttributesOf(t) : a.value = value
             local == raw.searchLocale \in {Absent, Blank}
  <2>1. k \in Keys(offers) /\ t \in Tokens /\ t[1] \in Nat
    BY OfferTypes DEF Opened
  <2>2. /\ raw.searchText \in Values \cup {Absent} /\ raw.searchLocale \in Values \cup {Absent}
        /\ raw.numberOfAttributes \subseteq Numerals
    BY DEF OffersFilter, Single
  <2>3. Fits(k, raw) <=> ofOffer /\ Tells(t, raw.searchText) /\ local /\ numbered /\ has
    BY DEF Fits
  <2>4. ASSUME NEW p
        PROVE  fits(k, p) <=> /\ ofOffer /\ ByTrait(p, t[1], Text(raw.searchText))
                              /\ (Text(raw.searchLocale) = Absent \/ p.locale = Text(raw.searchLocale))
                              /\ raw.attributes \subseteq p.list
                              /\ OneOf(p.total, Given(raw.numberOfAttributes))
    <3>1. ByNumberOfAttributes(view(k, p), q) <=> OneOf(p.total, Given(raw.numberOfAttributes))
      BY <1>1 DEF ByNumberOfAttributes
    <3>2. ApplyCommonFilters(view(k, p), q) <=> /\ ofOffer /\ ByTrait(p, t[1], Text(raw.searchText))
                              /\ (Text(raw.searchLocale) = Absent \/ p.locale = Text(raw.searchLocale))
                              /\ raw.attributes \subseteq p.list
      BY <2>1, OfferFits DEF q
    <3> HIDE DEF ofOffer, view
    <3> QED BY <3>1, <3>2
  <2>5. ASSUME NEW p \in Joined(t)
        PROVE  /\ raw.attributes \subseteq p.list <=> has
               /\ (Text(raw.searchLocale) = Absent \/ p.locale = Text(raw.searchLocale)) <=> local
               /\ OneOf(p.total, Given(raw.numberOfAttributes)) <=> numbered
    <3>1. /\ p.locale = NoItem
          /\ p.list = {a.value : a \in AttributesOf(t)}
          /\ p.total = IF index[t] = NoInfo THEN NoItem ELSE number
          /\ number \in Nat
      <4>1. CASE index[t] = NoInfo
        <5>1. p = NoProperty /\ AttributesOf(t) = {} /\ number = 0
          BY <4>1, FS_EmptySet DEF Joined, AttributesOf
        <5> QED BY <4>1, <5>1 DEF NoProperty
      <4>2. CASE index[t] # NoInfo
        BY <2>1, <4>2, RowsTell
      <4> QED BY <4>1, <4>2
    <3> HIDE DEF number
    <3>2. NoItem \notin Int \cup Values \cup {Junk, Blank} /\ Blank \notin Int
      BY CatalogInputs, RequestInputs
    <3>3. Text(raw.searchLocale) # NoItem \/ Text(raw.searchLocale) = Absent
      BY <2>2, <3>2 DEF Text
    <3>4. (Text(raw.searchLocale) = Absent \/ p.locale = Text(raw.searchLocale)) <=> local
      BY <3>1, <3>3 DEF Text
    <3>5. OneOf(p.total, Given(raw.numberOfAttributes)) <=> numbered
      BY <2>2, <3>1, <3>2 DEF OneOf, Given, Numerals
    <3> QED BY <3>1, <3>4, <3>5
  <2>6. Joined(t) # {}
    <3>1. CASE index[t] = NoInfo
      BY <3>1 DEF Joined
    <3>2. CASE index[t] # NoInfo
      BY <2>1, <3>2, RowsTell
    <3> QED BY <3>1, <3>2
  <2>7. (\E p \in Joined(t) : ByTrait(p, t[1], Text(raw.searchText))) <=> Tells(t, raw.searchText)
    <3>1. CASE raw.searchText \in {Absent, Blank}
      BY <2>6, <3>1 DEF Text, ByTrait, Tells
    <3>2. CASE raw.searchText \notin {Absent, Blank}
      <4> DEFINE text == raw.searchText
                 matches(item) == item = text \/ <<text, item>> \in Within
      <4>1. Text(text) = text /\ text # NoItem
        BY <2>2, <3>2, CatalogInputs DEF Text
      <4>2. \A p : ByTrait(p, t[1], text) <=> matches(p.item) \/ text = t[1]
        BY <2>1, <3>2 DEF ByTrait, Contains
      <4>3. Tells(t, text) <=> text = t[1] \/ \E item \in Searched(t) : matches(item)
        BY <3>2 DEF Tells
      <4>4. CASE index[t] = NoInfo
        <5>1. Joined(t) = {NoProperty} /\ Searched(t) = {} /\ ~matches(NoProperty.item)
          <6>1. <<text, NoItem>> \notin Within
            BY CatalogInputs
          <6>2. Joined(t) = {NoProperty} /\ Searched(t) = {} /\ NoProperty.item = NoItem
            BY <4>4 DEF Joined, Searched, NoProperty
          <6> QED BY <4>1, <6>1, <6>2
        <5> HIDE DEF matches
        <5> QED BY <4>1, <4>2, <4>3, <5>1
      <4>5. CASE index[t] # NoInfo
        <5>1. {p.item : p \in Joined(t)} = Searched(t)
          BY <2>1, <4>5, RowsTell
        <5> HIDE DEF matches
        <5> QED BY <2>6, <4>1, <4>2, <4>3, <5>1
      <4> QED BY <4>4, <4>5
    <3> QED BY <3>1, <3>2
  <2> HIDE DEF ofOffer, numbered, has, local, fits, t
  <2> QED BY <2>3, <2>4, <2>5, <2>6, <2>7 DEF t
<1> HIDE DEF fits
<1>4. FilterItems(q) = {k \in Opened : Fits(k, raw)}
  BY <1>2, <1>3
<1> QED BY <1>4 DEF q

\* What is told of an offer, whichever others it is listed with.
ToldOf(k) ==
  FromOffersEntity(k, SearchInProperties({offers[k].token}), CollectionsOf({offers[k].token}))

LEMMA ToldAlike ==
  ASSUME TablesOK, NEW listed \in SUBSET Keys(offers)
  PROVE  ParseItems(listed) = {ToldOf(k) : k \in listed}
<1> DEFINE found == SearchInProperties({offers[k].token : k \in listed})
           collections == CollectionsOf({offers[k].token : k \in listed})
<1>1. ASSUME NEW k \in listed
      PROVE  FromOffersEntity(k, found, collections) = ToldOf(k)
  <2> DEFINE t == offers[k].token
             alone == SearchInProperties({t})
             its == CollectionsOf({t})
  <2>1. ASSUME NEW T, t \in T
        PROVE  /\ Description(t, SearchInProperties(T)) = IF index[t] # NoInfo THEN index[t] ELSE NoInfo
               /\ Found(t[1], CollectionsOf(T), NoItem) = IF t[1] # 0 THEN About[t[1]] ELSE NoItem
    <3>1. Description(t, SearchInProperties(T)) = IF index[t] # NoInfo THEN index[t] ELSE NoInfo
      BY <2>1 DEF Description, Found, SearchInProperties
    <3>2. Found(t[1], CollectionsOf(T), NoItem) = IF t[1] # 0 THEN About[t[1]] ELSE NoItem
      BY <2>1 DEF Found, CollectionsOf
    <3> QED BY <3>1, <3>2
  <2>2. /\ Description(t, found) = Description(t, alone)
        /\ Found(t[1], collections, NoItem) = Found(t[1], its, NoItem)
    BY <2>1
  <2> HIDE DEF found, collections, alone, its
  <2>3. FromOffersEntity(k, found, collections) = FromOffersEntity(k, alone, its)
    BY <2>2 DEF FromOffersEntity
  <2> QED BY <2>3 DEF ToldOf, alone, its
<1>2. ParseItems(listed) = {FromOffersEntity(k, found, collections) : k \in listed}
  BY DEF ParseItems
<1> HIDE DEF found, collections
<1> QED BY <1>1, <1>2

LEMMA ToldDate == \A k : ToldOf(k).creationAt = k
BY DEF ToldOf, FromOffersEntity

\* Each is told once.
LEMMA ToldOnce ==
  ASSUME TablesOK, NEW listed \in SUBSET Keys(offers)
  PROVE  /\ {row.creationAt : row \in ParseItems(listed)} = listed
         /\ Cardinality(ParseItems(listed)) = Cardinality(listed) /\ Cardinality(listed) \in Nat
<1>1. {row.creationAt : row \in ParseItems(listed)} = listed
  BY ToldAlike, ToldDate
<1>2. IsFiniteSet(listed)
  <2>1. Len(offers) \in Nat
    BY LenProperties DEF TablesOK
  <2>2. IsFiniteSet(Keys(offers))
    BY <2>1, FS_Interval DEF Keys
  <2> QED BY <2>2, FS_Subset
<1> DEFINE f == [k \in listed |-> ToldOf(k)]
<1>3. /\ f \in [listed -> ParseItems(listed)]
      /\ \A j, k \in listed : f[j] = f[k] => j = k
      /\ \A row \in ParseItems(listed) : \E k \in listed : f[k] = row
  BY ToldAlike, ToldDate
<1>4. Cardinality(ParseItems(listed)) = Cardinality(listed) /\ Cardinality(listed) \in Nat
  <2> HIDE DEF f
  <2> QED BY <1>2, <1>3, OneToOne
<1> QED BY <1>1, <1>4

LEMMA PropertiesThere == ASSUME TablesOK, NEW k \in Keys(offers) PROVE Joined(offers[k].token) # {}
<1>1. CASE index[offers[k].token] = NoInfo
  BY <1>1 DEF Joined
<1>2. CASE index[offers[k].token] # NoInfo
  BY <1>2, OfferTypes, RowsTell
<1> QED BY <1>1, <1>2

LEMMA AloneTold == TablesOK => ToldAlone
<1> SUFFICES ASSUME TablesOK PROVE ToldAlone
  OBVIOUS
<1> DEFINE told(ks) == {row \in ParseItems(Opened) : row.creationAt \in ks}
           orNone(rows) == IF rows = {} THEN {NoSuchOffer} ELSE rows
<1>1. Opened \subseteq Keys(offers)
  BY DEF Opened
<1>2. ASSUME NEW ks
      PROVE  told(ks) = {ToldOf(k) : k \in Opened \cap ks}
  BY <1>1, ToldAlike, ToldDate
<1>3. ASSUME NEW where, NEW ks, FilterByOne(where) = Opened \cap ks
      PROVE  GetOne(where) = orNone(told(ks))
  <2>1. \A k \in Opened : ParseItems({k}) = {ToldOf(k)}
    <3> TAKE k \in Opened
    <3>1. ParseItems({k}) = {ToldOf(j) : j \in {k}}
      BY <1>1, ToldAlike
    <3> QED BY <3>1
  <2>2. UNION {ParseItems({k}) : k \in Opened \cap ks} = {ToldOf(k) : k \in Opened \cap ks}
    <3>1. \A k \in Opened \cap ks : ParseItems({k}) = {ToldOf(k)}
      BY <2>1
    <3>2. \A row : row \in UNION {ParseItems({k}) : k \in Opened \cap ks}
                     <=> \E k \in Opened \cap ks : row \in ParseItems({k})
      OBVIOUS
    <3>3. \A row : row \in {ToldOf(k) : k \in Opened \cap ks} <=> \E k \in Opened \cap ks : row = ToldOf(k)
      OBVIOUS
    <3>4. \A row : row \in UNION {ParseItems({k}) : k \in Opened \cap ks}
                     <=> row \in {ToldOf(k) : k \in Opened \cap ks}
      <4> TAKE row
      <4>1. (\E k \in Opened \cap ks : row \in ParseItems({k})) <=> \E k \in Opened \cap ks : row = ToldOf(k)
        BY <3>1
      <4> QED BY <3>2, <3>3, <4>1, Zenon
    <3> QED BY <3>4
  <2> HIDE DEF told
  <2>3. Opened \cap ks = {} <=> told(ks) = {}
    BY <1>2
  <2> QED BY <1>2, <1>3, <2>2, <2>3 DEF GetOne
<1> DEFINE holds(where, k) ==
             CASE where.offerId # Absent -> k = where.offerId
               [] where.offerId = Absent /\ 0 \notin {where.token[1], where.token[2]} -> offers[k].token = where.token
               [] OTHER -> TRUE
<1>4. ASSUME NEW where
      PROVE  FilterByOne(where) = {k \in Opened : holds(where, k)}
  <2>1. FilterByOne(where) = {v.offer : v \in {w \in ViewOffers : holds(where, w.offer)}}
    BY DEF FilterByOne, Distinct
  <2> HIDE DEF holds
  <2>2. \A k \in Opened : \E v \in ViewOffers : v.offer = k
    <3> TAKE k \in Opened
    <3>1. PICK p \in Joined(offers[k].token) : TRUE
      BY <1>1, PropertiesThere
    <3>2. [offer |-> k, property |-> p] \in ViewOffers
      BY <3>1, OffersInView
    <3> QED BY <3>2
  <2>3. \A v \in ViewOffers : v.offer \in Opened
    BY OffersInView
  <2> QED BY <2>1, <2>2, <2>3
<1>5. ASSUME NEW k \in Keys(offers)
      PROVE  GetOne([offerId |-> k, token |-> <<0, 0>>]) = orNone(told({k}))
  <2> DEFINE where == [offerId |-> k, token |-> <<0, 0>>]
  <2>1. k # Absent /\ where.offerId = k
    BY OfferTypes, RequestInputs
  <2> HIDE DEF where
  <2>2. \A j : holds(where, j) <=> j = k
    BY <2>1
  <2> HIDE DEF holds, told, orNone
  <2>3. FilterByOne(where) = Opened \cap {k}
    BY <1>4, <2>2
  <2> QED BY <1>3, <2>3 DEF where
<1>6. ASSUME NEW t \in Tokens
      PROVE  GetOne([offerId |-> Absent, token |-> t]) = orNone(told({k \in Keys(offers) : offers[k].token = t}))
  <2> DEFINE where == [offerId |-> Absent, token |-> t]
             ks == {k \in Keys(offers) : offers[k].token = t}
  <2>1. where.offerId = Absent /\ where.token = t /\ t[1] # 0 /\ t[2] # 0
    BY CatalogInputs
  <2> HIDE DEF where
  <2>2. \A j : holds(where, j) <=> offers[j].token = t
    BY <2>1
  <2> HIDE DEF holds, told, orNone
  <2>3. FilterByOne(where) = Opened \cap ks
    BY <1>1, <1>4, <2>2
  <2> HIDE DEF ks
  <2>4. GetOne(where) = orNone(told(ks))
    BY <1>3, <2>3
  <2> QED BY <2>4 DEF where, ks
<1> QED BY <1>5, <1>6 DEF ToldAlone

\* A list that can be asked for at all, and nothing that is not.
LEMMA OffersAnswered ==
  ASSUME TablesOK, NEW raw \in OffersFilter
  PROVE  /\ Malformed(raw) => GetOffers(raw) = Refused
         /\ ~Malformed(raw) => GetOffers(raw) = ParseItems(FilterItems(ParseOffersFilter(raw)))
<1> DEFINE q == ParseOffersFilter(raw)
<1>1. CASE Junk \in raw.collectionId \cup raw.currencies \cup raw.numberOfAttributes
  BY <1>1, OffersParsed DEF GetOffers, Malformed
<1>2. CASE Junk \notin raw.collectionId \cup raw.currencies \cup raw.numberOfAttributes
  <2>1. q # Refused /\ (NeedsCollection(q) <=> Malformed(raw))
    BY <1>2, OffersParsed DEF NeedsCollection, Malformed
  <2> HIDE DEF q
  <2>2. GetOffers(raw) = IF q = Refused THEN Refused ELSE IF NeedsCollection(q) THEN Refused
                         ELSE ParseItems(FilterItems(q))
    BY DEF GetOffers, q
  <2>3. /\ Malformed(raw) => GetOffers(raw) = Refused
        /\ ~Malformed(raw) => GetOffers(raw) = ParseItems(FilterItems(q))
    BY <2>1, <2>2
  <2> QED BY <2>3 DEF q
<1> QED BY <1>1, <1>2

\* Of all requests for offers, but for those that bound both prices.
EveryOfferListIsExact == ToldAlone /\ \A raw \in OffersFilter : ~BoundsClash(raw) => OffersFit(raw)

LEMMA OffersExact == TablesOK => EveryOfferListIsExact
<1> SUFFICES ASSUME TablesOK, NEW raw \in OffersFilter, ~BoundsClash(raw)
             PROVE  OffersFit(raw)
  BY AloneTold DEF EveryOfferListIsExact
<1>1. CASE Malformed(raw)
  BY <1>1, OffersAnswered DEF OffersFit
<1>2. CASE ~Malformed(raw)
  <2> DEFINE fitting == {k \in Opened : Fits(k, raw)}
  <2>1. GetOffers(raw) = ParseItems(fitting)
    BY <1>2, OffersAnswered, ListedFit DEF Malformed
  <2>2. fitting \in SUBSET Keys(offers)
    BY DEF Opened
  <2> HIDE DEF fitting
  <2>3. /\ {row.creationAt : row \in GetOffers(raw)} = fitting
        /\ Cardinality(GetOffers(raw)) = Cardinality(fitting)
    BY <2>1, <2>2, ToldOnce
  <2> QED BY <1>2, <2>3 DEF OffersFit, fitting
<1> QED BY <1>1, <1>2

\* Whatever a well formed request asks for, it is answered with the open offers that
\* fit it, each once, and one that is asked for alone with the same.
THEOREM OfferListsHold == Spec => [](EveryOfferListIsExact /\ OfferListsAreExact)
<1>1. TablesOK => EveryOfferListIsExact /\ OfferListsAreExact
  BY OffersExact, RequestsAreTyped DEF EveryOfferListIsExact, OfferListsAreExact
<1> QED BY <1>1, TablesHold, PTL

-----------------------------------------------------------------------------
(* Counts by number of attributes.                                         *)

\* The count for a number is of what is paired with it.
LEMMA AmountOf ==
  ASSUME NEW pairs, \A p \in pairs : p = <<p[1], p[2]>>,
         NEW n \in Nat, NEW S, IsFiniteSet(S), \A x : <<n, x>> \in pairs <=> x \in S
  PROVE  {row \in Amounts(pairs) : row.numberOfAttributes = n} =
           IF Cardinality(S) = 0 THEN {} ELSE {[numberOfAttributes |-> n, amount |-> Cardinality(S)]}
<1> DEFINE T == {p \in pairs : p[1] = n}
           f == [x \in S |-> <<n, x>>]
           amount(m) == Cardinality({p \in pairs : p[1] = m})
<1>1. Cardinality(T) = Cardinality(S)
  <2>1. f \in [S -> T] /\ \A x, y \in S : f[x] = f[y] => x = y
    OBVIOUS
  <2>2. \A p \in T : \E x \in S : f[x] = p
    <3> TAKE p \in T
    <3>1. p = <<n, p[2]>>
      OBVIOUS
    <3>2. p[2] \in S /\ f[p[2]] = p
      BY <3>1
    <3> QED BY <3>2
  <2> HIDE DEF T, f
  <2> QED BY <2>1, <2>2, OneToOne
<1>2. n # NoItem
  BY CatalogInputs
<1>3. (\E p \in pairs : p[1] = n) <=> Cardinality(S) # 0
  <2>1. Cardinality(S) = 0 <=> S = {}
    BY FS_EmptySet
  <2>2. (\E p \in pairs : p[1] = n) <=> S # {}
    <3>1. ASSUME NEW p \in pairs, p[1] = n
          PROVE  S # {}
      <4>1. p = <<n, p[2]>>
        BY <3>1
      <4> QED BY <4>1
    <3>2. ASSUME NEW x \in S
          PROVE  \E p \in pairs : p[1] = n
      <4>1. <<n, x>> \in pairs
        OBVIOUS
      <4> QED BY <4>1
    <3> QED BY <3>1, <3>2
  <2> QED BY <2>1, <2>2
<1>4. \A row : row \in Amounts(pairs) <=>
        \E m : m # NoItem /\ (\E p \in pairs : p[1] = m) /\ row = [numberOfAttributes |-> m, amount |-> amount(m)]
  BY DEF Amounts
<1>5. amount(n) = Cardinality(S)
  BY <1>1
<1> HIDE DEF amount, T, f
<1>6. \A row : row \in Amounts(pairs) /\ row.numberOfAttributes = n <=>
        Cardinality(S) # 0 /\ row = [numberOfAttributes |-> n, amount |-> Cardinality(S)]
  <2> TAKE row
  <2>1. \A m : [numberOfAttributes |-> m, amount |-> amount(m)].numberOfAttributes = m
    OBVIOUS
  <2>2. ASSUME row \in Amounts(pairs), row.numberOfAttributes = n
        PROVE  Cardinality(S) # 0 /\ row = [numberOfAttributes |-> n, amount |-> Cardinality(S)]
    BY <1>3, <1>4, <1>5, <2>1, <2>2
  <2>3. ASSUME Cardinality(S) # 0, row = [numberOfAttributes |-> n, amount |-> Cardinality(S)]
        PROVE  row \in Amounts(pairs) /\ row.numberOfAttributes = n
    BY <1>2, <1>3, <1>4, <1>5, <2>3
  <2> QED BY <2>2, <2>3
<1> QED BY <1>6

\* Of all requests that the attributes of offers can be asked for with.
EveryCountAddsUp == \A raw \in OffersFilter : ~Malformed(raw) => CountsAddUp(raw)

LEMMA OfferCountsAdd == TablesOK => EveryCountAddsUp
<1> SUFFICES ASSUME TablesOK, NEW raw \in OffersFilter, ~Malformed(raw)
             PROVE  CountsAddUp(raw)
  BY DEF EveryCountAddsUp
<1> DEFINE q == ParseOffersFilter(raw)
           rows == {v \in ViewOffers : ApplyCommonFilters(v, q)}
           numbered(n) == [raw EXCEPT !.numberOfAttributes = {n}]
           listed(n) == Cardinality(GetOffers(numbered(n)))
           counts == GetOffersAttributes(raw).attributesCount
<1>1. counts = Amounts(Pairs(rows))
  <2>1. q # Refused /\ ~NeedsCollection(q)
    BY OffersParsed DEF NeedsCollection, Malformed
  <2>2. GetOffersAttributes(raw) = FetchAttributes(q)
    BY <2>1 DEF GetOffersAttributes
  <2> QED BY <2>2 DEF FetchAttributes, AttributesCount
<1>2. ASSUME NEW n \in 0 .. MaxNumber
      PROVE  {row \in counts : row.numberOfAttributes = n} =
               IF listed(n) = 0 THEN {} ELSE {[numberOfAttributes |-> n, amount |-> listed(n)]}
  <2> n \in Nat
    BY CatalogInputs
  <2> DEFINE S == FilterItems(ParseOffersFilter(numbered(n)))
  <2>1. numbered(n) \in OffersFilter /\ ~Malformed(numbered(n))
    <3>1. {n} \in SUBSET Numerals /\ Junk # n
      BY RequestInputs DEF Numerals
    <3>2. numbered(n) \in OffersFilter
      BY <3>1 DEF OffersFilter
    <3>3. ~Malformed(numbered(n))
      BY <3>1 DEF Malformed, OffersFilter
    <3> QED BY <3>2, <3>3
  <2>2. \A v : ApplyCommonFilters(v, ParseOffersFilter(numbered(n))) <=> ApplyCommonFilters(v, q)
    <3> DEFINE qn == ParseOffersFilter(numbered(n))
    <3>1. /\ numbered(n).collectionId = raw.collectionId /\ numbered(n).currencies = raw.currencies
          /\ numbered(n).attributes = raw.attributes /\ numbered(n).minPrice = raw.minPrice
          /\ numbered(n).maxPrice = raw.maxPrice /\ numbered(n).minUsdtPrice = raw.minUsdtPrice
          /\ numbered(n).maxUsdtPrice = raw.maxUsdtPrice /\ numbered(n).seller = raw.seller
          /\ numbered(n).searchText = raw.searchText /\ numbered(n).searchLocale = raw.searchLocale
      BY DEF OffersFilter
    <3> HIDE DEF numbered
    <3>2. /\ qn.collectionId = q.collectionId /\ qn.currencies = q.currencies
          /\ qn.attributes = q.attributes /\ qn.minPrice = q.minPrice /\ qn.maxPrice = q.maxPrice
          /\ qn.minUsdtPrice = q.minUsdtPrice /\ qn.maxUsdtPrice = q.maxUsdtPrice
          /\ qn.seller = q.seller /\ qn.searchText = q.searchText /\ qn.searchLocale = q.searchLocale
      BY <2>1, <3>1, OffersParsed DEF Malformed
    <3> HIDE DEF q, qn
    <3>3. \A v : ApplyCommonFilters(v, qn) <=> ApplyCommonFilters(v, q)
      BY <3>2 DEF ApplyCommonFilters, ByLocale
    <3> QED BY <3>3 DEF qn
  <2>3. \A v : ByNumberOfAttributes(v, ParseOffersFilter(numbered(n))) <=> v.property.total = n
    <3>1. ParseOffersFilter(numbered(n)).numberOfAttributes = {n}
      <4>1. numbered(n).numberOfAttributes = {n} /\ n # Blank
        BY RequestInputs DEF OffersFilter
      <4> HIDE DEF numbered
      <4> QED BY <2>1, <4>1, OffersParsed DEF Malformed, Given
    <3> QED BY <3>1 DEF ByNumberOfAttributes, OneOf
  <2>4. \A k : k \in S <=> <<n, k>> \in Pairs(rows)
    <3> HIDE DEF numbered
    <3>1. \A k : k \in S <=> \E v \in ViewOffers : ApplyCommonFilters(v, q) /\ v.property.total = n /\ v.offer = k
      BY <2>2, <2>3 DEF FilterItems, Distinct
    <3>2. \A k : <<n, k>> \in Pairs(rows) <=> \E v \in rows : <<n, k>> = <<v.property.total, v.offer>>
      BY DEF Pairs
    <3> QED BY <3>1, <3>2
  <2>5. S \in SUBSET Keys(offers)
    <3>1. \A v \in ViewOffers : v.offer \in Opened
      BY OffersInView
    <3> QED BY <3>1 DEF FilterItems, Distinct, Opened
  <2>6. listed(n) = Cardinality(S)
    <3>1. GetOffers(numbered(n)) = ParseItems(S)
      BY <2>1, OffersAnswered
    <3> HIDE DEF S, numbered
    <3> QED BY <2>5, <3>1, ToldOnce
  <2>7. IsFiniteSet(S)
    <3>1. Len(offers) \in Nat
      BY LenProperties DEF TablesOK
    <3>2. IsFiniteSet(Keys(offers))
      BY <3>1, FS_Interval DEF Keys
    <3> QED BY <2>5, <3>2, FS_Subset
  <2>8. \A p \in Pairs(rows) : p = <<p[1], p[2]>>
    BY DEF Pairs
  <2> HIDE DEF S, listed, counts, rows
  <2> QED BY <1>1, <2>4, <2>6, <2>7, <2>8, AmountOf
<1> HIDE DEF listed, counts
<1>3. CountsAre(counts, listed)
  BY <1>2 DEF CountsAre
<1> QED BY <1>3 DEF CountsAddUp, counts, listed

\* The counts by number of attributes are those of the lists that are asked for with
\* that number, whatever else they are asked for.
THEOREM AttributeCountsHold == Spec => [](EveryCountAddsUp /\ AttributeCountsAddUp)
<1>1. TablesOK => EveryCountAddsUp /\ AttributeCountsAddUp
  BY OfferCountsAdd, RequestsAreTyped DEF EveryCountAddsUp, AttributeCountsAddUp
<1> QED BY <1>1, TablesHold, PTL

-----------------------------------------------------------------------------
(* Lists of tokens.                                                        *)

TokensMalformed(raw) ==
  \/ Junk \in raw.tokenId \cup raw.numberOfAttributes
  \/ Number(raw.maxUsdPrice) # Absent \/ Number(raw.minUsdPrice) # Absent

\* What the pipe makes of a request for tokens that can be answered.
LEMMA TokensParsed ==
  ASSUME NEW raw \in TokensViewFilter, ~TokensMalformed(raw)
  PROVE  LET q == ParseTokensFilter(raw)
         IN /\ q # Refused
            /\ q.tokenId = Given(raw.tokenId) /\ q.numberOfAttributes = Given(raw.numberOfAttributes)
            /\ q.attributes = raw.attributes
            /\ q.minPrice = Number(raw.minPrice) /\ q.maxPrice = Number(raw.maxPrice)
            /\ q.minUsdPrice = Absent /\ q.maxUsdPrice = Absent
            /\ q.searchText = Text(raw.searchText) /\ q.searchLocale = Text(raw.searchLocale)
            /\ q.address = Text(raw.address)
            /\ q.accessoryType = raw.accessoryType /\ q.saleType = raw.saleType
<1> DEFINE lists == {"tokenId", "numberOfAttributes"}
           numbers == {"maxPrice", "minPrice", "maxUsdPrice", "minUsdPrice"}
           texts == {"address", "searchText", "searchLocale"}
           q == ParseTokensFilter(raw)
           fields == lists \cup numbers \cup texts \cup {"attributes", "accessoryType", "saleType"}
<1>1. DOMAIN raw = fields
  BY DEF TokensViewFilter
<1>2. \A f \in lists : ~Unreadable(raw[f])
  BY DEF Unreadable, TokensMalformed
<1>3. q = [f \in fields |-> CASE f \in lists -> Ids(raw[f])
                              [] f \in numbers -> Number(raw[f])
                              [] f \in texts -> Text(raw[f])
                              [] OTHER -> raw[f]]
  BY <1>1, <1>2 DEF ParseTokensFilter, Parsed
<1>4. /\ q.tokenId = Given(raw.tokenId) /\ q.numberOfAttributes = Given(raw.numberOfAttributes)
      /\ q.attributes = raw.attributes
      /\ q.minPrice = Number(raw.minPrice) /\ q.maxPrice = Number(raw.maxPrice)
      /\ q.minUsdPrice = Number(raw.minUsdPrice) /\ q.maxUsdPrice = Number(raw.maxUsdPrice)
      /\ q.searchText = Text(raw.searchText) /\ q.searchLocale = Text(raw.searchLocale)
      /\ q.address = Text(raw.address)
      /\ q.accessoryType = raw.accessoryType /\ q.saleType = raw.saleType
  BY <1>3 DEF Ids, Given
<1>5. q \in TokensViewFilter
  <2>1. \A x \in Limit : Number(x) \in Limit
    BY DEF Number, Limit
  <2>2. \A x \in Single : Text(x) \in Single
    BY DEF Text, Single
  <2>3. /\ raw.tokenId \in SUBSET Numerals /\ raw.numberOfAttributes \in SUBSET Numerals
        /\ raw.attributes \in SUBSET Values
        /\ raw.minPrice \in Limit /\ raw.maxPrice \in Limit /\ raw.minUsdPrice \in Limit /\ raw.maxUsdPrice \in Limit
        /\ raw.searchText \in Single /\ raw.searchLocale \in Single /\ raw.address \in Single
        /\ raw.accessoryType \in AccessoryTypes /\ raw.saleType \in SaleTypes
    BY DEF TokensViewFilter
  <2>4. q = [tokenId |-> q.tokenId, numberOfAttributes |-> q.numberOfAttributes, attributes |-> q.attributes,
             minPrice |-> q.minPrice, maxPrice |-> q.maxPrice, minUsdPrice |-> q.minUsdPrice,
             maxUsdPrice |-> q.maxUsdPrice, searchText |-> q.searchText, searchLocale |-> q.searchLocale,
             address |-> q.address, accessoryType |-> q.accessoryType, saleType |-> q.saleType]
    BY <1>3
  <2> HIDE DEF q
  <2>5. /\ q.tokenId \in SUBSET Numerals /\ q.numberOfAttributes \in SUBSET Numerals
        /\ q.attributes \in SUBSET Values
        /\ q.minPrice \in Limit /\ q.maxPrice \in Limit /\ q.minUsdPrice \in Limit /\ q.maxUsdPrice \in Limit
        /\ q.searchText \in Single /\ q.searchLocale \in Single /\ q.address \in Single
        /\ q.accessoryType \in AccessoryTypes /\ q.saleType \in SaleTypes
    BY <1>4, <2>1, <2>2, <2>3 DEF Given
  <2> QED BY <2>4, <2>5 DEF TokensViewFilter
<1>6. q # Refused
  BY <1>5, RefusalIsNoRequest
<1>7. Number(raw.minUsdPrice) = Absent /\ Number(raw.maxUsdPrice) = Absent
  BY DEF TokensMalformed
<1> HIDE DEF q
<1>8. /\ q # Refused
      /\ q.tokenId = Given(raw.tokenId) /\ q.numberOfAttributes = Given(raw.numberOfAttributes)
      /\ q.attributes = raw.attributes
      /\ q.minPrice = Number(raw.minPrice) /\ q.maxPrice = Number(raw.maxPrice)
      /\ q.minUsdPrice = Absent /\ q.maxUsdPrice = Absent
      /\ q.searchText = Text(raw.searchText) /\ q.searchLocale = Text(raw.searchLocale)
      /\ q.address = Text(raw.address)
      /\ q.accessoryType = raw.accessoryType /\ q.saleType = raw.saleType
  BY <1>4, <1>6, <1>7
<1> QED BY ONLY <1>8 DEF q

\* What is asked of a row of the view, but for its sale, its owner and its number.
TokenAsked(v, c, raw) ==
  /\ v.token[1] = c
  /\ OneOf(v.token[2], Given(raw.tokenId))
  /\ AtMost(OfferPrice(v), Number(raw.maxPrice)) /\ AtLeast(OfferPrice(v), Number(raw.minPrice))
  /\ (Text(raw.searchText) = Absent \/ Contains(v.property.item, Text(raw.searchText)))
  /\ ByLocale(v, Text(raw.searchLocale))
  /\ raw.attributes # {} => raw.attributes \subseteq v.property.list

OnSale(v, sale) == (sale = "OnSale" => v.offer # NoOffer) /\ (sale = "NotForSale" => v.offer = NoOffer)
Belongs(v, accessory, address) ==
  CASE accessory = "Owned" -> Is(tokens[v.token].owner, address)
    [] accessory = "Disowned" -> address = Absent \/ tokens[v.token].owner # address
    [] OTHER -> TRUE

\* The rows a request is answered with, whatever their number of attributes.
TokenRows(c, raw) ==
  {v \in ViewTokens : TokenAsked(v, c, raw) /\ OnSale(v, raw.saleType)
                      /\ Belongs(v, raw.accessoryType, Text(raw.address))}

ToldOfToken(v) == TokensEntity(v, SearchInProperties({v.token}), CollectionsOf({v.token}))

LEMMA TokensToldAlike == ASSUME NEW rows PROVE ParseTokenItems(rows) = {ToldOfToken(v) : v \in rows}
<1> DEFINE found == FoundOfTokens(rows)
           collections == CollectionsOf({v.token : v \in rows})
<1>1. ASSUME NEW v \in rows
      PROVE  TokensEntity(v, found, collections) = ToldOfToken(v)
  <2> DEFINE t == v.token
             alone == SearchInProperties({t})
             its == CollectionsOf({t})
  <2>1. ASSUME NEW T, t \in T
        PROVE  /\ Description(t, SearchInProperties(T)) = IF index[t] # NoInfo THEN index[t] ELSE NoInfo
               /\ Found(t[1], CollectionsOf(T), NoItem) = IF t[1] # 0 THEN About[t[1]] ELSE NoItem
    <3>1. Description(t, SearchInProperties(T)) = IF index[t] # NoInfo THEN index[t] ELSE NoInfo
      BY <2>1 DEF Description, Found, SearchInProperties
    <3>2. Found(t[1], CollectionsOf(T), NoItem) = IF t[1] # 0 THEN About[t[1]] ELSE NoItem
      BY <2>1 DEF Found, CollectionsOf
    <3> QED BY <3>1, <3>2
  <2>2. /\ Description(t, found) = Description(t, alone)
        /\ Found(t[1], collections, NoItem) = Found(t[1], its, NoItem)
    BY <2>1 DEF FoundOfTokens
  <2> HIDE DEF found, collections, alone, its
  <2>3. TokensEntity(v, found, collections) = TokensEntity(v, alone, its)
    BY <2>2 DEF TokensEntity
  <2> QED BY <2>3 DEF ToldOfToken, alone, its
<1>2. ParseTokenItems(rows) = {TokensEntity(v, found, collections) : v \in rows}
  BY DEF ParseTokenItems
<1> HIDE DEF found, collections
<1> QED BY <1>1, <1>2

\* Nothing that a list of tokens is asked for is lost between the request and the
\* answer.
LEMMA TokensAnswered ==
  ASSUME NEW c, NEW raw \in TokensViewFilter, ~TokensMalformed(raw)
  PROVE  LET answer == FindTokensByCollection(c, raw, NoSort)
             rows == TokenRows(c, raw)
             listed == {v \in rows : OneOf(v.property.total, Given(raw.numberOfAttributes))}
         IN /\ answer.items = {ToldOfToken(v) : v \in listed}
            /\ answer.attributesCount = Amounts({<<v.property.total, v.token[2]>> : v \in rows})
<1> DEFINE q == ParseTokensFilter(raw)
           answer == FindTokensByCollection(c, raw, NoSort)
           rows == TokenRows(c, raw)
           listed == {v \in rows : OneOf(v.property.total, Given(raw.numberOfAttributes))}
           filtered == {v \in ViewTokens : ByTokenId(v, q) /\ ByPrice(v, q) /\ ByAccessoryType(v, q) /\ BySaleType(v, q)
                                             /\ BySearch(v, q) /\ ByFindAttributes(v, c, q)}
<1>1. /\ q # Refused
      /\ q.tokenId = Given(raw.tokenId) /\ q.numberOfAttributes = Given(raw.numberOfAttributes)
      /\ q.attributes = raw.attributes
      /\ q.minPrice = Number(raw.minPrice) /\ q.maxPrice = Number(raw.maxPrice)
      /\ q.minUsdPrice = Absent /\ q.maxUsdPrice = Absent
      /\ q.searchText = Text(raw.searchText) /\ q.searchLocale = Text(raw.searchLocale)
      /\ q.address = Text(raw.address)
      /\ q.accessoryType = raw.accessoryType /\ q.saleType = raw.saleType
  BY TokensParsed
<1> HIDE DEF q
<1>2. ParseTokensSort(NoSort) = <<[column |-> "TokenId", asc |-> TRUE]>>
  BY DEF ParseTokensSort, NoSort
<1>3. ~TokensRefused(q, ParseTokensSort(NoSort))
  <2>1. {q.maxUsdPrice, q.minUsdPrice} = {Absent}
    BY <1>1
  <2> QED BY <1>2, <2>1 DEF TokensRefused
<1>4. answer = FilterTokens(c, q)
  BY <1>1, <1>3 DEF FindTokensByCollection, q
<1>5. OfCollection(filtered, c) = rows
  <2>1. ASSUME NEW v, v.token[1] = c
        PROVE  /\ ByTokenId(v, q) /\ ByPrice(v, q) /\ ByAccessoryType(v, q) /\ BySaleType(v, q)
               /\ BySearch(v, q) /\ ByFindAttributes(v, c, q)
               <=> TokenAsked(v, c, raw) /\ OnSale(v, raw.saleType) /\ Belongs(v, raw.accessoryType, Text(raw.address))
    <3>1. ByAccessoryType(v, q) <=> Belongs(v, raw.accessoryType, Text(raw.address))
      BY <1>1 DEF ByAccessoryType, Belongs
    <3>2. BySaleType(v, q) <=> OnSale(v, raw.saleType)
      BY <1>1 DEF BySaleType, OnSale
    <3>3. ByTokenId(v, q) /\ ByPrice(v, q) /\ BySearch(v, q) /\ ByFindAttributes(v, c, q) <=> TokenAsked(v, c, raw)
      BY <1>1, <2>1 DEF ByTokenId, ByPrice, BySearch, ByFindAttributes, TokenAsked
    <3> QED BY <3>1, <3>2, <3>3
  <2>2. \A v : TokenAsked(v, c, raw) => v.token[1] = c
    BY DEF TokenAsked
  <2> QED BY <2>1, <2>2 DEF OfCollection, TokenRows
<1>6. OfCollection(InNumbers(filtered, q), c) = listed
  <2>1. OfCollection(InNumbers(filtered, q), c) = {v \in OfCollection(filtered, c) : OneOf(v.property.total, q.numberOfAttributes)}
    BY DEF OfCollection, InNumbers
  <2> QED BY <1>1, <1>5, <2>1
<1>7. /\ answer.items = ParseTokenItems(OfCollection(InNumbers(filtered, q), c))
      /\ answer.attributesCount = TokenAmounts(filtered, c)
  BY <1>4 DEF FilterTokens
<1> HIDE DEF filtered, listed, rows, answer
<1>8. /\ answer.items = {ToldOfToken(v) : v \in listed}
      /\ answer.attributesCount = Amounts({<<v.property.total, v.token[2]>> : v \in rows})
  BY <1>5, <1>6, <1>7, TokensToldAlike DEF TokenAmounts
<1> QED BY <1>8 DEF rows, listed, answer

\* A token has rows with an offer, or one of its own without.
LEMMA TokensInView ==
  ASSUME TablesOK, NEW v \in ViewTokens
  PROVE  /\ v.token \in Tokens /\ v.token = <<v.token[1], v.token[2]>>
         /\ v.offer = NoOffer <=> {k \in Opened : offers[k].token = v.token} = {}
<1> DEFINE open(t) == {k \in Opened : offers[k].token = t}
<1>1. PICK t \in Tokens, o \in (IF open(v.token) = {} THEN {NoOffer} ELSE open(v.token)) : v.token = t /\ v.offer = o
  <2>1. PICK t \in {u \in Tokens : tokens[u] # NoRow} :
          v \in {[token |-> t, offer |-> k, property |-> p] :
                   k \in (IF open(t) = {} THEN {NoOffer} ELSE open(t)), p \in Joined(t)}
    BY DEF ViewTokens
  <2>2. PICK k \in (IF open(t) = {} THEN {NoOffer} ELSE open(t)), p \in Joined(t) :
          v = [token |-> t, offer |-> k, property |-> p]
    BY <2>1
  <2>3. v.token = t /\ v.offer = k /\ t \in Tokens
    BY <2>2
  <2> HIDE DEF open
  <2> QED BY <2>2, <2>3
<1>2. v.token = <<v.token[1], v.token[2]>>
  BY <1>1, CatalogInputs
<1>3. ASSUME NEW k \in open(v.token)
      PROVE  k # 0
  <2>1. k \in Keys(offers)
    BY DEF Opened
  <2> QED BY <2>1, OfferTypes
<1>4. v.offer = NoOffer <=> open(v.token) = {}
  <2> HIDE DEF open
  <2> QED BY <1>1, <1>3 DEF NoOffer
<1> QED BY <1>1, <1>2, <1>4

\* Of all requests that findTokensByCollection can answer, about any collection.
EveryTokenListSplits == \A raw \in TokensViewFilter, c \in Int : ~TokensMalformed(raw) => TokensSplit(raw, c)

LEMMA TokensSplitUp == TablesOK => EveryTokenListSplits
<1> SUFFICES ASSUME TablesOK, NEW raw \in TokensViewFilter, NEW c \in Int, ~TokensMalformed(raw)
             PROVE  TokensSplit(raw, c)
  BY DEF EveryTokenListSplits
<1> DEFINE asked(sale, accessory) == [raw EXCEPT !.saleType = sale, !.accessoryType = accessory]
           list(sale, accessory) == FindTokensByCollection(c, asked(sale, accessory), NoSort).items
           numbered(n) == [asked("All", "All") EXCEPT !.numberOfAttributes = {n}]
           having(n) == FindTokensByCollection(c, numbered(n), NoSort)
           tokenIds(rows) == {r.tokenId : r \in rows}
           listed(n) == Cardinality(tokenIds(having(n).items))
           counts == FindTokensByCollection(c, asked("All", "All"), NoSort).attributesCount
           address == Text(raw.address)
           all == {v \in ViewTokens : TokenAsked(v, c, raw) /\ OneOf(v.property.total, Given(raw.numberOfAttributes))}
           some(sale, accessory) == {v \in all : OnSale(v, sale) /\ Belongs(v, accessory, address)}
<1>1. ASSUME NEW sale \in SaleTypes, NEW accessory \in AccessoryTypes
      PROVE  list(sale, accessory) = {ToldOfToken(v) : v \in some(sale, accessory)}
  <2> DEFINE r == asked(sale, accessory)
  <2>1. /\ r \in TokensViewFilter /\ r.saleType = sale /\ r.accessoryType = accessory
        /\ r.tokenId = raw.tokenId /\ r.numberOfAttributes = raw.numberOfAttributes
        /\ r.attributes = raw.attributes /\ r.minPrice = raw.minPrice /\ r.maxPrice = raw.maxPrice
        /\ r.minUsdPrice = raw.minUsdPrice /\ r.maxUsdPrice = raw.maxUsdPrice
        /\ r.searchText = raw.searchText /\ r.searchLocale = raw.searchLocale /\ r.address = raw.address
    BY DEF TokensViewFilter
  <2> HIDE DEF r
  <2>2. ~TokensMalformed(r)
    BY <2>1 DEF TokensMalformed
  <2>3. \A v : TokenAsked(v, c, r) <=> TokenAsked(v, c, raw)
    BY <2>1 DEF TokenAsked
  <2>4. {v \in TokenRows(c, r) : OneOf(v.property.total, Given(r.numberOfAttributes))} = some(sale, accessory)
    BY <2>1, <2>3 DEF TokenRows
  <2>5. FindTokensByCollection(c, r, NoSort).items = {ToldOfToken(v) : v \in some(sale, accessory)}
    <3> HIDE DEF some
    <3> QED BY <2>1, <2>2, <2>4, TokensAnswered
  <2> QED BY <2>5 DEF r
<1>2. \A v : ToldOfToken(v).tokenId = v.token[2]
  BY DEF ToldOfToken, TokensEntity
<1>3. \A v, w \in all : v.token[2] = w.token[2] => v.token = w.token
  <2>1. \A v \in all : v \in ViewTokens /\ v.token[1] = c
    BY DEF TokenAsked
  <2> HIDE DEF all
  <2> QED BY <2>1, TokensInView
\* Two lists that differ in one thing a token has.
<1>4. ASSUME NEW A \in SUBSET all, NEW B \in SUBSET all, \A v \in A, w \in B : v.token # w.token
      PROVE  tokenIds({ToldOfToken(v) : v \in A}) \cap tokenIds({ToldOfToken(v) : v \in B}) = {}
  <2> HIDE DEF all
  <2>1. \A S : tokenIds({ToldOfToken(v) : v \in S}) = {v.token[2] : v \in S}
    BY <1>2
  <2>2. \A v \in A, w \in B : v.token[2] # w.token[2]
    BY <1>3, <1>4
  <2>3. /\ tokenIds({ToldOfToken(v) : v \in A}) = {v.token[2] : v \in A}
        /\ tokenIds({ToldOfToken(v) : v \in B}) = {v.token[2] : v \in B}
    BY <2>1
  <2> HIDE DEF tokenIds
  <2> QED BY <2>2, <2>3
<1>5. /\ list("All", "All") = list("OnSale", "All") \cup list("NotForSale", "All")
      /\ tokenIds(list("OnSale", "All")) \cap tokenIds(list("NotForSale", "All")) = {}
  <2>1. some("All", "All") = some("OnSale", "All") \cup some("NotForSale", "All")
    BY DEF OnSale, Belongs
  <2>2. \A v \in some("OnSale", "All"), w \in some("NotForSale", "All") : v.token # w.token
    <3>1. \A v \in some("OnSale", "All") : v \in ViewTokens /\ v.offer # NoOffer
      BY DEF OnSale
    <3>2. \A v \in some("NotForSale", "All") : v \in ViewTokens /\ v.offer = NoOffer
      BY DEF OnSale
    <3> HIDE DEF some
    <3> QED BY <3>1, <3>2, TokensInView
  <2>3. some("OnSale", "All") \in SUBSET all /\ some("NotForSale", "All") \in SUBSET all
    OBVIOUS
  <2>4. /\ list("All", "All") = {ToldOfToken(v) : v \in some("All", "All")}
        /\ list("OnSale", "All") = {ToldOfToken(v) : v \in some("OnSale", "All")}
        /\ list("NotForSale", "All") = {ToldOfToken(v) : v \in some("NotForSale", "All")}
    BY <1>1 DEF SaleTypes, AccessoryTypes
  <2> HIDE DEF some, all, list, tokenIds
  <2>5. tokenIds(list("OnSale", "All")) \cap tokenIds(list("NotForSale", "All")) = {}
    BY <1>4, <2>2, <2>3, <2>4
  <2> QED BY <2>1, <2>4, <2>5
<1>6. ASSUME raw.address \notin {Absent, Blank}
      PROVE  /\ list("All", "All") = list("All", "Owned") \cup list("All", "Disowned")
             /\ tokenIds(list("All", "Owned")) \cap tokenIds(list("All", "Disowned")) = {}
  <2>1. address # Absent
    BY <1>6 DEF Text
  <2>2. \A v : /\ Belongs(v, "Owned", address) <=> tokens[v.token].owner = address
               /\ Belongs(v, "Disowned", address) <=> tokens[v.token].owner # address
               /\ Belongs(v, "All", address)
    BY <2>1 DEF Belongs, Is
  <2> HIDE DEF address
  <2>3. some("All", "All") = some("All", "Owned") \cup some("All", "Disowned")
    BY <2>2
  <2>4. \A v \in some("All", "Owned"), w \in some("All", "Disowned") : v.token # w.token
    BY <2>2
  <2>5. some("All", "Owned") \in SUBSET all /\ some("All", "Disowned") \in SUBSET all
    OBVIOUS
  <2>6. /\ list("All", "All") = {ToldOfToken(v) : v \in some("All", "All")}
        /\ list("All", "Owned") = {ToldOfToken(v) : v \in some("All", "Owned")}
        /\ list("All", "Disowned") = {ToldOfToken(v) : v \in some("All", "Disowned")}
    BY <1>1 DEF SaleTypes, AccessoryTypes
  <2> HIDE DEF some, all, list, tokenIds
  <2>7. tokenIds(list("All", "Owned")) \cap tokenIds(list("All", "Disowned")) = {}
    BY <1>4, <2>4, <2>5, <2>6
  <2> QED BY <2>3, <2>6, <2>7
<1>7. ASSUME NEW n \in 0 .. MaxNumber
      PROVE  {row \in counts : row.numberOfAttributes = n} =
               IF listed(n) = 0 THEN {} ELSE {[numberOfAttributes |-> n, amount |-> listed(n)]}
  <2> n \in Nat
    BY CatalogInputs
  <2> DEFINE r == asked("All", "All")
             rn == numbered(n)
             rows == TokenRows(c, r)
             S == {v.token[2] : v \in {w \in rows : w.property.total = n}}
             pairs == {<<v.property.total, v.token[2]>> : v \in rows}
  <2>1. /\ r \in TokensViewFilter /\ r.saleType = "All" /\ r.accessoryType = "All"
        /\ r.tokenId = raw.tokenId /\ r.numberOfAttributes = raw.numberOfAttributes
        /\ r.attributes = raw.attributes /\ r.minPrice = raw.minPrice /\ r.maxPrice = raw.maxPrice
        /\ r.minUsdPrice = raw.minUsdPrice /\ r.maxUsdPrice = raw.maxUsdPrice
        /\ r.searchText = raw.searchText /\ r.searchLocale = raw.searchLocale /\ r.address = raw.address
    BY DEF TokensViewFilter, SaleTypes, AccessoryTypes
  <2>2. /\ rn \in TokensViewFilter /\ rn.saleType = "All" /\ rn.accessoryType = "All"
        /\ rn.tokenId = r.tokenId /\ rn.numberOfAttributes = {n}
        /\ rn.attributes = r.attributes /\ rn.minPrice = r.minPrice /\ rn.maxPrice = r.maxPrice
        /\ rn.minUsdPrice = r.minUsdPrice /\ rn.maxUsdPrice = r.maxUsdPrice
        /\ rn.searchText = r.searchText /\ rn.searchLocale = r.searchLocale /\ rn.address = r.address
    <3>1. {n} \in SUBSET Numerals
      BY DEF Numerals
    <3>2. rn = [r EXCEPT !.numberOfAttributes = {n}]
      OBVIOUS
    <3> HIDE DEF r, rn
    <3> QED BY <2>1, <3>1, <3>2 DEF TokensViewFilter
  <2> HIDE DEF r, rn
  <2>3. ~TokensMalformed(r) /\ ~TokensMalformed(rn)
    <3>1. Junk # n
      BY RequestInputs
    <3> QED BY <2>1, <2>2, <3>1 DEF TokensMalformed
  <2>4. \A v : TokenAsked(v, c, rn) <=> TokenAsked(v, c, r)
    BY <2>2 DEF TokenAsked
  <2>5. TokenRows(c, rn) = rows
    BY <2>1, <2>2, <2>4 DEF TokenRows
  <2>6. \A x : OneOf(x, Given(rn.numberOfAttributes)) <=> x = n
    <3>1. n # Blank
      BY RequestInputs
    <3> QED BY <2>2, <3>1 DEF OneOf, Given
  <2>7. counts = Amounts(pairs)
    <3>1. FindTokensByCollection(c, r, NoSort).attributesCount = Amounts(pairs)
      BY <2>1, <2>3, TokensAnswered
    <3> QED BY <3>1 DEF r
  <2>8. tokenIds(having(n).items) = S
    <3> DEFINE answered == {v \in TokenRows(c, rn) : OneOf(v.property.total, Given(rn.numberOfAttributes))}
    <3>1. FindTokensByCollection(c, rn, NoSort).items = {ToldOfToken(v) : v \in answered}
      BY <2>2, <2>3, TokensAnswered
    <3>2. answered = {w \in rows : w.property.total = n}
      BY <2>5, <2>6
    <3>3. having(n).items = {ToldOfToken(v) : v \in answered}
      BY <3>1 DEF rn
    <3> HIDE DEF answered, rows, having
    <3>4. {told.tokenId : told \in having(n).items} = {v.token[2] : v \in answered}
      BY <1>2, <3>3
    <3>5. {v.token[2] : v \in answered} = {v.token[2] : v \in {w \in rows : w.property.total = n}}
      BY <3>2
    <3> QED BY <3>4, <3>5
  <2>9. IsFiniteSet(S)
    <3> DEFINE W == {t \in Tokens : t[1] = c /\ t[2] \in S}
               f == [t \in W |-> t[2]]
    <3>1. \A v \in rows : v.token \in Tokens /\ v.token[1] = c
      BY TokensInView DEF TokenRows, TokenAsked
    <3>2. IsFiniteSet(W)
      BY CatalogInputs, FS_Subset
    <3>3. f \in [W -> S]
      OBVIOUS
    <3>4. \A a, b \in W : f[a] = f[b] => a = b
      BY CatalogInputs
    <3>5. \A x \in S : \E t \in W : f[t] = x
      <4> TAKE x \in S
      <4>1. PICK v \in rows : v.token[2] = x
        OBVIOUS
      <4>2. v.token \in W /\ f[v.token] = x
        BY <3>1, <4>1
      <4> QED BY <4>2
    <3> HIDE DEF W, f, S
    <3> QED BY <3>2, <3>3, <3>4, <3>5, OneToOne
  <2>10. \A x : <<n, x>> \in pairs <=> x \in S
    <3> HIDE DEF rows
    <3> QED OBVIOUS
  <2>11. \A p \in pairs : p = <<p[1], p[2]>>
    OBVIOUS
  <2> HIDE DEF S, pairs, rows, counts
  <2>12. {row \in counts : row.numberOfAttributes = n} =
            IF Cardinality(S) = 0 THEN {} ELSE {[numberOfAttributes |-> n, amount |-> Cardinality(S)]}
    BY <2>7, <2>9, <2>10, <2>11, AmountOf
  <2> HIDE DEF tokenIds, having
  <2> QED BY <2>8, <2>12
<1> HIDE DEF listed, counts
<1>8. CountsAre(counts, listed)
  BY <1>7 DEF CountsAre
<1> HIDE DEF list, tokenIds
<1> QED BY <1>5, <1>6, <1>8 DEF TokensSplit, counts, listed, list, tokenIds

\* Lists of tokens on sale and not, owned and not, make up the list of all and share
\* no token, and the counts are those of the lists, whatever else is asked for.
THEOREM TokenListsHold == Spec => [](EveryTokenListSplits /\ TokenListsSplit)
<1>1. \A raw \in TokenRequests : raw \in TokensViewFilter /\ ~TokensMalformed(raw)
  <2>1. TokenRequests \subseteq TokensViewFilter
    BY RequestsAreTyped
  <2>2. \A raw \in TokenRequests : ~TokensMalformed(raw)
    <3> TAKE raw \in TokenRequests
    <3>1. /\ raw.tokenId \subseteq {2} /\ raw.numberOfAttributes = {}
          /\ raw.maxUsdPrice = Absent /\ raw.minUsdPrice = Absent
      <4>1. \/ \E ids \in {{}, {2}}, address \in {Blank, alice}, max \in {0, 1}, values \in {{}, {hat}} :
                 raw = [AllTokens EXCEPT !.tokenId = ids, !.address = address, !.maxPrice = max, !.attributes = values]
            \/ \E text \in {ed, tale, 1} : raw = [AllTokens EXCEPT !.searchText = text]
        BY DEF TokenRequests
      <4>2. CASE \E text \in {ed, tale, 1} : raw = [AllTokens EXCEPT !.searchText = text]
        BY <4>2 DEF AllTokens
      <4>3. ASSUME NEW ids \in {{}, {2}}, NEW address, NEW max, NEW values,
                   raw = [AllTokens EXCEPT !.tokenId = ids, !.address = address, !.maxPrice = max, !.attributes = values]
            PROVE  /\ raw.tokenId \subseteq {2} /\ raw.numberOfAttributes = {}
                   /\ raw.maxUsdPrice = Absent /\ raw.minUsdPrice = Absent
        <5>1. raw.tokenId = ids
          BY <4>3 DEF AllTokens
        <5>2. raw.numberOfAttributes = {} /\ raw.maxUsdPrice = Absent /\ raw.minUsdPrice = Absent
          BY <4>3 DEF AllTokens
        <5> QED BY <5>1, <5>2
      <4> QED BY <4>1, <4>2, <4>3
    <3>2. Junk # 2 /\ Number(Absent) = Absent
      BY RequestInputs DEF Number
    <3> QED BY <3>1, <3>2 DEF TokensMalformed
  <2> QED BY <2>1, <2>2
<1>2. TablesOK => EveryTokenListSplits /\ TokenListsSplit
  BY <1>1, TokensSplitUp DEF EveryTokenListSplits, TokenListsSplit
<1> QED BY <1>2, TablesHold, PTL

-----------------------------------------------------------------------------
(* Lists of trades.                                                        *)

\* Every row has a place of its own in an order.
LEMMA PlacesDiffer ==
  ASSUME NEW rows, IsFiniteSet(rows), NEW before, IsOrder(before, rows)
  PROVE  /\ \A v \in rows : Cardinality(Ahead(v, rows, before)) \in 0 .. Cardinality(rows) - 1
         /\ \A u, v \in rows :
              Cardinality(Ahead(u, rows, before)) = Cardinality(Ahead(v, rows, before)) => u = v
<1> DEFINE ahead(v) == Ahead(v, rows, before)
<1>1. \A v \in rows : ahead(v) \subseteq rows /\ v \notin ahead(v) /\ IsFiniteSet(ahead(v))
  <2> TAKE v \in rows
  <2>1. ahead(v) \subseteq rows /\ v \notin ahead(v)
    BY DEF Ahead, IsOrder, IsTotal
  <2> HIDE DEF ahead
  <2> QED BY <2>1, FS_Subset
<1>2. \A u, v \in rows : <<u, v>> \in before => ahead(u) \subseteq ahead(v) /\ u \in ahead(v)
  BY DEF Ahead, IsOrder
<1>3. \A u, v \in rows : u # v => <<u, v>> \in before \/ <<v, u>> \in before
  BY DEF IsOrder, IsTotal
<1> HIDE DEF ahead
<1>4. \A v \in rows : Cardinality(ahead(v)) \in 0 .. Cardinality(rows) - 1
  <2> TAKE v \in rows
  <2>1. ahead(v) # rows /\ Cardinality(ahead(v)) \in Nat /\ Cardinality(rows) \in Nat
    BY <1>1, FS_CardinalityType
  <2>2. Cardinality(ahead(v)) < Cardinality(rows)
    BY <1>1, <2>1, FS_Subset
  <2> QED BY <2>1, <2>2
<1>5. ASSUME NEW u \in rows, NEW v \in rows, <<u, v>> \in before
      PROVE  Cardinality(ahead(u)) # Cardinality(ahead(v))
  <2>1. ahead(u) \in SUBSET ahead(v) /\ ahead(u) # ahead(v)
    BY <1>1, <1>2, <1>5
  <2> QED BY <1>1, <2>1, FS_Subset
<1> QED BY <1>3, <1>4, <1>5 DEF ahead

\* There is no choice which row a page of one has.
LEMMA PageOfOne ==
  ASSUME NEW rows, IsFiniteSet(rows), NEW before, IsOrder(before, rows),
         NEW n \in 1 .. Cardinality(rows), NEW page \in SUBSET rows
  PROVE  MayBePage(page, rows, before, n, 1) <=>
           \E v \in rows : page = {v} /\ Cardinality(Ahead(v, rows, before)) = n - 1
<1>1. /\ Cardinality(rows) \in Nat /\ n \in Nat /\ Offset(n, 1) = n - 1 /\ Least(n - 1, Cardinality(rows)) = n - 1
  BY FS_CardinalityType DEF Offset, Least
<1>2. ASSUME NEW skipped \in SUBSET rows, Cardinality(skipped) = n - 1
      PROVE  Least(1, Cardinality(rows \ skipped)) = 1
  <2>1. IsFiniteSet(skipped) /\ IsFiniteSet(rows \ skipped) /\ skipped # rows /\ Cardinality(rows \ skipped) \in Nat
    BY <1>1, <1>2, FS_Subset, FS_CardinalityType
  <2>2. Cardinality(rows \ skipped) # 0
    BY <2>1, FS_EmptySet
  <2> QED BY <2>1, <2>2 DEF Least
<1>3. ASSUME MayBePage(page, rows, before, n, 1)
      PROVE  \E v \in rows : page = {v} /\ Cardinality(Ahead(v, rows, before)) = n - 1
  <2>1. PICK skipped \in SUBSET (rows \ page) :
          /\ Cardinality(skipped) = n - 1
          /\ Cardinality(page) = Least(1, Cardinality(rows \ skipped))
          /\ \A j \in skipped, k \in rows \ skipped : <<k, j>> \notin before
          /\ \A j \in page, k \in rows \ (skipped \cup page) : <<k, j>> \notin before
    BY <1>1, <1>3 DEF MayBePage
  <2>2. Cardinality(page) = 1 /\ IsFiniteSet(page)
    BY <1>2, <2>1, FS_Subset
  <2>3. PICK v : page = {v}
    BY <2>2, FS_Singleton
  <2>4. Ahead(v, rows, before) = skipped
    BY <2>1, <2>3 DEF Ahead, IsOrder, IsTotal
  <2> QED BY <2>1, <2>3, <2>4
<1>4. ASSUME NEW v \in rows, page = {v}, Cardinality(Ahead(v, rows, before)) = n - 1
      PROVE  MayBePage(page, rows, before, n, 1)
  <2> DEFINE skipped == Ahead(v, rows, before)
  <2>1. skipped \in SUBSET (rows \ page)
    BY <1>4 DEF Ahead, IsOrder, IsTotal
  <2>2. \A j \in skipped, k \in rows \ skipped : <<k, j>> \notin before
    BY DEF Ahead, IsOrder
  <2>3. \A j \in page, k \in rows \ (skipped \cup page) : <<k, j>> \notin before
    BY <1>4 DEF Ahead
  <2>4. Cardinality(page) = 1
    BY <1>4, FS_Singleton
  <2> HIDE DEF skipped
  <2>5. Cardinality(skipped) = n - 1
    BY <1>4 DEF skipped
  <2>6. Cardinality(page) = Least(1, Cardinality(rows \ skipped))
    BY <1>2, <2>1, <2>4, <2>5
  <2> QED BY <1>1, <2>1, <2>2, <2>3, <2>5, <2>6 DEF MayBePage
<1> QED BY <1>3, <1>4

\* ... and there is one for every page.
LEMMA EveryPlaceTaken ==
  ASSUME NEW rows, IsFiniteSet(rows), NEW before, IsOrder(before, rows), NEW n \in 1 .. Cardinality(rows)
  PROVE  \E v \in rows : Cardinality(Ahead(v, rows, before)) = n - 1
<1> DEFINE N == Cardinality(rows)
           f == [v \in rows |-> Cardinality(Ahead(v, rows, before))]
<1>1. N \in Nat
  BY FS_CardinalityType
<1>2. f \in Injection(rows, 0 .. N - 1)
  BY PlacesDiffer DEF Injection, IsInjective
<1>3. IsFiniteSet(0 .. N - 1) /\ Cardinality(0 .. N - 1) = N
  <2> HIDE DEF N
  <2>1. 0 \in Int /\ N - 1 \in Int
    BY <1>1
  <2>2. Cardinality(0 .. N - 1) = IF 0 > N - 1 THEN 0 ELSE (N - 1) - 0 + 1
    BY <2>1, FS_Interval
  <2> QED BY <1>1, <2>1, <2>2, FS_Interval
<1>4. f \in Surjection(rows, 0 .. N - 1)
  <2> HIDE DEF f
  <2> QED BY <1>2, <1>3, FS_Injection
<1>5. n - 1 \in 0 .. N - 1
  BY <1>1
<1> QED BY <1>4, <1>5 DEF Surjection

\* A page that has room for all rows has them all.
LEMMA PageOfAll ==
  ASSUME NEW rows, IsFiniteSet(rows), NEW before, \A j, k \in rows : <<j, k>> \notin before,
         NEW size \in Nat, Cardinality(rows) <= size, NEW page \in SUBSET rows
  PROVE  MayBePage(page, rows, before, 1, size) <=> page = rows
<1>1. Cardinality(rows) \in Nat /\ Offset(1, size) = 0 /\ Least(0, Cardinality(rows)) = 0
  BY FS_CardinalityType DEF Offset, Least
<1>2. Cardinality({}) = 0 /\ rows \ {} = rows /\ Least(size, Cardinality(rows)) = Cardinality(rows)
  BY <1>1, FS_EmptySet DEF Least
<1>3. ASSUME MayBePage(page, rows, before, 1, size)
      PROVE  page = rows
  <2>1. PICK skipped \in SUBSET (rows \ page) :
          Cardinality(skipped) = 0 /\ Cardinality(page) = Least(size, Cardinality(rows \ skipped))
    BY <1>1, <1>3 DEF MayBePage
  <2>2. skipped = {}
    BY <2>1, FS_Subset, FS_EmptySet
  <2>3. Cardinality(page) = Cardinality(rows)
    BY <1>2, <2>1, <2>2
  <2> QED BY <2>3, FS_Subset
<1>4. ASSUME page = rows
      PROVE  MayBePage(page, rows, before, 1, size)
  <2>1. /\ {} \in SUBSET (rows \ page)
        /\ Cardinality({}) = Least(Offset(1, size), Cardinality(rows))
        /\ Cardinality(page) = Least(size, Cardinality(rows \ {}))
        /\ \A j \in {}, k \in rows \ {} : <<k, j>> \notin before
        /\ \A j \in page, k \in rows \ ({} \cup page) : <<k, j>> \notin before
    BY <1>1, <1>2, <1>4
  <2> QED BY <2>1 DEF MayBePage
<1> QED BY <1>3, <1>4

LEMMA TradesParsed ==
  ASSUME NEW raw \in TradesFilter
  PROVE  LET q == ParseTradesFilter(raw)
         IN IF Junk \in raw.collectionId \cup raw.tokenId
            THEN q = Refused
            ELSE /\ q # Refused
                 /\ q.collectionId = Given(raw.collectionId) /\ q.tokenId = Given(raw.tokenId)
                 /\ q.searchText = Text(raw.searchText) /\ q.accountId = Text(raw.accountId)
<1> DEFINE lists == {"collectionId", "tokenId"}
           texts == {"searchText", "accountId"}
           q == ParseTradesFilter(raw)
<1>1. DOMAIN raw = lists \cup texts
  BY DEF TradesFilter
<1>2. (\E f \in lists : Unreadable(raw[f])) <=> Junk \in raw.collectionId \cup raw.tokenId
  BY DEF Unreadable
<1>3. CASE Junk \in raw.collectionId \cup raw.tokenId
  BY <1>2, <1>3 DEF ParseTradesFilter, Parsed
<1>4. CASE Junk \notin raw.collectionId \cup raw.tokenId
  <2>1. q = [f \in lists \cup texts |-> CASE f \in lists -> Ids(raw[f])
                                          [] f \in {} -> Number(raw[f])
                                          [] f \in texts -> Text(raw[f])
                                          [] OTHER -> raw[f]]
    BY <1>1, <1>2, <1>4 DEF ParseTradesFilter, Parsed
  <2>2. /\ q.collectionId = Given(raw.collectionId) /\ q.tokenId = Given(raw.tokenId)
        /\ q.searchText = Text(raw.searchText) /\ q.accountId = Text(raw.accountId)
    BY <2>1 DEF Ids, Given
  <2>3. q = [collectionId |-> q.collectionId, tokenId |-> q.tokenId, searchText |-> q.searchText,
             accountId |-> q.accountId]
    BY <2>1
  <2>4. q # Refused
    <3> HIDE DEF q
    <3>1. /\ raw.collectionId \in SUBSET Numerals /\ raw.tokenId \in SUBSET Numerals
          /\ raw.searchText \in Single /\ raw.accountId \in Single
      BY DEF TradesFilter
    <3>2. /\ q.collectionId \in SUBSET Numerals /\ q.tokenId \in SUBSET Numerals
          /\ q.searchText \in Single /\ q.accountId \in Single
      BY <2>2, <3>1 DEF Given, Text, Single
    <3> QED BY <2>3, <3>2, RefusalIsNoRequest DEF TradesFilter
  <2> QED BY ONLY <1>4, <2>2, <2>4
<1> QED BY <1>3, <1>4

\* The trades that there are, each a row of the view.
LEMMA TradesInView ==
  ASSUME TablesOK
  PROVE  /\ IsFiniteSet(ViewTrades) /\ Cardinality(ViewTrades) = Len(trades) /\ Len(trades) \in Nat
         /\ \A v \in ViewTrades :
              /\ v.trade \in Nat \ {0} /\ v.trade \in Keys(trades)
              /\ v.offer \in Offer /\ v.offer.price \in Nat
              /\ v.offer.token[1] \in Nat \ {0} /\ v.offer.token[2] \in Nat \ {0}
         /\ \A u, v \in ViewTrades : u.trade = v.trade => u = v
<1> DEFINE view(i) == [trade |-> i, offer |-> offers[trades[i].offer], buyer |-> trades[i].buyer]
           f == [i \in Keys(trades) |-> view(i)]
<1>1. Len(trades) \in Nat /\ \A i \in Keys(trades) : i \in Nat \ {0}
  BY KeysOf DEF TablesOK
<1>2. \A i \in Keys(trades) : trades[i].offer \in Keys(offers)
  BY DEF TablesOK
<1>3. ViewTrades = {view(i) : i \in Keys(trades)}
  BY DEF ViewTrades
<1>4. \A i : view(i).trade = i /\ view(i).offer = offers[trades[i].offer]
  OBVIOUS
<1> HIDE DEF view
<1>5. IsFiniteSet(Keys(trades)) /\ Cardinality(Keys(trades)) = Len(trades)
  BY KeysFinite DEF TablesOK
<1>6. /\ f \in [Keys(trades) -> ViewTrades]
      /\ \A i, j \in Keys(trades) : f[i] = f[j] => i = j
      /\ \A v \in ViewTrades : \E i \in Keys(trades) : f[i] = v
  BY <1>3, <1>4
<1>7. IsFiniteSet(ViewTrades) /\ Cardinality(ViewTrades) = Len(trades)
  <2> HIDE DEF f
  <2> QED BY <1>5, <1>6, OneToOne
<1>8. ASSUME NEW v \in ViewTrades
      PROVE  /\ v.trade \in Nat \ {0} /\ v.trade \in Keys(trades)
             /\ v.offer \in Offer /\ v.offer.price \in Nat
             /\ v.offer.token[1] \in Nat \ {0} /\ v.offer.token[2] \in Nat \ {0}
  <2>1. PICK i \in Keys(trades) : v = view(i)
    BY <1>3
  <2>2. v.trade = i /\ v.offer = offers[trades[i].offer] /\ trades[i].offer \in Keys(offers)
    BY <1>2, <1>4, <2>1
  <2> QED BY <1>1, <2>2, OfferTypes
<1>9. \A u, v \in ViewTrades : u.trade = v.trade => u = v
  BY <1>3, <1>4
<1> QED BY <1>1, <1>7, <1>8, <1>9

\* A list that is asked for without a sort is of all the trades that are found.
LEMMA TradesAnswered ==
  ASSUME TablesOK, NEW raw \in TradesFilter
  PROVE  LET q == ParseTradesFilter(raw)
             listed == FilterTrades(q)
         IN GetTrades(raw, NoSort, 1, Len(trades) + 1) =
              IF Junk \in raw.collectionId \cup raw.tokenId \/ \E v \in listed : ~Shown(v)
              THEN {Refused} ELSE {{TradeOffer(v) : v \in listed}}
<1> DEFINE q == ParseTradesFilter(raw)
           listed == FilterTrades(q)
           before == TradesBefore(listed, ParseTradesSort(NoSort))
           size == Len(trades) + 1
           pages == {page \in SUBSET listed : MayBePage(page, listed, before, 1, size)}
           answer(page) == IF \A v \in page : Shown(v) THEN {TradeOffer(v) : v \in page} ELSE Refused
<1>1. GetTrades(raw, NoSort, 1, size) = IF q = Refused THEN {Refused} ELSE {answer(page) : page \in pages}
  BY DEF GetTrades
<1>2. CASE Junk \in raw.collectionId \cup raw.tokenId
  BY <1>1, <1>2, TradesParsed
<1>3. CASE Junk \notin raw.collectionId \cup raw.tokenId
  <2>1. q # Refused
    BY <1>3, TradesParsed
  <2>2. listed \in SUBSET ViewTrades
    BY DEF FilterTrades
  <2>3. ParseTradesSort(NoSort) = <<>>
    BY DEF ParseTradesSort, ParseSort, NoSort
  <2>4. before = {}
    <3>1. \A p, r, a : DOMAIN a = {} => ~Precedes(p, r, a)
      BY DEF Precedes
    <3>2. DOMAIN [i \in DOMAIN <<>> |-> TradeAscending(<<>>[i])] = {}
      OBVIOUS
    <3> QED BY <2>3, <3>1, <3>2 DEF TradesBefore
  <2> HIDE DEF q, listed, before
  <2>5. IsFiniteSet(listed) /\ Cardinality(listed) <= Len(trades) /\ Cardinality(listed) \in Nat /\ Len(trades) \in Nat
    BY <2>2, TradesInView, FS_Subset, FS_CardinalityType
  <2>6. size \in Nat /\ Cardinality(listed) <= size
    BY <2>5
  <2>7. \A page \in SUBSET listed : MayBePage(page, listed, before, 1, size) <=> page = listed
    <3> HIDE DEF size
    <3> QED BY <2>4, <2>5, <2>6, PageOfAll
  <2>8. pages = {listed}
    BY <2>7
  <2> HIDE DEF pages
  <2>9. GetTrades(raw, NoSort, 1, size) = {answer(listed)}
    BY <1>1, <2>1, <2>8
  <2>10. GetTrades(raw, NoSort, 1, size) =
            IF Junk \in raw.collectionId \cup raw.tokenId \/ \E v \in listed : ~Shown(v)
            THEN {Refused} ELSE {{TradeOffer(v) : v \in listed}}
    BY <1>3, <2>9
  <2> QED BY <2>10 DEF listed, q
<1> QED BY <1>2, <1>3

LEMMA TradesKept == ASSUME TablesOK, NEW raw \in TradesFilter PROVE TradesKeepTo(raw)
<1> DEFINE q == ParseTradesFilter(raw)
           asked == {v \in ViewTrades :
                       /\ raw.accountId \in {Absent, Blank, v.offer.seller, v.buyer}
                       /\ Given(raw.collectionId) # {} => v.offer.token[1] \in raw.collectionId
                       /\ Given(raw.tokenId) # {} => v.offer.token[2] \in raw.tokenId
                       /\ raw.searchText \in Nat => v.offer.token[2] = raw.searchText}
<1>1. ASSUME raw.searchText \in Nat \cup {Absent, Blank}, Junk \notin raw.collectionId \cup raw.tokenId
      PROVE  FilterTrades(q) = asked
  <2>1. /\ q.collectionId = Given(raw.collectionId) /\ q.tokenId = Given(raw.tokenId)
        /\ q.searchText = Text(raw.searchText) /\ q.accountId = Text(raw.accountId)
    BY <1>1, TradesParsed
  <2>2. Blank \notin Nat /\ Absent \notin Nat
    BY RequestInputs
  <2>3. Text(raw.searchText) \in Nat \cup {Absent} /\ (Text(raw.searchText) \in Nat <=> raw.searchText \in Nat)
        /\ (raw.searchText \in Nat => Text(raw.searchText) = raw.searchText)
    BY <1>1, <2>2 DEF Text
  <2> HIDE DEF q
  <2>4. ASSUME NEW v \in ViewTrades
        PROVE  /\ q.accountId \in {Absent, v.offer.seller, v.buyer} <=> raw.accountId \in {Absent, Blank, v.offer.seller, v.buyer}
               /\ OneOf(v.offer.token[1], q.collectionId) <=> (Given(raw.collectionId) # {} => v.offer.token[1] \in raw.collectionId)
               /\ OneOf(v.offer.token[2], q.tokenId) <=> (Given(raw.tokenId) # {} => v.offer.token[2] \in raw.tokenId)
    <3>1. v.offer.token[1] # Blank /\ v.offer.token[2] # Blank
      BY <2>2, TradesInView
    <3>2. q.accountId \in {Absent, v.offer.seller, v.buyer} <=> raw.accountId \in {Absent, Blank, v.offer.seller, v.buyer}
      BY <2>1 DEF Text
    <3>3. OneOf(v.offer.token[1], q.collectionId) <=> (Given(raw.collectionId) # {} => v.offer.token[1] \in raw.collectionId)
      BY <2>1, <3>1 DEF OneOf, Given
    <3>4. OneOf(v.offer.token[2], q.tokenId) <=> (Given(raw.tokenId) # {} => v.offer.token[2] \in raw.tokenId)
      BY <2>1, <3>1 DEF OneOf, Given
    <3> QED BY <3>2, <3>3, <3>4
  <2> QED BY <2>1, <2>3, <2>4 DEF FilterTrades
<1>2. ASSUME raw.searchText \in Nat \cup {Absent, Blank}
      PROVE  GetTrades(raw, NoSort, 1, Len(trades) + 1) =
               IF Junk \in raw.collectionId \cup raw.tokenId \/ \E v \in asked : ~Shown(v)
               THEN {Refused} ELSE {{TradeOffer(v) : v \in asked}}
  <2>1. CASE Junk \in raw.collectionId \cup raw.tokenId
    BY <2>1, TradesAnswered
  <2>2. CASE Junk \notin raw.collectionId \cup raw.tokenId
    <3>1. FilterTrades(q) = asked
      BY <1>1, <1>2, <2>2
    <3> HIDE DEF asked
    <3> QED BY <3>1, TradesAnswered
  <2> QED BY <2>1, <2>2
<1> QED BY <1>2 DEF TradesKeepTo

\* A sort of trades with a date in it, as every column that is none of these is.
Dated(columns) ==
  /\ columns \in Seq(SortingParameter)
  /\ \E i \in DOMAIN columns : columns[i].column \notin {"Price", "TokenId", "CollectionId"}

LEMMA DatedIsOrder ==
  ASSUME TablesOK, NEW columns, Dated(columns), NEW listed \in SUBSET ViewTrades
  PROVE  IsOrder(TradesBefore(listed, columns), listed)
<1> DEFINE places(v) == [i \in DOMAIN columns |-> TradePlace(v, columns[i])]
           asc == [i \in DOMAIN columns |-> TradeAscending(columns[i])]
           n == Len(columns)
<1>1. \A u, v : <<u, v>> \in TradesBefore(listed, columns) <=>
                  u \in listed /\ v \in listed /\ Precedes(places(u), places(v), asc)
  BY DEF TradesBefore
<1>2. DOMAIN columns = 1 .. n /\ n \in Nat /\ DOMAIN asc = 1 .. n
  BY LenProperties DEF Dated
<1>3. ASSUME NEW v \in listed
      PROVE  places(v) \in [1 .. n -> Nat]
  <2>1. v.trade \in Nat /\ v.offer.price \in Nat /\ v.offer.token[1] \in Nat /\ v.offer.token[2] \in Nat
    BY TradesInView
  <2>2. \A i \in DOMAIN columns : TradePlace(v, columns[i]) \in Nat
    BY <2>1 DEF TradePlace
  <2> QED BY <1>2, <2>2
<1>4. PICK d \in DOMAIN columns : columns[d].column \notin {"Price", "TokenId", "CollectionId"}
  BY DEF Dated
<1>5. \A v : places(v)[d] = v.trade
  BY <1>4 DEF TradePlace
<1>6. \A u, v \in listed : u # v => places(u)[d] # places(v)[d]
  BY <1>5, TradesInView
<1> HIDE DEF places, asc, n
<1>7. \A u, v \in listed : u # v => Precedes(places(u), places(v), asc) \/ Precedes(places(v), places(u), asc)
  <2> SUFFICES ASSUME NEW u \in listed, NEW v \in listed, u # v
               PROVE  Precedes(places(u), places(v), asc) \/ Precedes(places(v), places(u), asc)
    OBVIOUS
  <2>1. places(u) \in [1 .. n -> Nat] /\ places(v) \in [1 .. n -> Nat] /\ places(u)[d] # places(v)[d] /\ d \in 1 .. n
    BY <1>2, <1>3, <1>6
  <2> QED BY <1>2, <2>1, PrecedesOneWay
<1>8. \A v \in listed : ~Precedes(places(v), places(v), asc)
  BY <1>2, <1>3, PrecedesNotSelf
<1>9. \A u, v, w \in listed :
        Precedes(places(u), places(v), asc) /\ Precedes(places(v), places(w), asc) => Precedes(places(u), places(w), asc)
  <2> SUFFICES ASSUME NEW u \in listed, NEW v \in listed, NEW w \in listed,
                      Precedes(places(u), places(v), asc), Precedes(places(v), places(w), asc)
               PROVE  Precedes(places(u), places(w), asc)
    OBVIOUS
  <2>1. places(u) \in [1 .. n -> Nat] /\ places(v) \in [1 .. n -> Nat] /\ places(w) \in [1 .. n -> Nat]
    BY <1>3
  <2> QED BY <1>2, <2>1, PrecedesOn
<1> QED BY <1>1, <1>7, <1>8, <1>9 DEF IsOrder, IsTotal

LEMMA TradePages ==
  ASSUME TablesOK, NEW raw \in TradesFilter, NEW sort \in SortingRequest, Dated(ParseTradesSort(sort))
  PROVE  TradePagesMeet(raw, sort)
<1> DEFINE q == ParseTradesFilter(raw)
           listed == FilterTrades(q)
           before == TradesBefore(listed, ParseTradesSort(sort))
           page(n) == GetTrades(raw, sort, n, 1)
           ahead(v) == Cardinality(Ahead(v, listed, before))
<1> SUFFICES ASSUME NEW list \in GetTrades(raw, NoSort, 1, Len(trades) + 1) \ {Refused}
             PROVE  /\ \A n \in 1 .. Cardinality(list) : Cardinality(page(n)) = 1
                    /\ UNION {UNION page(n) : n \in 1 .. Cardinality(list)} = list
  BY DEF TradePagesMeet
<1>1. /\ q # Refused /\ list = {TradeOffer(v) : v \in listed} /\ \A v \in listed : Shown(v)
  BY TradesAnswered, TradesParsed
<1>2. listed \in SUBSET ViewTrades
  BY DEF FilterTrades
<1>3. IsFiniteSet(listed) /\ IsOrder(before, listed)
  <2> HIDE DEF listed
  <2> QED BY <1>2, TradesInView, DatedIsOrder, FS_Subset
<1>4. Cardinality(list) = Cardinality(listed)
  <2> DEFINE f == [v \in listed |-> TradeOffer(v)]
  <2>1. \A v : TradeOffer(v).tradeDate = v.trade
    BY DEF TradeOffer
  <2>2. /\ f \in [listed -> list]
        /\ \A u, v \in listed : f[u] = f[v] => u = v
        /\ \A x \in list : \E v \in listed : f[v] = x
    <3> HIDE DEF listed
    <3>1. \A u, v \in listed : TradeOffer(u) = TradeOffer(v) => u = v
      BY <1>2, <2>1, TradesInView
    <3> QED BY <1>1, <3>1
  <2> HIDE DEF f, listed
  <2> QED BY <1>3, <2>2, OneToOne
<1>5. ASSUME NEW n \in 1 .. Cardinality(listed), NEW v \in listed, ahead(v) = n - 1
      PROVE  page(n) = {{TradeOffer(v)}}
  <2> DEFINE pages == {p \in SUBSET listed : MayBePage(p, listed, before, n, 1)}
             answer(p) == IF \A u \in p : Shown(u) THEN {TradeOffer(u) : u \in p} ELSE Refused
  <2>1. page(n) = {answer(p) : p \in pages}
    BY <1>1 DEF GetTrades
  <2> HIDE DEF listed, before
  <2>2. \A u \in listed : ahead(u) = n - 1 <=> u = v
    BY <1>3, <1>5, PlacesDiffer
  <2>3. pages = {{v}}
    <3>1. \A p \in SUBSET listed : MayBePage(p, listed, before, n, 1) <=> \E u \in listed : p = {u} /\ ahead(u) = n - 1
      BY <1>3, PageOfOne
    <3> HIDE DEF ahead
    <3> QED BY <2>2, <3>1
  <2>4. answer({v}) = {TradeOffer(v)}
    BY <1>1
  <2> HIDE DEF pages, answer, page
  <2> QED BY <2>1, <2>3, <2>4
<1> HIDE DEF page, listed, before
<1>6. \A n \in 1 .. Cardinality(listed) : \E v \in listed : ahead(v) = n - 1
  BY <1>3, EveryPlaceTaken
<1>7. \A v \in listed : ahead(v) + 1 \in 1 .. Cardinality(listed) /\ (ahead(v) + 1) - 1 = ahead(v)
  <2>1. Cardinality(listed) \in Nat /\ \A v \in listed : ahead(v) \in 0 .. Cardinality(listed) - 1
    BY <1>3, PlacesDiffer, FS_CardinalityType
  <2> HIDE DEF ahead
  <2> QED BY <2>1
<1> HIDE DEF ahead
<1>8. ASSUME NEW n \in 1 .. Cardinality(list)
      PROVE  \E v \in listed : page(n) = {{TradeOffer(v)}}
  BY <1>4, <1>5, <1>6
<1>9. \A n \in 1 .. Cardinality(list) : Cardinality(page(n)) = 1
  BY <1>8, FS_Singleton
<1>10. \A x \in list : \E n \in 1 .. Cardinality(list) : page(n) = {{x}}
  <2> TAKE x \in list
  <2>1. PICK v \in listed : x = TradeOffer(v)
    BY <1>1
  <2>2. page(ahead(v) + 1) = {{x}}
    BY <1>5, <1>7, <2>1
  <2> QED BY <1>4, <1>7, <2>2
<1>11. UNION {UNION page(n) : n \in 1 .. Cardinality(list)} = list
  <2>1. \A n \in 1 .. Cardinality(list) : \E x \in list : page(n) = {{x}} /\ UNION page(n) = {x}
    <3> TAKE n \in 1 .. Cardinality(list)
    <3>1. PICK v \in listed : page(n) = {{TradeOffer(v)}}
      BY <1>8
    <3>2. TradeOffer(v) \in list
      BY <1>1
    <3>3. UNION page(n) = {TradeOffer(v)}
      <4>1. UNION {{TradeOffer(v)}} = {TradeOffer(v)}
        OBVIOUS
      <4> QED BY <3>1, <4>1
    <3> QED BY <3>1, <3>2, <3>3
  <2>2. \A x \in list : \E n \in 1 .. Cardinality(list) : UNION page(n) = {x}
    <3> TAKE x \in list
    <3>1. PICK n \in 1 .. Cardinality(list) : page(n) = {{x}}
      BY <1>10
    <3>2. UNION {{x}} = {x}
      OBVIOUS
    <3>3. UNION page(n) = {x}
      BY <3>1, <3>2
    <3> QED BY <3>3
  <2> QED BY <2>1, <2>2
<1> QED BY <1>9, <1>11

\* Of all requests for trades, and of all sorts with a date.
EveryTradeListKeepsTo ==
  \A raw \in TradesFilter :
    /\ TradesKeepTo(raw)
    /\ \A sort \in SortingRequest : Dated(ParseTradesSort(sort)) => TradePagesMeet(raw, sort)

\* A list of trades is those it is asked for, and pages of one that are sorted by a
\* date tell each of them once, whatever text is searched for.
THEOREM TradeListsHold == Spec => [](EveryTradeListKeepsTo /\ TradeListsKeepTo)
<1>1. TablesOK => EveryTradeListKeepsTo
  BY TradesKept, TradePages DEF EveryTradeListKeepsTo
<1>2. EveryTradeListKeepsTo => TradeListsKeepTo
  <2> SUFFICES ASSUME EveryTradeListKeepsTo
               PROVE  /\ \A raw \in TradeRequests : TradesKeepTo(raw)
                      /\ \A sort \in TradeSorts : TradePagesMeet(AllTrades, sort)
    BY DEF TradeListsKeepTo
  <2>1. TradeRequests \subseteq TradesFilter /\ TradeSorts \subseteq SortingRequest
    BY RequestsAreTyped
  <2>2. AllTrades \in TradesFilter
    BY DEF AllTrades, TradesFilter, Single
  <2>3. ASSUME NEW sort \in TradeSorts
        PROVE  Dated(ParseTradesSort(sort))
    <3>1. PICK c \in {"Price", "CollectionId", "TokenId"}, d \in {"CreationDate", "TradeDate"}, a \in BOOLEAN, b \in BOOLEAN :
            sort = [given |-> "string", columns |-> <<[column |-> c, asc |-> a], [column |-> d, asc |-> b]>>]
      BY DEF TradeSorts
    <3>2. ParseTradesSort(sort) = <<[column |-> c, asc |-> a], [column |-> d, asc |-> b]>>
      BY <3>1 DEF ParseTradesSort, ParseSort
    <3>3. ParseTradesSort(sort) \in Seq(SortingParameter)
      BY <2>1, <3>1 DEF SortingRequest, ParseTradesSort, ParseSort
    <3>4. 2 \in DOMAIN ParseTradesSort(sort) /\ ParseTradesSort(sort)[2].column = d
      BY <3>2
    <3> QED BY <3>3, <3>4 DEF Dated
  <2> QED BY <2>1, <2>2, <2>3 DEF EveryTradeListKeepsTo
<1> QED BY <1>1, <1>2, TablesHold, PTL

-----------------------------------------------------------------------------
(* Amounts.                                                                *)

LEMMA RepeatedProperties ==
  ASSUME NEW n \in Nat
  PROVE  /\ Repeated(0, n) \in Seq(Nat) /\ Len(Repeated(0, n)) = n
         /\ \A i \in 1 .. n : Repeated(0, n)[i] = 0
<1>1. Repeated(0, n) \in [1 .. n -> Nat]
  BY DEF Repeated
<1>2. Repeated(0, n) \in Seq(Nat)
  BY <1>1, SeqDef
<1>3. DOMAIN Repeated(0, n) = 1 .. n /\ Len(Repeated(0, n)) \in Nat
      /\ DOMAIN Repeated(0, n) = 1 .. Len(Repeated(0, n))
  BY <1>1, <1>2, LenProperties
<1> QED BY <1>2, <1>3 DEF Repeated

\* Where the first digit is that is not 0, and where the last.
Starts(digits, i) ==
  /\ i \in 1 .. Len(digits) + 1 /\ \A j \in 1 .. i - 1 : digits[j] = 0
  /\ i <= Len(digits) => digits[i] # 0
Ends(digits, i) ==
  /\ i \in 0 .. Len(digits) /\ \A j \in i + 1 .. Len(digits) : digits[j] = 0
  /\ i > 0 => digits[i] # 0

LEMMA SomewhereStarts == ASSUME NEW digits \in Seq(Nat) PROVE \E i : Starts(digits, i)
<1> DEFINE S == {j \in 1 .. Len(digits) : digits[j] # 0}
<1>1. Len(digits) \in Nat
  BY LenProperties
<1>2. CASE S = {}
  BY <1>1, <1>2 DEF Starts
<1>3. CASE S # {}
  <2>1. S \in SUBSET Nat
    OBVIOUS
  <2> HIDE DEF S
  <2>2. PICK i \in S : \A j \in S : i <= j
    BY <1>3, <2>1, LeastNumber
  <2>3. Starts(digits, i)
    BY <1>1, <2>2 DEF Starts, S
  <2> QED BY <2>3
<1> QED BY <1>2, <1>3

LEMMA SomewhereEnds == ASSUME NEW digits \in Seq(Nat) PROVE \E i : Ends(digits, i)
<1> DEFINE S == {n \in 0 .. Len(digits) : \A j \in n + 1 .. Len(digits) : digits[j] = 0}
<1>1. Len(digits) \in Nat
  BY LenProperties
<1>2. S \in SUBSET Nat /\ Len(digits) \in S
  BY <1>1
<1> HIDE DEF S
<1>3. PICK i \in S : \A j \in S : i <= j
  BY <1>2, LeastNumber
<1>4. i \in 0 .. Len(digits) /\ \A j \in i + 1 .. Len(digits) : digits[j] = 0
  BY <1>3 DEF S
<1>5. ASSUME i > 0, digits[i] = 0
      PROVE  FALSE
  <2>1. i - 1 \in S
    BY <1>1, <1>4, <1>5 DEF S
  <2> QED BY <1>3, <1>4, <2>1
<1>6. Ends(digits, i)
  BY <1>4, <1>5 DEF Ends
<1> QED BY <1>6

\* The digits without the zeros before are what follows those zeros.
LEMMA FromTheStart ==
  ASSUME NEW digits \in Seq(Nat), NEW i, Starts(digits, i)
  PROVE  NoLeadingZeros(digits) = SubSeq(digits, i, Len(digits))
<1> DEFINE start == CHOOSE n \in 1 .. Len(digits) + 1 :
                      /\ \A j \in 1 .. n - 1 : digits[j] = 0
                      /\ n <= Len(digits) => digits[n] # 0
<1>1. Len(digits) \in Nat
  BY LenProperties
<1>2. Starts(digits, start)
  BY DEF Starts
<1> HIDE DEF start
<1>3. start = i
  <2>1. ~(i < start)
    BY <1>1, <1>2 DEF Starts
  <2>2. ~(start < i)
    BY <1>1, <1>2 DEF Starts
  <2> QED BY <1>1, <1>2, <2>1, <2>2 DEF Starts
<1> QED BY <1>3 DEF NoLeadingZeros, start

LEMMA ToTheEnd ==
  ASSUME NEW digits \in Seq(Nat), NEW i, Ends(digits, i)
  PROVE  NoTrailingZeros(digits) = SubSeq(digits, 1, i)
<1> DEFINE end == CHOOSE n \in 0 .. Len(digits) :
                    /\ \A j \in n + 1 .. Len(digits) : digits[j] = 0
                    /\ n > 0 => digits[n] # 0
<1>1. Len(digits) \in Nat
  BY LenProperties
<1>2. Ends(digits, end)
  BY DEF Ends
<1> HIDE DEF end
<1>3. end = i
  <2>1. ~(i < end)
    BY <1>1, <1>2 DEF Ends
  <2>2. ~(end < i)
    BY <1>1, <1>2 DEF Ends
  <2> QED BY <1>1, <1>2, <2>1, <2>2 DEF Ends
<1> QED BY <1>3 DEF NoTrailingZeros, Front, end

\* What a part of a list of digits is, and what two lists make, in words of their
\* digits.
LEMMA PartOfDigits ==
  ASSUME NEW digits \in Seq(Nat), NEW m \in Nat \ {0}, NEW n \in Nat, n <= Len(digits)
  PROVE  /\ SubSeq(digits, m, n) \in Seq(Nat)
         /\ Len(SubSeq(digits, m, n)) = IF m <= n THEN n - m + 1 ELSE 0
         /\ \A i \in 1 .. n - m + 1 : SubSeq(digits, m, n)[i] = digits[m + i - 1]
<1>1. Len(digits) \in Nat /\ \A i \in 1 .. Len(digits) : digits[i] \in Nat
  BY LenProperties
<1>2. m \in Int /\ n \in Int /\ \A i \in m .. n : digits[i] \in Nat
  BY <1>1
<1> QED BY <1>2, SubSeqProperties

LEMMA DigitsAfterDigits ==
  ASSUME NEW s \in Seq(Nat), NEW t \in Seq(Nat)
  PROVE  /\ s \o t \in Seq(Nat) /\ Len(s \o t) = Len(s) + Len(t)
         /\ Len(s) \in Nat /\ Len(t) \in Nat
         /\ \A i \in 1 .. Len(s) : (s \o t)[i] = s[i]
         /\ \A i \in 1 .. Len(t) : (s \o t)[Len(s) + i] = t[i]
<1> DEFINE both == s \o t
<1>1. Len(s) \in Nat /\ Len(t) \in Nat
  BY LenProperties
<1>2. /\ both \in Seq(Nat) /\ Len(both) = Len(s) + Len(t)
      /\ \A i \in 1 .. Len(s) + Len(t) : both[i] = IF i <= Len(s) THEN s[i] ELSE t[i - Len(s)]
  BY ConcatProperties
<1> HIDE DEF both
<1>3. \A i \in 1 .. Len(s) : both[i] = s[i]
  BY <1>1, <1>2
<1>4. \A i \in 1 .. Len(t) : both[Len(s) + i] = t[i]
  <2> TAKE i \in 1 .. Len(t)
  <2>1. /\ Len(s) + i \in 1 .. Len(s) + Len(t) /\ ~(Len(s) + i <= Len(s))
        /\ (Len(s) + i) - Len(s) = i
    BY <1>1
  <2> QED BY <1>2, <2>1
<1> QED BY <1>1, <1>2, <1>3, <1>4 DEF both

\* Zeros before make no difference.
LEMMA ZerosBefore ==
  ASSUME NEW zeros \in Seq(Nat), \A i \in 1 .. Len(zeros) : zeros[i] = 0, NEW digits \in Seq(Nat)
  PROVE  NoLeadingZeros(zeros \o digits) = NoLeadingZeros(digits)
<1> DEFINE whole == zeros \o digits
           m == Len(zeros)
<1>1. /\ whole \in Seq(Nat) /\ Len(whole) = m + Len(digits) /\ m \in Nat /\ Len(digits) \in Nat
      /\ \A i \in 1 .. m : whole[i] = 0
      /\ \A i \in 1 .. Len(digits) : whole[m + i] = digits[i]
  BY DigitsAfterDigits
<1> HIDE DEF whole, m
<1>2. PICK i : Starts(digits, i)
  BY SomewhereStarts
<1>3. i \in 1 .. Len(digits) + 1 /\ m + i \in 1 .. Len(whole) + 1
  BY <1>1, <1>2 DEF Starts
<1>4. Starts(whole, m + i)
  <2>1. ASSUME NEW j \in 1 .. (m + i) - 1
        PROVE  whole[j] = 0
    <3>1. CASE j <= m
      BY <1>1, <2>1, <3>1
    <3>2. CASE j > m
      <4>1. j - m \in 1 .. i - 1 /\ j - m \in 1 .. Len(digits) /\ m + (j - m) = j
        BY <1>1, <1>3, <2>1, <3>2
      <4> QED BY <1>1, <1>2, <4>1 DEF Starts
    <3> QED BY <1>1, <1>3, <2>1, <3>1, <3>2
  <2>2. ASSUME m + i <= Len(whole)
        PROVE  whole[m + i] # 0
    <3>1. i \in 1 .. Len(digits)
      BY <1>1, <1>3, <2>2
    <3> QED BY <1>1, <1>2, <3>1 DEF Starts
  <2> QED BY <1>3, <2>1, <2>2 DEF Starts
<1>5. /\ NoLeadingZeros(whole) = SubSeq(whole, m + i, Len(whole))
      /\ NoLeadingZeros(digits) = SubSeq(digits, i, Len(digits))
  BY <1>1, <1>2, <1>4, FromTheStart
<1>6. /\ SubSeq(whole, m + i, Len(whole)) \in Seq(Nat)
      /\ Len(SubSeq(whole, m + i, Len(whole))) = IF m + i <= Len(whole) THEN Len(whole) - (m + i) + 1 ELSE 0
      /\ \A j \in 1 .. Len(whole) - (m + i) + 1 :
           SubSeq(whole, m + i, Len(whole))[j] = whole[(m + i) + j - 1]
  <2>1. m + i \in Nat \ {0} /\ Len(whole) \in Nat /\ Len(whole) <= Len(whole)
    BY <1>1, <1>3
  <2> QED BY <1>1, <2>1, PartOfDigits
<1>7. /\ SubSeq(digits, i, Len(digits)) \in Seq(Nat)
      /\ Len(SubSeq(digits, i, Len(digits))) = IF i <= Len(digits) THEN Len(digits) - i + 1 ELSE 0
      /\ \A j \in 1 .. Len(digits) - i + 1 : SubSeq(digits, i, Len(digits))[j] = digits[i + j - 1]
  <2>1. i \in Nat \ {0} /\ Len(digits) \in Nat /\ Len(digits) <= Len(digits)
    BY <1>1, <1>3
  <2> QED BY <2>1, PartOfDigits
<1> DEFINE left == SubSeq(whole, m + i, Len(whole))
           right == SubSeq(digits, i, Len(digits))
<1>8. left \in Seq(Nat) /\ right \in Seq(Nat) /\ Len(left) = Len(right)
  BY <1>1, <1>3, <1>6, <1>7
<1>9. \A j \in 1 .. Len(left) : left[j] = right[j]
  <2> TAKE j \in 1 .. Len(left)
  <2>1. j \in 1 .. Len(whole) - (m + i) + 1 /\ j \in 1 .. Len(digits) - i + 1
    BY <1>1, <1>3, <1>6
  <2>2. left[j] = whole[(m + i) + j - 1] /\ right[j] = digits[i + j - 1]
    BY <1>6, <1>7, <2>1
  <2>3. i + j - 1 \in 1 .. Len(digits) /\ m + (i + j - 1) = (m + i) + j - 1
    BY <1>1, <1>3, <2>1
  <2> QED BY <1>1, <2>2, <2>3
<1> HIDE DEF left, right
<1>10. left = right
  BY <1>8, <1>9, SeqEqual
<1> QED BY <1>5, <1>10 DEF left, right, whole

\* Digits that start with one that is not 0, or with none, stay as they are.
LEMMA NoneLeft ==
  ASSUME NEW digits \in Seq(Nat), Len(digits) > 0 => digits[1] # 0
  PROVE  NoLeadingZeros(digits) = digits
<1>1. Len(digits) \in Nat
  BY LenProperties
<1>2. Starts(digits, 1)
  BY <1>1 DEF Starts
<1>3. NoLeadingZeros(digits) = SubSeq(digits, 1, Len(digits))
  BY <1>2, FromTheStart
<1> QED BY <1>3, SubSeqFull

LEMMA OnceIsEnough ==
  ASSUME NEW digits \in Seq(Nat)
  PROVE  NoLeadingZeros(digits) \in Seq(Nat) /\ NoLeadingZeros(NoLeadingZeros(digits)) = NoLeadingZeros(digits)
<1> DEFINE left == NoLeadingZeros(digits)
<1>1. Len(digits) \in Nat
  BY LenProperties
<1>2. PICK i : Starts(digits, i)
  BY SomewhereStarts
<1>3. i \in 1 .. Len(digits) + 1 /\ i \in Nat \ {0} /\ Len(digits) <= Len(digits)
  BY <1>1, <1>2 DEF Starts
<1>4. left = SubSeq(digits, i, Len(digits))
  BY <1>2, FromTheStart
<1>5. /\ left \in Seq(Nat) /\ Len(left) = IF i <= Len(digits) THEN Len(digits) - i + 1 ELSE 0
      /\ \A j \in 1 .. Len(digits) - i + 1 : left[j] = digits[i + j - 1]
  BY <1>1, <1>3, <1>4, PartOfDigits
<1> HIDE DEF left
<1>6. ASSUME Len(left) > 0
      PROVE  left[1] # 0
  <2>1. i <= Len(digits) /\ 1 \in 1 .. Len(digits) - i + 1 /\ i + 1 - 1 = i
    BY <1>1, <1>3, <1>5, <1>6
  <2>2. left[1] = digits[i]
    BY <1>5, <2>1
  <2> QED BY <1>2, <2>1, <2>2 DEF Starts
<1>7. NoLeadingZeros(left) = left
  BY <1>5, <1>6, NoneLeft
<1> QED BY <1>5, <1>7 DEF left

LEMMA ZeroIsNothing == NoLeadingZeros(<<0>>) = <<>>
<1>1. <<0>> \in Seq(Nat) /\ Len(<<0>>) = 1 /\ <<0>>[1] = 0
  OBVIOUS
<1>2. Starts(<<0>>, 2)
  BY <1>1 DEF Starts
<1>3. NoLeadingZeros(<<0>>) = SubSeq(<<0>>, 2, Len(<<0>>))
  BY <1>1, <1>2, FromTheStart
<1>4. SubSeq(<<0>>, 2, 1) = <<>>
  BY SubSeqEmpty
<1> QED BY <1>1, <1>3, <1>4

\* What padStart returns is at least that long, and worth the same.
LEMMA PaddedBefore ==
  ASSUME NEW digits \in Seq(Nat), NEW n \in Nat
  PROVE  /\ PadStart(digits, n) \in Seq(Nat) /\ Len(PadStart(digits, n)) >= n
         /\ NoLeadingZeros(PadStart(digits, n)) = NoLeadingZeros(digits)
<1>1. Len(digits) \in Nat
  BY LenProperties
<1>2. CASE Len(digits) >= n
  BY <1>2 DEF PadStart
<1>3. CASE ~(Len(digits) >= n)
  <2> DEFINE k == n - Len(digits)
             zeros == Repeated(0, k)
  <2>1. k \in Nat /\ k + Len(digits) = n
    BY <1>1, <1>3
  <2>2. PadStart(digits, n) = zeros \o digits
    BY <1>3 DEF PadStart
  <2> HIDE DEF k
  <2>3. zeros \in Seq(Nat) /\ Len(zeros) = k /\ \A i \in 1 .. k : zeros[i] = 0
    BY <2>1, RepeatedProperties
  <2> HIDE DEF zeros
  <2>4. zeros \o digits \in Seq(Nat) /\ Len(zeros \o digits) = k + Len(digits)
    BY <2>3, DigitsAfterDigits
  <2>5. NoLeadingZeros(zeros \o digits) = NoLeadingZeros(digits)
    BY <2>3, ZerosBefore
  <2>6. n >= n
    BY <1>1
  <2> QED BY <2>1, <2>2, <2>4, <2>5, <2>6
<1> QED BY <1>2, <1>3

\* padEnd puts back the zeros that were cut at the end.
LEMMA FilledUp ==
  ASSUME NEW digits \in Seq(Nat)
  PROVE  PadEnd(NoTrailingZeros(digits), Len(digits)) = digits
<1> DEFINE n == Len(digits)
           short == NoTrailingZeros(digits)
<1>1. n \in Nat
  BY LenProperties
<1>2. PICK i : Ends(digits, i)
  BY SomewhereEnds
<1>3. i \in 0 .. n /\ i \in Nat /\ i <= Len(digits) /\ 1 \in Nat \ {0}
  BY <1>1, <1>2 DEF Ends
<1>4. short = SubSeq(digits, 1, i)
  BY <1>2, ToTheEnd
<1>5. /\ short \in Seq(Nat) /\ Len(short) = i
      /\ \A j \in 1 .. i : short[j] = digits[j]
  <2> DEFINE part == SubSeq(digits, 1, i)
  <2>1. /\ part \in Seq(Nat) /\ Len(part) = IF 1 <= i THEN i - 1 + 1 ELSE 0
        /\ \A j \in 1 .. i - 1 + 1 : part[j] = digits[1 + j - 1]
    BY <1>3, PartOfDigits
  <2> HIDE DEF part
  <2>2. \A j \in 1 .. i : part[j] = digits[j]
    <3> TAKE j \in 1 .. i
    <3>1. j \in 1 .. i - 1 + 1 /\ 1 + j - 1 = j
      BY <1>3
    <3> QED BY <2>1, <3>1
  <2>3. Len(part) = i
    BY <1>3, <2>1
  <2> QED BY <1>4, <2>1, <2>2, <2>3 DEF part
<1> HIDE DEF short
<1>6. CASE i = n
  <2>1. Len(short) >= n
    BY <1>1, <1>5, <1>6
  <2>2. SubSeq(digits, 1, n) = digits
    BY SubSeqFull
  <2> QED BY <1>4, <1>6, <2>1, <2>2 DEF PadEnd, short
<1>7. CASE i # n
  <2> DEFINE k == n - i
             zeros == Repeated(0, k)
             full == short \o zeros
  <2>1. k \in Nat /\ i + k = n /\ ~(Len(short) >= n)
    BY <1>1, <1>3, <1>5, <1>7
  <2>2. PadEnd(short, n) = full
    BY <1>5, <2>1 DEF PadEnd
  <2> HIDE DEF k, n
  <2>3. zeros \in Seq(Nat) /\ Len(zeros) = k /\ \A j \in 1 .. k : zeros[j] = 0
    BY <2>1, RepeatedProperties
  <2> HIDE DEF zeros
  <2>4. /\ full \in Seq(Nat) /\ Len(full) = n
        /\ \A j \in 1 .. i : full[j] = short[j]
        /\ \A j \in 1 .. k : full[i + j] = zeros[j]
    <3>1. /\ full \in Seq(Nat) /\ Len(full) = Len(short) + Len(zeros)
          /\ \A j \in 1 .. Len(short) : full[j] = short[j]
          /\ \A j \in 1 .. Len(zeros) : full[Len(short) + j] = zeros[j]
      BY <1>5, <2>3, DigitsAfterDigits
    <3> HIDE DEF full
    <3> QED BY <1>5, <2>1, <2>3, <3>1
  <2> HIDE DEF full
  <2>5. \A j \in 1 .. Len(full) : full[j] = digits[j]
    <3> TAKE j \in 1 .. Len(full)
    <3>1. CASE j <= i
      <4>1. j \in 1 .. i
        BY <1>1, <1>3, <2>4, <3>1
      <4> QED BY <1>5, <2>4, <4>1
    <3>2. CASE ~(j <= i)
      <4>1. /\ j - i \in 1 .. k /\ i + (j - i) = j
            /\ j \in i + 1 .. n
        BY <1>1, <1>3, <2>1, <2>4, <3>2
      <4>2. full[j] = 0
        BY <2>3, <2>4, <4>1
      <4>3. digits[j] = 0
        BY <1>2, <4>1 DEF Ends, n
      <4> QED BY <4>2, <4>3
    <3> QED BY <3>1, <3>2
  <2>6. full = digits
    BY <2>4, <2>5, SeqEqual DEF n
  <2> QED BY <2>2, <2>6 DEF n, short
<1> QED BY <1>6, <1>7

LEMMA AmountRoundTrips ==
  ASSUME NEW raw \in Seq(Nat), NEW decimals \in Nat
  PROVE  NoLeadingZeros(GetRawAmount(GetParsedAmount(raw, decimals), decimals)) = NoLeadingZeros(raw)
<1> DEFINE digits == NoLeadingZeros(raw)
           s == IF NoLeadingZeros(raw) = <<>> THEN <<0>> ELSE NoLeadingZeros(raw)
           padded == PadStart(s, decimals + 1)
           n == Len(padded)
           back == Back(padded, decimals)
<1>1. s \in Seq(Nat) /\ NoLeadingZeros(s) = digits
  BY OnceIsEnough, ZeroIsNothing
<1>2. GetParsedAmount(raw, decimals) =
        IF decimals = 0 THEN [whole |-> s, fraction |-> <<>>]
        ELSE [whole |-> Front(padded, n - decimals), fraction |-> NoTrailingZeros(back)]
  BY DEF GetParsedAmount
<1> HIDE DEF s
<1>3. CASE decimals = 0
  <2>1. PadEnd(<<>>, 0) = <<>>
    BY DEF PadEnd
  <2>2. Cut(<<>>, 0) = <<>>
    <3>1. SubSeq(<<>>, 1, 0) = <<>>
      BY SubSeqEmpty
    <3> QED BY <3>1 DEF Cut, Front
  <2>3. GetRawAmount(GetParsedAmount(raw, decimals), decimals) = s \o <<>>
    <3> DEFINE parsed == GetParsedAmount(raw, decimals)
    <3>1. parsed.whole = s /\ parsed.fraction = <<>>
      BY <1>2, <1>3
    <3> HIDE DEF parsed
    <3>2. GetRawAmount(parsed, decimals) = s \o Cut(PadEnd(<<>>, 0), 0)
      BY <1>3, <3>1 DEF GetRawAmount
    <3> QED BY <2>1, <2>2, <3>2 DEF parsed
  <2>4. s \o <<>> = s
    BY <1>1, ConcatEmptySeq
  <2> QED BY <1>1, <2>3, <2>4
<1>4. CASE decimals # 0
  <2>1. /\ padded \in Seq(Nat) /\ n >= decimals + 1
        /\ NoLeadingZeros(padded) = NoLeadingZeros(s)
    <3>1. decimals + 1 \in Nat
      OBVIOUS
    <3> QED BY <1>1, <3>1, PaddedBefore
  <2> HIDE DEF padded
  <2>2. n \in Nat
    BY <2>1, LenProperties
  <2>3. back = SubSeq(padded, n - decimals + 1, n)
    BY DEF Back
  <2>4. back \in Seq(Nat) /\ Len(back) = decimals
    <3>1. n - decimals + 1 \in Nat \ {0} /\ n - decimals + 1 <= n /\ n - (n - decimals + 1) + 1 = decimals /\ n <= Len(padded)
      BY <1>4, <2>1, <2>2
    <3>2. /\ SubSeq(padded, n - decimals + 1, n) \in Seq(Nat)
          /\ Len(SubSeq(padded, n - decimals + 1, n))
               = IF n - decimals + 1 <= n THEN n - (n - decimals + 1) + 1 ELSE 0
      BY <2>1, <2>2, <3>1, PartOfDigits
    <3> QED BY <2>3, <3>1, <3>2
  <2> HIDE DEF back
  <2>5. PadEnd(NoTrailingZeros(back), decimals) = back
    BY <2>4, FilledUp
  <2>6. Cut(back, decimals) = back
    <3>1. SubSeq(back, 1, Len(back)) = back
      BY <2>4, SubSeqFull
    <3> QED BY <2>4, <3>1 DEF Cut, Front
  <2>7. GetRawAmount(GetParsedAmount(raw, decimals), decimals) = Front(padded, n - decimals) \o back
    BY <1>2, <1>4, <2>5, <2>6 DEF GetRawAmount
  <2>8. Front(padded, n - decimals) \o back = padded
    <3>1. /\ 1 \in 1 .. n + 1 /\ n - decimals \in 1 - 1 .. n /\ n \in n - decimals .. n
      BY <2>1, <2>2
    <3>2. SubSeq(padded, 1, n - decimals) \o SubSeq(padded, (n - decimals) + 1, n) = SubSeq(padded, 1, n)
      BY <2>1, <3>1, ConcatAdjacentSubSeq
    <3>3. SubSeq(padded, 1, n) = padded
      BY <2>1, SubSeqFull
    <3> QED BY <2>3, <3>2, <3>3 DEF Front
  <2> QED BY <1>1, <2>1, <2>7, <2>8
<1> QED BY <1>3, <1>4

\* Whatever its digits and the decimals of its currency, an amount that getParsedAmount
\* has split is made whole again by getRawAmount, up to zeros at the front: the two
\* agree about the zeros that padStart and padEnd fill in and about those cut off.
EveryAmountRoundTrips ==
  \A raw \in Seq(Nat), decimals \in Nat :
    NoLeadingZeros(GetRawAmount(GetParsedAmount(raw, decimals), decimals)) = NoLeadingZeros(raw)

THEOREM AmountsComeBack == EveryAmountRoundTrips /\ (Spec => []AmountsRoundTrip)
<1>1. EveryAmountRoundTrips
  BY AmountRoundTrips DEF EveryAmountRoundTrips
<1>2. AmountsRoundTrip
  <2> SUFFICES ASSUME NEW n \in 1 .. 3, NEW decimals \in 0 .. 4, NEW raw \in [1 .. n -> {0, 7}]
               PROVE  NoLeadingZeros(GetRawAmount(GetParsedAmount(raw, decimals), decimals)) = NoLeadingZeros(raw)
    BY DEF AmountsRoundTrip
  <2>1. n \in Nat /\ decimals \in Nat /\ raw \in [1 .. n -> Nat]
    OBVIOUS
  <2>2. raw \in Seq(Nat)
    BY <2>1, SeqDef
  <2> QED BY <2>1, <2>2, AmountRoundTrips
<1>3. Spec => []AmountsRoundTrip
  BY <1>2, PTL
<1> QED BY <1>1, <1>3

=============================================================================
