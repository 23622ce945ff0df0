-------------------------- MODULE CollectionsProofs --------------------------
(***************************************************************************)
(* Theorems about Collections for all its constants.  Requests of all      *)
(* kinds, about all collections, and any number of jobs meet in one        *)
(* behaviour here, which the runs check one kind at a time.                *)
(***************************************************************************)
EXTENDS Collections, SequenceTheorems, FiniteSetTheorems, WellFoundedInduction, TLAPS

-----------------------------------------------------------------------------
(* The inductive invariant.                                                *)

PageSteps == {"read_offers", "read_collections"}
CountSteps == {"ask_total", "count_tokens", "count_holders", "price_stats", "save_count"}

MayAllow == Texts \cup {<<>>}
Stats == [min : Prices \cup {None}, max : Prices \cup {None}, sum : Nat \cup {None}]
CollectionRows ==
  [id : Ids, status : {"Enabled", "Disabled"}, allowed : MayAllow, metadata : {None, "links"},
   onMarket : Nat, tokens : Nat, total : Nat, holders : Nat, prices : Stats]
Counts == [onMarket : Nat, total : Nat, tokens : Nat, holders : Nat, prices : Stats, after : Nat]
PageReads == [curated : SUBSET Ids, active : SUBSET Ids]
Asked ==
  [op : {"none", "allowed", "metadata", "count", "page"},
   at : {"idle", "set_column"} \cup PageSteps \cup CountSteps,
   on : Ids \cup {None}, no : 0 .. MaxStarted,
   with : Texts \cup {"links", None} \cup BOOLEAN, read : Nat \cup Counts \cup PageReads \cup {None}]
Offer == [id : Ids, price : Prices, open : BOOLEAN]
Stock == [total : Nat, tokens : Nat, holders : Nat]
Words == [status : {"Enabled", "Disabled"}, allowed : MayAllow, metadata : {None, "links"}]

TypeInv ==
  /\ request \in [Requests -> Asked] /\ started \in 0 .. MaxStarted /\ failures \in 0 .. MaxFailures
  /\ rows \in Seq(CollectionRows)
  /\ jobs \in [Workers -> [id : Ids \cup {None}, key : Nat, total : Nat]]
  /\ listed \in Seq(Offer) /\ stock \in [Ids -> Stock] /\ curated \subseteq Ids
  /\ said \in [Ids -> Words] /\ changed \in 0 .. MaxChanges /\ counted \in [Ids -> Nat \cup {None}]

\* What the currencies, the banners and the order are when no request is about them.
Elsewhere == <<money, files, market, suspects>>
ElsewhereInv ==
  /\ {settings, accepted} \subseteq [Currencies -> Fees \cup {None}]
  /\ banners \in [Banners -> (1 .. MaxStarted) \cup {None, NoFile}] /\ bucket \subseteq 1 .. MaxStarted
  /\ chain = <<>> /\ offers = <<>> /\ worker = [done |-> 0, key |-> None] /\ suspects = {}

\* A job has found a row of its collection, or none.
JobInv ==
  \A w \in Workers : jobs[w] # NoJob =>
    /\ jobs[w].id \in Ids /\ jobs[w].key <= Len(rows)
    /\ jobs[w].key # 0 => rows[jobs[w].key].id = jobs[w].id

\* A request of an admin is about a row of the collection, and what it will allow has
\* been looked at.  Of a collection without a row the admin has said nothing.
NothingSaid == [status |-> "Enabled", allowed |-> <<>>, metadata |-> None]
WordInv ==
  /\ \A r \in Requests : At(r, "set_column") =>
       /\ On(r) \in Ids /\ Read(r) \in RowsOf(On(r))
       /\ \/ request[r].op = "allowed" /\ request[r].with \in Texts /\ CheckoutTokens(request[r].with)
          \/ request[r].op = "metadata" /\ request[r].with = "links"
  /\ \A k \in 1 .. Len(rows) :
       /\ CheckoutTokens(rows[k].allowed)
       /\ RowsOf(rows[k].id) = {k} =>
            /\ rows[k].status = said[rows[k].id].status
            /\ rows[k].allowed = said[rows[k].id].allowed
            /\ rows[k].metadata = said[rows[k].id].metadata
  /\ \A c \in Ids : RowsOf(c) = {} => said[c] = NothingSaid

\* One request at most reads a page, and what it has read is what was true for a time.
PageInv ==
  /\ \A q, r \in Requests : request[q].op = "page" /\ request[r].op = "page" => q = r
  /\ \A r \in Requests : (request[r].op = "page" <=> request[r].at \in PageSteps)
  /\ Reading =>
       /\ Enabled \subseteq watched.enabled /\ Active(Offered) \subseteq watched.active
       /\ watched.always \subseteq Enabled \cap Active(Offered) /\ watched.curated \subseteq curated
  /\ ~Reading => watched = Nothing
  /\ \A r \in Requests : request[r].op = "page" =>
       /\ Read(r) \in PageReads /\ watched.curated \subseteq Read(r).curated
       /\ At(r, "read_collections") =>
            watched.always \subseteq Read(r).active /\ Read(r).active \subseteq watched.active
  /\ PagesTellTheirTime

\* The prices of the offers that are open lie within the statistics.
Spanned(prices, c) ==
  \A j \in Opened(c) : prices.min <= listed[j].price /\ listed[j].price <= prices.max

\* What a count has read is still so, unless something has changed since it began.
CountTaskOK(r) ==
  LET count == Read(r)
      c == On(r)
  IN /\ c \in Ids /\ request[r].op = "count" /\ count \in Counts /\ count.after <= changed
     /\ count.after = changed =>
          /\ count.onMarket = OnMarket(c)
          /\ ~At(r, "ask_total") => count.total = stock[c].total
          /\ request[r].at \in {"count_holders", "price_stats", "save_count"} => count.tokens = stock[c].tokens
          /\ request[r].at \in {"price_stats", "save_count"} => count.holders = stock[c].holders
          /\ At(r, "save_count") => Spanned(count.prices, c)

CountInv ==
  /\ \A r \in Requests : request[r].at \in CountSteps => CountTaskOK(r)
  /\ \A c \in Ids : counted[c] \in Nat => counted[c] <= changed
  /\ \A k \in 1 .. Len(rows) : LET c == rows[k].id IN counted[c] = changed =>
       /\ rows[k].onMarket = OnMarket(c)
       /\ rows[k].tokens = stock[c].tokens /\ rows[k].total = stock[c].total
       /\ rows[k].holders = stock[c].holders /\ Spanned(rows[k].prices, c)

-----------------------------------------------------------------------------
(* What the steps leave in the requests.                                   *)

LEMMA StartTask ==
  ASSUME TypeInv, NEW r \in Requests, NEW op \in {"allowed", "metadata", "count", "page"},
         NEW step \in {"set_column"} \cup PageSteps \cup CountSteps, NEW on \in Ids \cup {None},
         NEW with \in Texts \cup {"links", None} \cup BOOLEAN,
         NEW read \in Nat \cup Counts \cup PageReads \cup {None},
         Start(r, op, step, on, with, read)
  PROVE  /\ request' \in [Requests -> Asked] /\ started' \in 0 .. MaxStarted
         /\ request[r] = Idle
         /\ request'[r] = [op |-> op, at |-> step, on |-> on, no |-> started + 1,
                           with |-> with, read |-> read]
         /\ \A q \in Requests \ {r} : request'[q] = request[q]
<1> DEFINE t == [op |-> op, at |-> step, on |-> on, no |-> started + 1, with |-> with, read |-> read]
<1>1. started + 1 \in 0 .. MaxStarted
  BY RestInputs DEF Start, TypeInv
<1>2. t \in Asked
  BY <1>1 DEF Asked
<1> HIDE DEF t
<1>3. request \in [Requests -> Asked] /\ request' = [request EXCEPT ![r] = t]
  BY DEF TypeInv, Start, t
<1>4. request' \in [Requests -> Asked] /\ request'[r] = t
      /\ \A q \in Requests \ {r} : request'[q] = request[q]
  BY <1>2, <1>3
<1> QED BY <1>1, <1>4 DEF Start, t

LEMMA GotoTask ==
  ASSUME TypeInv, NEW r \in Requests, NEW step \in PageSteps \cup CountSteps,
         NEW read \in Counts \cup PageReads, Goto(r, step, read)
  PROVE  /\ request' \in [Requests -> Asked]
         /\ request'[r].at = step /\ request'[r].read = read
         /\ request'[r].op = request[r].op /\ request'[r].on = request[r].on
         /\ \A q \in Requests \ {r} : request'[q] = request[q]
<1> DEFINE t == request[r]
           t1 == [t EXCEPT !.at = step]
           t2 == [t1 EXCEPT !.read = read]
<1>1. t \in Asked
  BY DEF TypeInv
<1>2. t1 \in Asked /\ t1.at = step /\ t1.op = t.op /\ t1.on = t.on
  BY <1>1 DEF Asked
<1> HIDE DEF t1
<1>3. t2 \in Asked /\ t2.at = step /\ t2.read = read /\ t2.op = t.op /\ t2.on = t.on
  BY <1>2 DEF Asked
<1>4. request' = [request EXCEPT ![r] = t2]
  BY DEF Goto, TypeInv, t1
<1> HIDE DEF t2
<1> QED BY <1>3, <1>4 DEF TypeInv

LEMMA IdleTask ==
  /\ Idle \in Asked /\ Idle.at = "idle" /\ Idle.op = "none"
  /\ Idle.at \notin PageSteps \cup CountSteps /\ Idle.at # "set_column"
  BY RestInputs DEF Idle, Asked, PageSteps, CountSteps

LEMMA EndTask ==
  ASSUME TypeInv, NEW r \in Requests, End(r)
  PROVE  /\ request' \in [Requests -> Asked] /\ request'[r] = Idle
         /\ \A q \in Requests \ {r} : request'[q] = request[q]
  BY IdleTask DEF End, TypeInv

LEMMA StepKinds ==
  /\ "set_column" \notin PageSteps \cup CountSteps /\ PageSteps \cap CountSteps = {}
  /\ "read_offers" \in PageSteps /\ "read_collections" \in PageSteps
  BY DEF PageSteps, CountSteps

-----------------------------------------------------------------------------
(* What steps leave alone.                                                 *)

\* The rows stay where they are.
RowsStay ==
  /\ Len(rows') = Len(rows)
  /\ \A k \in 1 .. Len(rows) : rows'[k].id = rows[k].id

LEMMA RowsOfStay == ASSUME RowsStay, NEW c PROVE RowsOf(c)' = RowsOf(c)
  BY DEF RowsStay, RowsOf

LEMMA JobFrame ==
  ASSUME TypeInv, JobInv, Len(rows') \in Nat, Len(rows) <= Len(rows'),
         \A k \in 1 .. Len(rows) : rows'[k].id = rows[k].id,
         \A w \in Workers : jobs'[w] \in {jobs[w], NoJob}
  PROVE  JobInv'
<1>1. ASSUME NEW w \in Workers, jobs'[w] # NoJob
      PROVE  /\ jobs'[w].id \in Ids /\ jobs'[w].key <= Len(rows')
             /\ jobs'[w].key # 0 => rows'[jobs'[w].key].id = jobs'[w].id
  <2>1. jobs'[w] = jobs[w] /\ jobs[w].key \in Nat /\ Len(rows) \in Nat
    BY <1>1 DEF TypeInv
  <2>2. /\ jobs[w].id \in Ids /\ jobs[w].key <= Len(rows)
        /\ jobs[w].key # 0 => rows[jobs[w].key].id = jobs[w].id
    BY <1>1, <2>1 DEF JobInv
  <2>3. jobs[w].key # 0 => jobs[w].key \in 1 .. Len(rows)
    BY <2>1, <2>2
  <2> QED BY <2>1, <2>2, <2>3
<1> QED BY <1>1 DEF JobInv

\* r is not about to set a column, but for what it was.
WordAside(r) == request'[r] = request[r] \/ request'[r].at # "set_column"

WordsStay ==
  \A k \in 1 .. Len(rows) :
    /\ rows'[k].allowed = rows[k].allowed
    /\ rows'[k].status = rows[k].status /\ rows'[k].metadata = rows[k].metadata

LEMMA WordFrame ==
  ASSUME WordInv, RowsStay, WordsStay, UNCHANGED said, \A r \in Requests : WordAside(r)
  PROVE  WordInv'
<1>1. \A c : RowsOf(c)' = RowsOf(c)
  BY RowsOfStay
<1>2. ASSUME NEW r \in Requests, At(r, "set_column")'
      PROVE  /\ On(r)' \in Ids /\ Read(r)' \in RowsOf(On(r)')
             /\ \/ request'[r].op = "allowed" /\ request'[r].with \in Texts /\ CheckoutTokens(request'[r].with)
                \/ request'[r].op = "metadata" /\ request'[r].with = "links"
  <2>1. request'[r] = request[r]
    BY <1>2 DEF WordAside, At
  <2> QED BY <1>2, <2>1 DEF WordInv, At, On, Read
<1>3. ASSUME NEW k \in 1 .. Len(rows')
      PROVE  /\ CheckoutTokens(rows'[k].allowed)
             /\ RowsOf(rows'[k].id) = {k} =>
                  /\ rows'[k].status = said[rows'[k].id].status
                  /\ rows'[k].allowed = said[rows'[k].id].allowed
                  /\ rows'[k].metadata = said[rows'[k].id].metadata
  BY DEF RowsStay, WordsStay, WordInv
<1> QED BY <1>1, <1>2, <1>3 DEF WordInv

\* r does not read a page, but for what it did.
PageAside(r) ==
  request'[r] = request[r] \/ (request'[r].op # "page" /\ request'[r].at \notin PageSteps)

LEMMA PageFrame ==
  ASSUME PageInv, Watch, UNCHANGED page, \A r \in Requests : PageAside(r)
  PROVE  PageInv'
<1>1. \A r \in Requests : (request'[r].op = "page" \/ request'[r].at \in PageSteps) => request'[r] = request[r]
  BY DEF PageAside
<1>2. ASSUME NEW q \in Requests, NEW r \in Requests
      PROVE  /\ request'[q].op = "page" /\ request'[r].op = "page" => q = r
             /\ request'[r].op = "page" <=> request'[r].at \in PageSteps
  BY <1>1 DEF PageInv
<1>3. Reading' => Reading
  BY <1>1 DEF Reading
<1>4. Reading' =>
        /\ watched' = [enabled |-> watched.enabled \cup Enabled', active |-> watched.active \cup Active(Offered)',
                       always |-> watched.always \cap Enabled' \cap Active(Offered)',
                       curated |-> watched.curated \cap curated']
        /\ watched.enabled \subseteq watched.enabled' /\ watched.active \subseteq watched.active'
        /\ watched.always' \subseteq watched.always /\ watched.curated' \subseteq watched.curated
        /\ Enabled' \subseteq watched.enabled' /\ Active(Offered)' \subseteq watched.active'
        /\ watched.always' \subseteq Enabled' \cap Active(Offered)' /\ watched.curated' \subseteq curated'
  BY DEF Watch
<1>5. ~Reading' => watched' = Nothing
  BY DEF Watch
<1>6. ASSUME NEW r \in Requests, request'[r].op = "page"
      PROVE  /\ Read(r)' \in PageReads /\ watched'.curated \subseteq Read(r)'.curated
             /\ At(r, "read_collections")' =>
                  watched'.always \subseteq Read(r)'.active /\ Read(r)'.active \subseteq watched'.active
  <2>1. request'[r] = request[r] /\ request[r].op = "page"
    BY <1>1, <1>6
  <2>2. Reading'
    BY <1>6 DEF Reading
  <2>3. /\ Read(r) \in PageReads /\ watched.curated \subseteq Read(r).curated
        /\ At(r, "read_collections") =>
             watched.always \subseteq Read(r).active /\ Read(r).active \subseteq watched.active
    BY <2>1 DEF PageInv
  <2> QED BY <1>4, <2>1, <2>2, <2>3 DEF Read, At
<1>7. PagesTellTheirTime'
  BY DEF PageInv, PagesTellTheirTime
<1> QED BY <1>2, <1>4, <1>5, <1>6, <1>7 DEF PageInv, Nothing

\* r does not count, but for what it did.
CountAside(r) == request'[r] = request[r] \/ request'[r].at \notin CountSteps

CountsStay ==
  \A k \in 1 .. Len(rows) :
    /\ rows'[k].onMarket = rows[k].onMarket /\ rows'[k].prices = rows[k].prices
    /\ rows'[k].tokens = rows[k].tokens /\ rows'[k].total = rows[k].total
    /\ rows'[k].holders = rows[k].holders

LEMMA CountTaskFrame ==
  ASSUME CountInv, UNCHANGED <<listed, stock, changed>>, NEW r \in Requests, CountAside(r),
         request'[r].at \in CountSteps
  PROVE  CountTaskOK(r)'
<1>1. \A c : OnMarket(c)' = OnMarket(c)
  BY DEF OnMarket, Opened
<1>2. \A c, prices : Spanned(prices, c)' <=> Spanned(prices, c)
  BY DEF Spanned, Opened
<1>3. request'[r] = request[r]
  BY DEF CountAside
<1>4. CountTaskOK(r)
  BY <1>3 DEF CountInv
<1>5. PICK c, prices : c = On(r) /\ prices = Read(r).prices
  OBVIOUS
<1>6. Spanned(prices, c)' <=> Spanned(prices, c)
  BY <1>2
<1>7. /\ On(r)' = c /\ Read(r)' = Read(r)
      /\ OnMarket(c)' = OnMarket(c)
  BY <1>1, <1>3, <1>5 DEF On, Read
<1>8. At(r, "save_count") /\ Read(r).after = changed => Spanned(prices, c)
  BY <1>4, <1>5 DEF CountTaskOK
<1>9. At(r, "save_count")' /\ Read(r)'.after = changed' => Spanned(Read(r).prices, On(r))'
  BY <1>3, <1>5, <1>6, <1>7, <1>8 DEF At
<1> QED BY <1>3, <1>4, <1>5, <1>7, <1>9 DEF CountTaskOK, At

LEMMA CountFrame ==
  ASSUME CountInv, RowsStay, CountsStay, UNCHANGED <<listed, stock, changed, counted>>,
         \A r \in Requests : CountAside(r)
  PROVE  CountInv'
<1>1. \A c : OnMarket(c)' = OnMarket(c)
  BY DEF OnMarket, Opened
<1>2. \A c, prices : Spanned(prices, c)' <=> Spanned(prices, c)
  BY DEF Spanned, Opened
<1>3. \A r \in Requests : request'[r].at \in CountSteps => CountTaskOK(r)'
  BY CountTaskFrame
<1>4. ASSUME NEW k \in 1 .. Len(rows), counted[rows[k].id] = changed
      PROVE  /\ rows'[k].onMarket = OnMarket(rows[k].id)'
             /\ rows'[k].tokens = stock[rows[k].id].tokens /\ rows'[k].total = stock[rows[k].id].total
             /\ rows'[k].holders = stock[rows[k].id].holders /\ Spanned(rows[k].prices, rows[k].id)'
  <2>1. PICK c, prices : c = rows[k].id /\ prices = rows[k].prices
    OBVIOUS
  <2>2. rows'[k].id = c /\ rows'[k].prices = prices /\ OnMarket(c)' = OnMarket(c)
        /\ (Spanned(prices, c)' <=> Spanned(prices, c))
    BY <1>1, <1>2, <2>1 DEF RowsStay, CountsStay
  <2>3. /\ rows[k].onMarket = OnMarket(c) /\ Spanned(prices, c)
        /\ rows[k].tokens = stock[c].tokens /\ rows[k].total = stock[c].total
        /\ rows[k].holders = stock[c].holders
    BY <1>4, <2>1 DEF CountInv
  <2> QED BY <2>1, <2>2, <2>3 DEF CountsStay
<1>5. \A k \in 1 .. Len(rows') : k \in 1 .. Len(rows) /\ rows'[k].id = rows[k].id
  BY DEF RowsStay
<1> QED BY <1>3, <1>4, <1>5 DEF CountInv

LEMMA RowFacts ==
  ASSUME TypeInv
  PROVE  /\ Len(rows) \in Nat
         /\ \A k \in 1 .. Len(rows) : rows[k] \in CollectionRows /\ rows[k].id \in Ids
<1>1. Len(rows) \in Nat /\ \A k \in 1 .. Len(rows) : rows[k] \in CollectionRows
  BY DEF TypeInv
<1>2. \A row \in CollectionRows : row.id \in Ids
  BY DEF CollectionRows
<1> QED BY <1>1, <1>2

LEMMA CountRowsStay ==
  ASSUME CountInv, UNCHANGED <<rows, listed, stock, changed, counted>>,
         \A r \in Requests : request'[r].at \in CountSteps => CountTaskOK(r)'
  PROVE  CountInv'
  BY DEF CountInv, OnMarket, Opened, Spanned

\* What has changed has changed since every count began.
LEMMA ChangeFrame ==
  ASSUME TypeInv, CountInv, changed' = changed + 1, UNCHANGED <<rows, counted>>,
         \A r \in Requests : CountAside(r)
  PROVE  CountInv'
<1>1. changed \in Nat /\ None \notin Nat
  BY RestInputs DEF TypeInv
<1>2. ASSUME NEW r \in Requests, request'[r].at \in CountSteps
      PROVE  CountTaskOK(r)'
  <2>1. request'[r] = request[r]
    BY <1>2 DEF CountAside
  <2>2. CountTaskOK(r)
    BY <1>2, <2>1 DEF CountInv
  <2>3. Read(r).after \in Nat /\ Read(r).after <= changed
    BY <2>2 DEF CountTaskOK, Counts
  <2>4. Read(r).after <= changed' /\ Read(r).after # changed'
    BY <1>1, <2>3
  <2> QED BY <2>1, <2>2, <2>4 DEF CountTaskOK, On, Read
<1>3. \A c \in Ids : /\ counted[c] \in Nat => counted[c] <= changed'
                     /\ counted[c] # changed'
  <2> SUFFICES ASSUME NEW c \in Ids
               PROVE  (counted[c] \in Nat => counted[c] <= changed') /\ counted[c] # changed'
    OBVIOUS
  <2>1. counted[c] \in Nat \cup {None} /\ (counted[c] \in Nat => counted[c] <= changed)
    BY DEF TypeInv, CountInv
  <2> QED BY <1>1, <2>1
<1>4. \A k \in 1 .. Len(rows) : rows[k].id \in Ids
  BY RowFacts
<1> QED BY <1>2, <1>3, <1>4 DEF CountInv

LEMMA ElsewhereFrame == ASSUME ElsewhereInv, UNCHANGED Elsewhere PROVE ElsewhereInv'
  BY DEF Elsewhere, ElsewhereInv, money, files, market

-----------------------------------------------------------------------------
(* The jobs of the escrow worker.                                          *)

CollectionsInv == TypeInv /\ JobInv /\ WordInv /\ PageInv /\ CountInv

LEMMA FindCollectionKeeps ==
  ASSUME CollectionsInv, Watch, UNCHANGED failures, NEW c \in Ids, NEW w \in Workers, FindCollection(w, c)
  PROVE  CollectionsInv'
<1> USE DEF CollectionsInv
<1>1. UNCHANGED <<rows, listed, stock, curated, page, said, counted, request, started, failures>>
      /\ changed' = changed + 1 /\ changed < MaxChanges
  BY DEF FindCollection
<1>2. PICK key \in IF RowsOf(c) = {} THEN {0} ELSE RowsOf(c) :
        jobs' = [jobs EXCEPT ![w] = [id |-> c, key |-> key, total |-> stock[c].total]]
  BY DEF FindCollection
<1>3. key \in Nat /\ key <= Len(rows) /\ (key # 0 => rows[key].id = c)
  BY <1>2, RowFacts DEF RowsOf
<1>4. stock[c].total \in Nat
  BY DEF TypeInv, Stock
<1>5. changed + 1 \in 0 .. MaxChanges
  BY <1>1, CollectionsInputs DEF TypeInv
<1>6. TypeInv'
  BY <1>1, <1>2, <1>3, <1>4, <1>5 DEF TypeInv
<1>7. JobInv'
  <2> SUFFICES ASSUME NEW v \in Workers, jobs'[v] # NoJob
               PROVE  /\ jobs'[v].id \in Ids /\ jobs'[v].key <= Len(rows)
                      /\ jobs'[v].key # 0 => rows[jobs'[v].key].id = jobs'[v].id
    BY <1>1 DEF JobInv
  <2>1. CASE v = w
    BY <1>2, <1>3, <2>1 DEF TypeInv
  <2>2. CASE v # w
    BY <1>2, <2>2 DEF TypeInv, JobInv
  <2> QED BY <2>1, <2>2
<1>8. \A r \in Requests : WordAside(r) /\ PageAside(r) /\ CountAside(r)
  BY <1>1 DEF WordAside, PageAside, CountAside
<1>9. RowsStay /\ WordsStay
  BY <1>1 DEF RowsStay, WordsStay
<1> QED BY <1>1, <1>6, <1>7, <1>8, <1>9, WordFrame, PageFrame, ChangeFrame

\* The row that a job adds, and the one that it changes.
LEMMA CollectedFacts ==
  ASSUME TypeInv, JobInv, NEW w \in Workers, SaveCollection(w)
  PROVE  LET c == jobs[w].id
             key == jobs[w].key
             n == Len(rows) + 1
         IN /\ c \in Ids /\ rows' \in Seq(CollectionRows)
            /\ key = 0 => /\ Len(rows') = n /\ rows'[n] = New(jobs[w]) /\ rows'[n].id = c
                          /\ rows'[n].allowed = <<>> /\ rows'[n].status = "Enabled" /\ rows'[n].metadata = None
                          /\ \A k \in 1 .. Len(rows) : rows'[k] = rows[k]
            /\ key # 0 => /\ key \in 1 .. Len(rows) /\ rows[key].id = c /\ RowsStay /\ WordsStay
                          /\ \A k \in 1 .. Len(rows) : k # key => rows'[k] = rows[k]
<1> DEFINE c == jobs[w].id
           key == jobs[w].key
           n == Len(rows) + 1
           row == Collected(rows[key], jobs[w])
<1>1. /\ c \in Ids /\ key \in Nat /\ key <= Len(rows) /\ (key # 0 => rows[key].id = c)
      /\ jobs[w].total \in Nat
  BY DEF SaveCollection, JobInv, TypeInv
<1>2. CASE key = 0
  <2> DEFINE new == New(jobs[w])
  <2>1. new \in CollectionRows /\ new.id = c
        /\ new.allowed = <<>> /\ new.status = "Enabled" /\ new.metadata = None
    BY <1>1 DEF New, CollectionRows, Stats, NoPrices, MayAllow
  <2>2. rows' = Append(rows, new) /\ rows \in Seq(CollectionRows)
    BY <1>2 DEF SaveCollection, TypeInv
  <2> HIDE DEF new
  <2>3. /\ rows' \in Seq(CollectionRows) /\ Len(rows') = n /\ rows'[n] = new
        /\ \A k \in 1 .. Len(rows) : rows'[k] = rows[k]
    BY <2>1, <2>2, AppendProperties
  <2> QED BY <1>1, <1>2, <2>1, <2>3 DEF new
<1>3. CASE key # 0
  <2>1. key \in 1 .. Len(rows) /\ rows[key] \in CollectionRows
    BY <1>1, <1>3, RowFacts
  <2>2. /\ row \in CollectionRows /\ row.id = rows[key].id /\ row.allowed = rows[key].allowed
        /\ row.status = rows[key].status /\ row.metadata = rows[key].metadata
    <3> DEFINE t == rows[key]
               total == jobs[w].total
               t1 == [t EXCEPT !.onMarket = 0]
               t2 == [t1 EXCEPT !.tokens = 0]
               t3 == [t2 EXCEPT !.total = total]
    <3>1. total \in Nat /\ t \in CollectionRows
      BY <1>1, <2>1
    <3>2. row = t3
      BY <2>1 DEF Collected, CollectionRows
    <3> HIDE DEF t, total
    <3>3. /\ t1 \in CollectionRows /\ t1.id = t.id /\ t1.allowed = t.allowed
          /\ t1.status = t.status /\ t1.metadata = t.metadata
      BY <3>1 DEF CollectionRows
    <3> HIDE DEF t1
    <3>4. /\ t2 \in CollectionRows /\ t2.id = t.id /\ t2.allowed = t.allowed
          /\ t2.status = t.status /\ t2.metadata = t.metadata
      BY <3>3 DEF CollectionRows
    <3> HIDE DEF t2
    <3>5. /\ t3 \in CollectionRows /\ t3.id = t.id /\ t3.allowed = t.allowed
          /\ t3.status = t.status /\ t3.metadata = t.metadata
      BY <3>1, <3>4 DEF CollectionRows
    <3> QED BY <3>2, <3>5 DEF t
  <2>3. rows' = [rows EXCEPT ![key] = row] /\ rows \in Seq(CollectionRows)
    BY <1>3 DEF SaveCollection, TypeInv
  <2> HIDE DEF row
  <2>4. /\ rows' \in Seq(CollectionRows) /\ Len(rows') = Len(rows) /\ rows'[key] = row
        /\ \A k \in 1 .. Len(rows) : k # key => rows'[k] = rows[k]
    BY <2>1, <2>2, <2>3
  <2>5. RowsStay /\ WordsStay
    BY <2>2, <2>4 DEF RowsStay, WordsStay
  <2> QED BY <1>1, <1>3, <2>1, <2>4, <2>5
<1> QED BY <1>2, <1>3

LEMMA SaveCollectionKeeps ==
  ASSUME CollectionsInv, Watch, UNCHANGED failures, NEW w \in Workers, SaveCollection(w)
  PROVE  CollectionsInv'
<1> USE DEF CollectionsInv
<1>0. PICK c, key, n : c = jobs[w].id /\ key = jobs[w].key /\ n = Len(rows) + 1
  OBVIOUS
<1>1. /\ UNCHANGED <<listed, stock, curated, page, said, changed, request, started, failures>>
      /\ jobs' = [jobs EXCEPT ![w] = NoJob] /\ counted' = [counted EXCEPT ![c] = None]
  BY <1>0 DEF SaveCollection
<1>2. /\ c \in Ids /\ rows' \in Seq(CollectionRows)
      /\ key = 0 => /\ Len(rows') = n /\ rows'[n] = New(jobs[w]) /\ rows'[n].id = c
                    /\ rows'[n].allowed = <<>> /\ rows'[n].status = "Enabled" /\ rows'[n].metadata = None
                    /\ \A k \in 1 .. Len(rows) : rows'[k] = rows[k]
      /\ key # 0 => /\ key \in 1 .. Len(rows) /\ rows[key].id = c /\ RowsStay /\ WordsStay
                    /\ \A k \in 1 .. Len(rows) : k # key => rows'[k] = rows[k]
  BY <1>0, CollectedFacts
<1>3. Len(rows) \in Nat /\ n \in Nat /\ n = Len(rows) + 1
  BY <1>0, RowFacts
<1>4. /\ Len(rows') \in Nat /\ Len(rows) <= Len(rows')
      /\ \A k \in 1 .. Len(rows) : rows'[k].id = rows[k].id
  BY <1>2, <1>3 DEF RowsStay
<1>5. counted' \in [Ids -> Nat \cup {None}] /\ counted'[c] = None
      /\ \A d \in Ids : d # c => counted'[d] = counted[d]
  BY <1>1, <1>2 DEF TypeInv
<1>6. NoJob \in [id : Ids \cup {None}, key : Nat, total : Nat]
  BY DEF NoJob
<1>7. TypeInv'
  BY <1>1, <1>2, <1>5, <1>6 DEF TypeInv
<1>8. JobInv'
  BY <1>1, <1>4, JobFrame DEF TypeInv
<1>9. \A r \in Requests : WordAside(r) /\ PageAside(r) /\ CountAside(r)
  BY <1>1 DEF WordAside, PageAside, CountAside
<1>10. WordInv'
  <2>1. CASE key # 0
    BY <1>1, <1>2, <1>9, <2>1, WordFrame
  <2>2. CASE key = 0
    <3>1. /\ Len(rows') = n /\ rows'[n].id = c /\ \A k \in 1 .. Len(rows) : rows'[k] = rows[k]
          /\ rows'[n].allowed = <<>> /\ rows'[n].status = "Enabled" /\ rows'[n].metadata = None
      BY <1>2, <2>2
    <3>2. \A d : RowsOf(d)' = RowsOf(d) \cup (IF d = c THEN {n} ELSE {})
      BY <1>3, <3>1 DEF RowsOf
    <3>3. \A d : n \notin RowsOf(d)
      BY <1>3 DEF RowsOf
    <3>4. ASSUME NEW k \in 1 .. n, NEW d, d = rows'[k].id
          PROVE  /\ CheckoutTokens(rows'[k].allowed)
                 /\ RowsOf(d)' = {k} =>
                      /\ rows'[k].status = said[d].status
                      /\ rows'[k].allowed = said[d].allowed
                      /\ rows'[k].metadata = said[d].metadata
      <4>1. CASE k = n
        <5>1. CheckoutTokens(<<>>)
          BY DEF CheckoutTokens
        <5>2. ASSUME RowsOf(d)' = {k}
              PROVE  said[d] = NothingSaid
          <6>1. RowsOf(d) = {} /\ d \in Ids
            BY <1>2, <3>1, <3>2, <3>3, <3>4, <4>1, <5>2
          <6> QED BY <6>1 DEF WordInv
        <5> QED BY <3>1, <3>4, <4>1, <5>1, <5>2 DEF NothingSaid
      <4>2. CASE k # n
        <5>1. k \in 1 .. Len(rows) /\ rows'[k] = rows[k]
          BY <1>3, <3>1, <4>2
        <5>2. d = rows[k].id /\ k \in RowsOf(d)
          BY <3>4, <5>1 DEF RowsOf
        <5>3. RowsOf(d)' = {k} => RowsOf(d) = {k}
          BY <3>2, <5>2
        <5> QED BY <5>1, <5>2, <5>3 DEF WordInv
      <4> QED BY <4>1, <4>2
    <3>5. ASSUME NEW r \in Requests, At(r, "set_column")
          PROVE  /\ On(r) \in Ids /\ Read(r) \in RowsOf(On(r))
                 /\ \/ request[r].op = "allowed" /\ request[r].with \in Texts /\ CheckoutTokens(request[r].with)
                    \/ request[r].op = "metadata" /\ request[r].with = "links"
      BY <3>5 DEF WordInv
    <3>6. \A d \in Ids : RowsOf(d)' = {} => said[d] = NothingSaid
      BY <3>2 DEF WordInv
    <3>7. \A r \in Requests : Read(r) \in RowsOf(On(r)) => Read(r)' \in RowsOf(On(r))'
      BY <1>1, <3>2 DEF On, Read
    <3> QED BY <1>1, <3>1, <3>4, <3>5, <3>6, <3>7 DEF WordInv, At, On, Read
  <2> QED BY <2>1, <2>2
<1>11. CountInv'
  <2>1. \A r \in Requests : request'[r].at \in CountSteps => CountTaskOK(r)'
    BY <1>1, <1>9, CountTaskFrame
  <2>2. None \notin Nat /\ changed \in Nat
    BY RestInputs DEF TypeInv
  <2>3. \A d \in Ids : counted'[d] \in Nat => counted'[d] <= changed
    BY <1>5, <2>2 DEF CountInv
  <2>4. ASSUME NEW k \in 1 .. Len(rows'), NEW d, NEW prices, d = rows'[k].id, prices = rows'[k].prices,
               counted'[d] = changed
        PROVE  /\ rows'[k].onMarket = OnMarket(d)'
               /\ rows'[k].tokens = stock[d].tokens /\ rows'[k].total = stock[d].total
               /\ rows'[k].holders = stock[d].holders /\ Spanned(prices, d)'
    <3>1. d # c
      BY <1>5, <2>2, <2>4
    <3>2. k \in 1 .. Len(rows) /\ rows'[k] = rows[k]
      BY <1>2, <1>3, <2>4, <3>1 DEF RowsStay
    <3>3. d = rows[k].id /\ prices = rows[k].prices
      BY <2>4, <3>2
    <3>4. d \in Ids /\ counted[d] = changed
      BY <1>5, <2>4, <3>1, <3>2, <3>3, RowFacts
    <3>5. /\ rows[k].onMarket = OnMarket(d) /\ Spanned(prices, d)
          /\ rows[k].tokens = stock[d].tokens /\ rows[k].total = stock[d].total
          /\ rows[k].holders = stock[d].holders
      BY <3>2, <3>3, <3>4 DEF CountInv
    <3>6. OnMarket(d)' = OnMarket(d) /\ (Spanned(prices, d)' <=> Spanned(prices, d))
      BY <1>1 DEF OnMarket, Opened, Spanned
    <3> QED BY <3>2, <3>3, <3>5, <3>6
  <2> QED BY <1>1, <2>1, <2>3, <2>4 DEF CountInv
<1> QED BY <1>1, <1>7, <1>8, <1>9, <1>10, <1>11, PageFrame

-----------------------------------------------------------------------------
(* The requests.                                                           *)

\* A step of requests alone disturbs no more than what they are about.
LEMMA OnlyRequests ==
  ASSUME CollectionsInv, Watch, UNCHANGED <<told, seen>>, request' \in [Requests -> Asked],
         started' \in 0 .. MaxStarted, failures' \in 0 .. MaxFailures
  PROVE  /\ TypeInv' /\ JobInv'
         /\ (\A r \in Requests : WordAside(r)) => WordInv'
         /\ (\A r \in Requests : PageAside(r)) => PageInv'
         /\ (\A r \in Requests : CountAside(r)) => CountInv'
<1> USE DEF CollectionsInv
<1>1. UNCHANGED <<rows, jobs, listed, stock, curated, page, said, changed, counted>>
  BY DEF told, seen
<1>2. RowsStay /\ WordsStay /\ CountsStay
  BY <1>1 DEF RowsStay, WordsStay, CountsStay
<1>3. TypeInv'
  BY <1>1 DEF TypeInv
<1>4. JobInv'
  BY <1>1, RowFacts, JobFrame
<1> QED BY <1>1, <1>2, <1>3, <1>4, WordFrame, PageFrame, CountFrame

LEMMA AdminStartKeeps ==
  ASSUME CollectionsInv, Watch, UNCHANGED failures, NEW r \in Requests, NEW c \in Ids,
         (\E text \in Texts : AllowTokens(r, c, text)) \/ UpdateMetaData(r, c, "links")
  PROVE  CollectionsInv'
<1> USE DEF CollectionsInv
<1>1. UNCHANGED <<told, seen>> /\ failures' \in 0 .. MaxFailures
  BY DEF AllowTokens, UpdateMetaData, TypeInv
<1>2. PICK op \in {"allowed", "metadata"}, with \in Texts \cup {"links"}, key \in RowsOf(c) :
        /\ Start(r, op, "set_column", c, with, key)
        /\ \/ op = "allowed" /\ with \in Texts /\ CheckoutTokens(with)
           \/ op = "metadata" /\ with = "links"
  BY DEF AllowTokens, UpdateMetaData
<1>3. key \in Nat
  BY DEF RowsOf
<1>4. /\ request' \in [Requests -> Asked] /\ started' \in 0 .. MaxStarted
      /\ request[r] = Idle
      /\ request'[r] = [op |-> op, at |-> "set_column", on |-> c, no |-> started + 1,
                        with |-> with, read |-> key]
      /\ \A q \in Requests \ {r} : request'[q] = request[q]
  BY <1>2, <1>3, StartTask
<1>5. \A q \in Requests : PageAside(q) /\ CountAside(q)
  BY <1>4, StepKinds DEF PageAside, CountAside
<1>6. UNCHANGED <<rows, said>>
  BY <1>1 DEF told, seen
<1>7. ASSUME NEW q \in Requests, At(q, "set_column")'
      PROVE  /\ On(q)' \in Ids /\ Read(q)' \in RowsOf(On(q)')
             /\ \/ request'[q].op = "allowed" /\ request'[q].with \in Texts /\ CheckoutTokens(request'[q].with)
                \/ request'[q].op = "metadata" /\ request'[q].with = "links"
  <2>1. CASE q = r
    BY <1>2, <1>4, <2>1 DEF On, Read
  <2>2. CASE q # r
    BY <1>4, <1>7, <2>2 DEF WordInv, At, On, Read
  <2> QED BY <2>1, <2>2
<1>8. WordInv'
  BY <1>6, <1>7 DEF WordInv, RowsOf
<1> QED BY <1>1, <1>4, <1>5, <1>8, OnlyRequests

LEMMA CountStartKeeps ==
  ASSUME CollectionsInv, Watch, UNCHANGED failures, NEW r \in Requests, NEW c \in Ids,
         NEW awaited \in BOOLEAN, UpdateTokens(r, c, awaited)
  PROVE  CollectionsInv'
<1> USE DEF CollectionsInv
<1> DEFINE count == [NoCount EXCEPT !.onMarket = OnMarket(c), !.after = changed]
<1>1. UNCHANGED <<told, seen>> /\ failures' \in 0 .. MaxFailures
      /\ Start(r, "count", "ask_total", c, awaited, count)
  BY DEF UpdateTokens, TypeInv
<1>2. count \in Counts /\ count.onMarket = OnMarket(c) /\ count.after = changed
  <2>1. OnMarket(c) \in Nat
    <3>1. Len(listed) \in Nat
      BY DEF TypeInv
    <3>2. IsFiniteSet(1 .. Len(listed)) /\ Opened(c) \subseteq 1 .. Len(listed)
      BY <3>1, FS_Interval DEF Opened
    <3>3. IsFiniteSet(Opened(c))
      BY <3>2, FS_Subset
    <3> QED BY <3>3, FS_CardinalityType DEF OnMarket
  <2>2. changed \in Nat
    BY DEF TypeInv
  <2> QED BY <2>1, <2>2 DEF Counts, NoCount, Stats, NoPrices
<1> HIDE DEF count
<1>3. /\ request' \in [Requests -> Asked] /\ started' \in 0 .. MaxStarted
      /\ request[r] = Idle
      /\ request'[r] = [op |-> "count", at |-> "ask_total", on |-> c, no |-> started + 1,
                        with |-> awaited, read |-> count]
      /\ \A q \in Requests \ {r} : request'[q] = request[q]
  <2>1. "ask_total" \in CountSteps
    BY DEF CountSteps
  <2> QED BY <1>1, <1>2, <2>1, StartTask
<1>4. \A q \in Requests : PageAside(q) /\ WordAside(q) /\ (q # r => CountAside(q))
  BY <1>3 DEF PageAside, WordAside, CountAside, PageSteps
<1>5. UNCHANGED <<rows, listed, stock, changed, counted>>
  BY <1>1 DEF told, seen
<1>6. CountTaskOK(r)'
  <2>1. On(r)' = c /\ Read(r)' = count /\ request'[r].at = "ask_total" /\ request'[r].op = "count"
    BY <1>3 DEF On, Read
  <2>2. OnMarket(c)' = OnMarket(c) /\ changed \in Nat
    BY <1>5 DEF OnMarket, Opened, TypeInv
  <2> QED BY <1>2, <1>5, <2>1, <2>2 DEF CountTaskOK, At
<1>7. \A q \in Requests : request'[q].at \in CountSteps => CountTaskOK(q)'
  BY <1>4, <1>5, <1>6, CountTaskFrame
<1>8. CountInv'
  BY <1>5, <1>7, CountRowsStay
<1> QED BY <1>1, <1>3, <1>4, <1>8, OnlyRequests

\* The page of settings.
LEMMA PageStartKeeps ==
  ASSUME CollectionsInv, Watch, UNCHANGED failures, NEW r \in Requests, StartPage(r)
  PROVE  CollectionsInv'
<1> USE DEF CollectionsInv
<1> DEFINE read == [curated |-> curated, active |-> {}]
<1>1. /\ UNCHANGED <<told, seen>> /\ failures' \in 0 .. MaxFailures /\ ~Reading
      /\ Start(r, "page", "read_offers", None, None, read)
  BY DEF StartPage, TypeInv
<1>2. read \in PageReads /\ read.curated = curated
  BY DEF PageReads, TypeInv
<1> HIDE DEF read
<1>3. /\ request' \in [Requests -> Asked] /\ started' \in 0 .. MaxStarted
      /\ request'[r] = [op |-> "page", at |-> "read_offers", on |-> None, no |-> started + 1,
                        with |-> None, read |-> read]
      /\ \A q \in Requests \ {r} : request'[q] = request[q]
  BY <1>1, <1>2, StepKinds, StartTask
<1>4. \A q \in Requests : WordAside(q) /\ CountAside(q)
  BY <1>3, StepKinds DEF CountAside, WordAside
<1>5. \A q \in Requests : request[q].op # "page"
  BY <1>1 DEF Reading
<1>6. ASSUME NEW q \in Requests
      PROVE  request'[q].op = "page" <=> request'[q].at \in PageSteps
  BY <1>3, StepKinds DEF PageInv
<1>7. \A q \in Requests : request'[q].op = "page" => q = r
  BY <1>3, <1>5
<1>8. Reading'
  BY <1>3 DEF Reading
<1>9. /\ Enabled' \subseteq watched.enabled' /\ Active(Offered)' \subseteq watched.active'
      /\ watched.always' \subseteq Enabled' \cap Active(Offered)' /\ watched.curated' \subseteq curated'
  BY <1>8 DEF Watch
<1>10. Read(r)' \in PageReads /\ watched.curated' \subseteq Read(r)'.curated /\ request'[r].at = "read_offers"
  BY <1>1, <1>2, <1>3, <1>9 DEF Read, told
<1>11. PagesTellTheirTime'
  BY <1>1 DEF PageInv, PagesTellTheirTime, seen
<1>12. PageInv'
  BY <1>6, <1>7, <1>8, <1>9, <1>10, <1>11 DEF PageInv, At
<1> QED BY <1>1, <1>3, <1>4, <1>12, OnlyRequests

LEMMA ReadOffersKeeps ==
  ASSUME CollectionsInv, Watch, UNCHANGED failures, NEW r \in Requests, ReadOffers(r)
  PROVE  CollectionsInv'
<1> USE DEF CollectionsInv
<1> DEFINE read == [Read(r) EXCEPT !.active = Active(Offered)]
<1>1. /\ UNCHANGED <<told, seen, started>> /\ failures' \in 0 .. MaxFailures
      /\ At(r, "read_offers") /\ Goto(r, "read_collections", read)
  BY DEF ReadOffers, TypeInv
<1>2. /\ request[r].op = "page" /\ Read(r) \in PageReads /\ watched.curated \subseteq Read(r).curated
      /\ Enabled \subseteq watched.enabled /\ Active(Offered) \subseteq watched.active
      /\ watched.always \subseteq Enabled \cap Active(Offered) /\ watched.curated \subseteq curated
  BY <1>1, StepKinds DEF PageInv, At, Reading
<1>3. Active(Offered) \subseteq Ids
  BY DEF Active, Offered
<1>4. read \in PageReads /\ read.curated = Read(r).curated /\ read.active = Active(Offered)
  BY <1>2, <1>3 DEF PageReads
<1> HIDE DEF read
<1>5. /\ request' \in [Requests -> Asked]
      /\ request'[r].at = "read_collections" /\ request'[r].read = read
      /\ request'[r].op = request[r].op
      /\ \A q \in Requests \ {r} : request'[q] = request[q]
  BY <1>1, <1>4, StepKinds, GotoTask
<1>6. \A q \in Requests : WordAside(q) /\ CountAside(q)
  BY <1>5, StepKinds DEF CountAside, WordAside
<1>7. \A q \in Requests : request[q].op = "page" => q = r
  BY <1>2 DEF PageInv
<1>8. \A q \in Requests : /\ request'[q].op = "page" => q = r
                          /\ request'[q].op = "page" <=> request'[q].at \in PageSteps
  BY <1>2, <1>5, <1>7, StepKinds DEF PageInv
<1>9. Reading /\ Reading'
  BY <1>2, <1>5 DEF Reading
<1>10. /\ watched' = [enabled |-> watched.enabled \cup Enabled', active |-> watched.active \cup Active(Offered)',
                      always |-> watched.always \cap Enabled' \cap Active(Offered)',
                      curated |-> watched.curated \cap curated']
       /\ Active(Offered)' = Active(Offered)
  BY <1>1, <1>9 DEF Watch, told, Active, Offered, Opened
<1>11. /\ Enabled' \subseteq watched.enabled' /\ Active(Offered)' \subseteq watched.active'
       /\ watched.always' \subseteq Enabled' \cap Active(Offered)' /\ watched.curated' \subseteq curated'
       /\ watched.curated' \subseteq read.curated
       /\ watched.always' \subseteq read.active /\ read.active \subseteq watched.active'
  BY <1>2, <1>4, <1>10
<1>12. Read(r)' = read /\ read \in PageReads
  BY <1>4, <1>5 DEF Read
<1>13. PagesTellTheirTime'
  BY <1>1 DEF PageInv, PagesTellTheirTime, seen
<1>14. PageInv'
  BY <1>8, <1>9, <1>11, <1>12, <1>13 DEF PageInv, At
<1>15. started' \in 0 .. MaxStarted
  BY <1>1 DEF TypeInv
<1> QED BY <1>1, <1>5, <1>6, <1>14, <1>15, OnlyRequests

\* What is shown lies between what was there all the while and what was there at times.
LEMMA ReadCollectionsKeeps ==
  ASSUME CollectionsInv, Watch, UNCHANGED failures, NEW r \in Requests, ReadCollections(r)
  PROVE  CollectionsInv'
<1> USE DEF CollectionsInv
<1> DEFINE shown == Shown(Read(r).active)
<1>1. /\ UNCHANGED <<rows, jobs, listed, stock, curated, said, changed, counted, started, failures>>
      /\ At(r, "read_collections") /\ End(r)
      /\ page' = [shown |-> shown, curated |-> shown \cap Read(r).curated, meanwhile |-> watched]
  BY DEF ReadCollections, told
<1>2. /\ request[r].op = "page" /\ watched.curated \subseteq Read(r).curated
      /\ Enabled \subseteq watched.enabled /\ watched.always \subseteq Enabled
      /\ watched.always \subseteq Read(r).active /\ Read(r).active \subseteq watched.active
  BY <1>1, StepKinds DEF PageInv, At, Reading
<1>3. /\ request' \in [Requests -> Asked] /\ request'[r] = Idle
      /\ \A q \in Requests \ {r} : request'[q] = request[q]
  BY <1>1, EndTask
<1>4. \A q \in Requests : WordAside(q) /\ CountAside(q)
  BY <1>3, IdleTask DEF CountAside, WordAside
<1>5. \A q \in Requests : request'[q].op # "page" /\ request'[q].at \notin PageSteps
  <2>1. \A q \in Requests : request[q].op = "page" => q = r
    BY <1>2 DEF PageInv
  <2> QED BY <1>3, <2>1, IdleTask DEF PageInv
<1>6. ~Reading' /\ watched' = Nothing
  BY <1>5 DEF Reading, Watch
<1>7. PagesTellTheirTime'
  BY <1>1, <1>2 DEF PagesTellTheirTime, Shown
<1>8. PageInv'
  BY <1>5, <1>6, <1>7 DEF PageInv
<1>9. RowsStay /\ WordsStay /\ CountsStay
  BY <1>1 DEF RowsStay, WordsStay, CountsStay
<1>10. TypeInv'
  BY <1>1, <1>3 DEF TypeInv
<1>11. JobInv'
  BY <1>1, RowFacts, JobFrame
<1> QED BY <1>1, <1>4, <1>8, <1>9, <1>10, <1>11, WordFrame, CountFrame

\* What an admin sets, of the row and in the history.
LEMMA SetColumnFacts ==
  ASSUME TypeInv, WordInv, NEW r \in Requests, SetColumn(r)
  PROVE  LET k == Read(r)
             c == On(r)
             column == request[r].op
             with == request[r].with
         IN
         /\ k \in 1 .. Len(rows) /\ c \in Ids
         /\ rows' \in Seq(CollectionRows) /\ said' \in [Ids -> Words]
         /\ RowsStay /\ CountsStay
         /\ \A j \in 1 .. Len(rows) : j # k => rows'[j] = rows[j]
         /\ \A d \in Ids : d # c => said'[d] = said[d]
         /\ rows'[k].status = rows[k].status /\ said'[c].status = said[c].status
         /\ rows'[k].allowed = IF column = "allowed" THEN with ELSE rows[k].allowed
         /\ said'[c].allowed = IF column = "allowed" THEN with ELSE said[c].allowed
         /\ rows'[k].metadata = IF column = "metadata" THEN with ELSE rows[k].metadata
         /\ said'[c].metadata = IF column = "metadata" THEN with ELSE said[c].metadata
<1>0. PICK k, c, column, with :
        k = Read(r) /\ c = On(r) /\ column = request[r].op /\ with = request[r].with
  OBVIOUS
<1>typed. /\ c \in Ids /\ k \in 1 .. Len(rows)
      /\ \/ column = "allowed" /\ with \in Texts
         \/ column = "metadata" /\ with = "links"
      /\ rows' = [rows EXCEPT ![k][column] = with] /\ said' = [said EXCEPT ![c][column] = with]
  BY <1>0 DEF WordInv, RowsOf, SetColumn
<1>1. PICK row, word : row = rows[k] /\ word = said[c]
  OBVIOUS
<1>2. row \in CollectionRows /\ word \in Words
  BY <1>typed, <1>1, RowFacts DEF TypeInv
<1> DEFINE row1 == [row EXCEPT ![column] = with]
           word1 == [word EXCEPT ![column] = with]
<1>3. /\ row1 \in CollectionRows /\ row1.id = row.id /\ row1.status = row.status
      /\ row1.onMarket = row.onMarket /\ row1.prices = row.prices /\ row1.tokens = row.tokens
      /\ row1.total = row.total /\ row1.holders = row.holders
      /\ row1.allowed = IF column = "allowed" THEN with ELSE row.allowed
      /\ row1.metadata = IF column = "metadata" THEN with ELSE row.metadata
  BY <1>typed, <1>2 DEF CollectionRows, MayAllow
<1>4. /\ word1 \in Words /\ word1.status = word.status
      /\ word1.allowed = IF column = "allowed" THEN with ELSE word.allowed
      /\ word1.metadata = IF column = "metadata" THEN with ELSE word.metadata
  BY <1>typed, <1>2 DEF Words, MayAllow
<1>5. /\ rows' = [rows EXCEPT ![k] = row1] /\ said' = [said EXCEPT ![c] = word1]
      /\ rows \in Seq(CollectionRows)
  BY <1>typed, <1>1 DEF TypeInv
<1> HIDE DEF row1, word1
<1>6. /\ rows' \in Seq(CollectionRows) /\ Len(rows') = Len(rows) /\ rows'[k] = row1
      /\ \A j \in 1 .. Len(rows) : j # k => rows'[j] = rows[j]
  BY <1>typed, <1>3, <1>5
<1>7. /\ said' \in [Ids -> Words] /\ said'[c] = word1
      /\ \A d \in Ids : d # c => said'[d] = said[d]
  BY <1>typed, <1>4, <1>5 DEF TypeInv
<1>8. RowsStay /\ CountsStay
  BY <1>typed, <1>1, <1>3, <1>6 DEF RowsStay, CountsStay
<1> QED BY <1>0, <1>typed, <1>1, <1>3, <1>4, <1>6, <1>7, <1>8

LEMMA SetColumnKeeps ==
  ASSUME CollectionsInv, Watch, UNCHANGED failures, NEW r \in Requests, SetColumn(r)
  PROVE  CollectionsInv'
<1> USE DEF CollectionsInv
<1>0. PICK k, c, column, with :
        k = Read(r) /\ c = On(r) /\ column = request[r].op /\ with = request[r].with
  OBVIOUS
<1>1. /\ UNCHANGED <<jobs, listed, stock, curated, page, changed, counted, started, failures>>
      /\ At(r, "set_column") /\ End(r)
  BY <1>0 DEF SetColumn
<1>2. /\ c \in Ids /\ k \in RowsOf(c)
      /\ \/ column = "allowed" /\ with \in Texts /\ CheckoutTokens(with)
         \/ column = "metadata" /\ with = "links"
  BY <1>0, <1>1 DEF WordInv
<1>3. k \in 1 .. Len(rows) /\ rows[k].id = c
  BY <1>2 DEF RowsOf
<1>4. /\ rows' \in Seq(CollectionRows) /\ said' \in [Ids -> Words]
      /\ RowsStay /\ CountsStay
      /\ \A j \in 1 .. Len(rows) : j # k => rows'[j] = rows[j]
      /\ \A d \in Ids : d # c => said'[d] = said[d]
      /\ rows'[k].status = rows[k].status /\ said'[c].status = said[c].status
      /\ rows'[k].allowed = IF column = "allowed" THEN with ELSE rows[k].allowed
      /\ said'[c].allowed = IF column = "allowed" THEN with ELSE said[c].allowed
      /\ rows'[k].metadata = IF column = "metadata" THEN with ELSE rows[k].metadata
      /\ said'[c].metadata = IF column = "metadata" THEN with ELSE said[c].metadata
  BY <1>0, <1>1, SetColumnFacts
<1>5. /\ request' \in [Requests -> Asked] /\ request'[r] = Idle
      /\ \A q \in Requests \ {r} : request'[q] = request[q]
  BY <1>1, EndTask
<1>6. \A q \in Requests : WordAside(q) /\ PageAside(q) /\ CountAside(q)
  BY <1>5, IdleTask DEF CountAside, WordAside, PageAside
<1>7. TypeInv'
  BY <1>1, <1>4, <1>5 DEF TypeInv
<1>8. JobInv'
  BY <1>1, <1>4, RowFacts, JobFrame DEF RowsStay
<1>9. \A d : RowsOf(d)' = RowsOf(d)
  BY <1>4, RowsOfStay
<1>10. ASSUME NEW j \in 1 .. Len(rows), NEW d, d = rows[j].id
       PROVE  /\ CheckoutTokens(rows'[j].allowed)
              /\ RowsOf(d) = {j} =>
                   /\ rows'[j].status = said'[d].status
                   /\ rows'[j].allowed = said'[d].allowed
                   /\ rows'[j].metadata = said'[d].metadata
  <2>1. CASE j = k
    BY <1>2, <1>3, <1>4, <1>10, <2>1 DEF WordInv
  <2>2. CASE j # k
    <3>1. RowsOf(d) = {j} => d # c
      BY <1>2, <2>2
    <3>2. d \in Ids
      BY <1>10, RowFacts
    <3> QED BY <1>4, <1>10, <2>2, <3>1, <3>2 DEF WordInv
  <2> QED BY <2>1, <2>2
<1>11. ASSUME NEW q \in Requests, At(q, "set_column")'
       PROVE  /\ On(q)' \in Ids /\ Read(q)' \in RowsOf(On(q))'
              /\ \/ request'[q].op = "allowed" /\ request'[q].with \in Texts /\ CheckoutTokens(request'[q].with)
                 \/ request'[q].op = "metadata" /\ request'[q].with = "links"
  <2>1. request'[q] = request[q]
    BY <1>6, <1>11 DEF WordAside, At
  <2>2. On(q)' = On(q) /\ Read(q)' = Read(q)
    BY <2>1 DEF On, Read
  <2>3. PICK d : d = On(q)
    OBVIOUS
  <2>4. RowsOf(d)' = RowsOf(d)
    BY <1>9
  <2> QED BY <1>11, <2>1, <2>2, <2>3, <2>4 DEF WordInv, At
<1>12. \A d \in Ids : RowsOf(d) = {} => said'[d] = NothingSaid
  BY <1>2, <1>4 DEF WordInv
<1>13. \A j \in 1 .. Len(rows') : j \in 1 .. Len(rows) /\ rows'[j].id = rows[j].id
  BY <1>4 DEF RowsStay
<1>14. WordInv'
  BY <1>9, <1>10, <1>11, <1>12, <1>13 DEF WordInv
<1> QED BY <1>1, <1>4, <1>6, <1>7, <1>8, <1>14, PageFrame, CountFrame

-----------------------------------------------------------------------------
(* Sums and bounds of the prices.                                          *)

LEMMA LeastNumber ==
  ASSUME NEW S \in SUBSET Nat, S # {}
  PROVE  \E n \in S : \A m \in S : n <= m
<1>1. PICK n \in S : \A m \in S : ~(<<m, n>> \in OpToRel(<, Nat))
  BY NatLessThanWellFounded, WFMin
<1>2. \A m \in S : ~(m < n)
  BY <1>1 DEF OpToRel
<1> QED BY <1>2

\* An induction, over the places of a sequence: of those where it fails there is a
\* first one.
LEMMA SumIsNat ==
  ASSUME NEW all, Len(listed) \in Nat, \A k \in 1 .. Len(listed) : listed[k].price \in Nat
  PROVE  SumOf(all) \in Nat
<1> DEFINE n == Len(listed)
           Step(k) == IF k \in all THEN listed[k].price ELSE 0
           Good(f, m) == /\ f[0] = 0
                         /\ \A k \in 1 .. m : f[k] = f[k - 1] + Step(k)
           Bad == {m \in 0 .. n : ~ \E f \in [0 .. n -> Nat] : Good(f, m)}
           sum[k \in 0 .. n] == IF k = 0 THEN 0 ELSE sum[k - 1] + (IF k \in all THEN listed[k].price ELSE 0)
<1>1. n \in Nat /\ \A k \in 1 .. n : Step(k) \in Nat
  OBVIOUS
<1> HIDE DEF Step
<1>2. Bad = {}
  <2>1. SUFFICES ASSUME Bad # {} PROVE FALSE
    OBVIOUS
  <2>2. PICK m \in Bad : \A k \in Bad : m <= k
    <3>1. Bad \in SUBSET Nat
      OBVIOUS
    <3> HIDE DEF Bad
    <3> QED BY <2>1, <3>1, LeastNumber
  <2>3. m # 0
    <3>1. [k \in 0 .. n |-> 0] \in [0 .. n -> Nat] /\ Good([k \in 0 .. n |-> 0], 0)
      OBVIOUS
    <3> QED BY <3>1
  <2>4. m \in 1 .. n /\ m - 1 \in 0 .. n /\ m - 1 \notin Bad
    <3>1. m \in 1 .. n /\ m - 1 \in 0 .. n /\ ~(m <= m - 1)
      BY <2>3
    <3> QED BY <2>2, <3>1
  <2>5. PICK f \in [0 .. n -> Nat] : Good(f, m - 1)
    BY <2>4
  <2> DEFINE h == [f EXCEPT ![m] = f[m - 1] + Step(m)]
  <2>6. h \in [0 .. n -> Nat]
    <3>1. f[m - 1] + Step(m) \in Nat
      <4>1. f[m - 1] \in Nat /\ Step(m) \in Nat
        BY <1>1, <2>4
      <4> QED BY <4>1
    <3> HIDE DEF n
    <3> QED BY <3>1
  <2>7. Good(h, m)
    <3>1. h[0] = 0
      BY <2>4, <2>5
    <3>2. ASSUME NEW k \in 1 .. m PROVE h[k] = h[k - 1] + Step(k)
      <4>1. CASE k = m
        BY <2>4, <2>5, <4>1
      <4>2. CASE k # m
        <5>1. k \in 1 .. m - 1 /\ k \in 0 .. n /\ k - 1 \in 0 .. n /\ k - 1 # m
          BY <2>4, <4>2
        <5>2. f[k] = f[k - 1] + Step(k)
          BY <2>5, <5>1
        <5> QED BY <4>2, <5>1, <5>2
      <4> QED BY <4>1, <4>2
    <3> QED BY <3>1, <3>2
  <2> QED BY <2>2, <2>6, <2>7
<1>3. PICK f \in [0 .. n -> Nat] : Good(f, n)
  <2>1. n \notin Bad
    <3> HIDE DEF Bad
    <3> QED BY <1>1, <1>2
  <2> QED BY <2>1
<1>4. f = [k \in 0 .. n |-> IF k = 0 THEN 0 ELSE f[k - 1] + (IF k \in all THEN listed[k].price ELSE 0)]
  <2>1. \A k \in 0 .. n : f[k] = IF k = 0 THEN 0 ELSE f[k - 1] + (IF k \in all THEN listed[k].price ELSE 0)
    BY <1>3 DEF Step
  <2> QED BY <2>1
<1>5. sum = [k \in 0 .. n |-> IF k = 0 THEN 0 ELSE sum[k - 1] + (IF k \in all THEN listed[k].price ELSE 0)]
  BY <1>4
<1>6. sum[0] = 0 /\ \A k \in 1 .. n : sum[k] = sum[k - 1] + Step(k)
  <2> HIDE DEF sum, SumOf
  <2> QED BY <1>5 DEF Step
<1> HIDE DEF sum, SumOf
<1> DEFINE NoNat == {k \in 0 .. n : sum[k] \notin Nat}
<1>7. NoNat = {}
  <2>1. SUFFICES ASSUME NoNat # {} PROVE FALSE
    OBVIOUS
  <2>2. PICK m \in NoNat : \A k \in NoNat : m <= k
    <3>1. NoNat \in SUBSET Nat
      OBVIOUS
    <3> HIDE DEF NoNat
    <3> QED BY <2>1, <3>1, LeastNumber
  <2>3. m # 0 /\ m \in 1 .. n /\ m - 1 \in 0 .. n /\ ~(m <= m - 1)
    BY <1>6
  <2>4. sum[m - 1] \in Nat
    BY <2>2, <2>3
  <2> QED BY <1>1, <1>6, <2>3, <2>4
<1>8. sum[n] \in Nat
  BY <1>7
<1> QED BY <1>8 DEF sum, SumOf, n

LEMMA PricesHaveBounds ==
  ASSUME NEW n \in Nat, NEW l, NEW all \in SUBSET (1 .. n), all # {}, \A k \in 1 .. n : l[k].price \in Nat
  PROVE  LET prices == {l[k].price : k \in all}
         IN /\ \E p \in prices : \A q \in prices : p <= q
            /\ \E p \in prices : \A q \in prices : p >= q
<1> DEFINE prices == {l[k].price : k \in all}
<1>1. prices \subseteq Nat /\ prices # {}
  OBVIOUS
<1>2. PICK bound \in Nat : \A k \in 1 .. n : l[k].price <= bound
  <2> DEFINE Unbounded == {m \in 0 .. n : ~ \E bound \in Nat : \A k \in 1 .. m : l[k].price <= bound}
  <2>1. SUFFICES ASSUME Unbounded # {} PROVE FALSE
    <3>1. n \in 0 .. n
      OBVIOUS
    <3> QED BY <3>1
  <2>2. PICK m \in Unbounded : \A k \in Unbounded : m <= k
    <3>1. Unbounded \in SUBSET Nat
      OBVIOUS
    <3> HIDE DEF Unbounded
    <3> QED BY <2>1, <3>1, LeastNumber
  <2>3. m # 0
    OBVIOUS
  <2>4. m \in 1 .. n /\ m - 1 \in 0 .. n /\ ~(m <= m - 1)
    BY <2>3
  <2>5. PICK b \in Nat : \A k \in 1 .. m - 1 : l[k].price <= b
    BY <2>2, <2>4
  <2>6. b + l[m].price \in Nat /\ \A k \in 1 .. m : l[k].price <= b + l[m].price
    <3>1. l[m].price \in Nat
      BY <2>4
    <3>2. ASSUME NEW k \in 1 .. m PROVE l[k].price <= b + l[m].price
      <4>1. l[k].price \in Nat
        BY <2>4
      <4>2. CASE k = m
        BY <3>1, <4>2
      <4>3. CASE k # m
        <5>1. k \in 1 .. m - 1
          BY <2>4, <4>3
        <5> QED BY <2>5, <3>1, <4>1, <5>1
      <4> QED BY <4>2, <4>3
    <3> QED BY <3>1, <3>2
  <2> QED BY <2>6
<1>3. \A p \in prices : p <= bound
  BY <1>2
<1> HIDE DEF prices
<1> DEFINE Bounds == {b \in Nat : \A p \in prices : p <= b}
<1>4. PICK b \in Bounds : \A m \in Bounds : b <= m
  <2>1. Bounds \in SUBSET Nat /\ Bounds # {}
    BY <1>3
  <2> HIDE DEF Bounds
  <2> QED BY <2>1, LeastNumber
<1>5. b \in prices
  <2>1. SUFFICES ASSUME b \notin prices PROVE FALSE
    OBVIOUS
  <2>2. \A p \in prices : p < b
    BY <1>1, <1>4, <2>1
  <2>3. b - 1 \in Nat /\ \A p \in prices : p <= b - 1
    <3>1. b \in Nat /\ \A p \in prices : p \in Nat
      BY <1>1
    <3>2. \A p \in prices : p <= b - 1
      BY <2>2, <3>1
    <3>3. PICK p \in prices : p < b
      BY <1>1, <2>2
    <3> QED BY <3>1, <3>2, <3>3
  <2>4. b - 1 \in Bounds /\ ~(b <= b - 1)
    BY <1>4, <2>3
  <2> QED BY <1>4, <2>4
<1>6. \A q \in prices : b >= q
  BY <1>1, <1>4
<1>7. \E p \in prices : \A q \in prices : p <= q
  BY <1>1, LeastNumber
<1> QED BY <1>5, <1>6, <1>7 DEF prices

\* getPriceStats
LEMMA PriceStatsFacts ==
  ASSUME TypeInv, NEW c \in Ids
  PROVE  PriceStats(c) \in Stats /\ Spanned(PriceStats(c), c)
<1> DEFINE n == Len(listed)
           all == {k \in 1 .. n : listed[k].id = c}
           prices == {listed[k].price : k \in all}
           sum == SumOf(all)
           least == CHOOSE p \in prices : \A q \in prices : p <= q
           most == CHOOSE p \in prices : \A q \in prices : p >= q
<1>1. /\ n \in Nat /\ Opened(c) \subseteq all
      /\ \A k \in 1 .. n : listed[k].price \in Prices /\ listed[k].price \in Nat
  <2>1. n \in Nat /\ \A k \in 1 .. n : listed[k] \in Offer
    BY DEF TypeInv
  <2>2. \A o \in Offer : o.price \in Prices /\ o.price \in Nat
    BY RestInputs DEF Offer
  <2>3. Opened(c) \subseteq all
    BY DEF Opened
  <2> QED BY <2>1, <2>2, <2>3
<1>2. CASE all = {}
  <2>1. PriceStats(c) = NoPrices
    BY <1>2 DEF PriceStats
  <2>2. NoPrices \in Stats
    BY DEF NoPrices, Stats
  <2>3. Spanned(NoPrices, c)
    BY <1>1, <1>2 DEF Spanned
  <2> QED BY <2>1, <2>2, <2>3
<1>3. CASE all # {}
  <2>1. PriceStats(c) = [min |-> least, max |-> most, sum |-> sum]
    BY <1>3 DEF PriceStats
  <2>2. sum \in Nat
    BY <1>1, SumIsNat
  <2>3. /\ \E p \in prices : \A q \in prices : p <= q
        /\ \E p \in prices : \A q \in prices : p >= q
    <3>1. all \in SUBSET (1 .. n)
      OBVIOUS
    <3> HIDE DEF n, all
    <3> QED BY <1>1, <1>3, <3>1, PricesHaveBounds
  <2> HIDE DEF sum
  <2>4. /\ least \in prices /\ \A q \in prices : least <= q
        /\ most \in prices /\ \A q \in prices : most >= q
    <3> HIDE DEF prices
    <3> QED BY <2>3
  <2>5. prices \subseteq Prices /\ \A k \in Opened(c) : listed[k].price \in prices
    BY <1>1
  <2>6. least \in Prices /\ most \in Prices
    <3> HIDE DEF prices, least, most
    <3> QED BY <2>4, <2>5
  <2>7. PriceStats(c) \in Stats /\ PriceStats(c).min = least /\ PriceStats(c).max = most
    <3> HIDE DEF least, most
    <3> QED BY <2>1, <2>2, <2>6 DEF Stats
  <2>8. \A k \in Opened(c) : least <= listed[k].price /\ listed[k].price <= most
    <3>1. \A p \in Prices : p \in Nat
      BY RestInputs
    <3> HIDE DEF prices, least, most
    <3> QED BY <2>4, <2>5, <2>6, <3>1
  <2> QED BY <2>7, <2>8 DEF Spanned
<1> QED BY <1>2, <1>3

-----------------------------------------------------------------------------
(* The counts.                                                             *)

\* What a count has read from one of the tables is put beside what it has.
LEMMA CountOnKeeps ==
  ASSUME CollectionsInv, Watch, UNCHANGED failures, NEW r \in Requests,
         NEW step \in CountSteps, NEW next \in CountSteps, NEW count \in Counts,
         CountOn(r, step, next, count), next # "ask_total",
         count.after = Read(r).after, count.onMarket = Read(r).onMarket,
         count.after = changed =>
           /\ count.total = stock[On(r)].total
           /\ next \in {"count_holders", "price_stats", "save_count"} => count.tokens = stock[On(r)].tokens
           /\ next \in {"price_stats", "save_count"} => count.holders = stock[On(r)].holders
           /\ next = "save_count" => Spanned(count.prices, On(r))
  PROVE  CollectionsInv'
<1> USE DEF CollectionsInv
<1>1. /\ UNCHANGED <<told, seen, started>> /\ failures' \in 0 .. MaxFailures
      /\ At(r, step) /\ Goto(r, next, count) /\ started' \in 0 .. MaxStarted
  BY DEF CountOn, TypeInv
<1>2. /\ request' \in [Requests -> Asked]
      /\ request'[r].at = next /\ request'[r].read = count
      /\ request'[r].op = request[r].op /\ request'[r].on = request[r].on
      /\ \A q \in Requests \ {r} : request'[q] = request[q]
  BY <1>1, GotoTask
<1>3. CountTaskOK(r)
  BY <1>1 DEF CountInv, At
<1>4. \A q \in Requests : PageAside(q) /\ WordAside(q) /\ (q # r => CountAside(q))
  BY <1>2, <1>3, StepKinds DEF PageAside, WordAside, CountAside, CountTaskOK
<1>5. UNCHANGED <<rows, listed, stock, changed, counted>>
  BY <1>1 DEF told, seen
<1>6. PICK c, prices : c = On(r) /\ prices = count.prices
  OBVIOUS
<1>7. OnMarket(c)' = OnMarket(c) /\ (Spanned(prices, c)' <=> Spanned(prices, c))
  BY <1>5 DEF OnMarket, Opened, Spanned
<1>8. /\ On(r)' = c /\ Read(r)' = count /\ c \in Ids /\ request'[r].op = "count"
      /\ count.after <= changed
      /\ count.after = changed => count.onMarket = OnMarket(c)
  BY <1>2, <1>3, <1>6 DEF On, Read, CountTaskOK
<1>9. next = "save_count" /\ count.after = changed => Spanned(count.prices, On(r))'
  BY <1>6, <1>7, <1>8, <1>5
<1>10. CountTaskOK(r)'
  BY <1>2, <1>5, <1>6, <1>7, <1>8, <1>9 DEF CountTaskOK, At
<1>11. \A q \in Requests : request'[q].at \in CountSteps => CountTaskOK(q)'
  BY <1>4, <1>5, <1>10, CountTaskFrame
<1>12. CountInv'
  BY <1>5, <1>11, CountRowsStay
<1> QED BY <1>1, <1>2, <1>4, <1>12, OnlyRequests

LEMMA CountStepsKeep ==
  ASSUME CollectionsInv, Watch, UNCHANGED failures, NEW r \in Requests,
         AskTotal(r) \/ CountTokens(r) \/ CountHolders(r) \/ GetPriceStats(r)
  PROVE  CollectionsInv'
<1>1. PICK t, c, s : t = Read(r) /\ c = On(r) /\ s = stock[c]
  OBVIOUS
<1>2. request[r].at \in CountSteps
  BY DEF AskTotal, CountTokens, CountHolders, GetPriceStats, CountOn, At, CountSteps
<1>3. CountTaskOK(r)
  BY <1>2 DEF CollectionsInv, CountInv
<1>4. t \in Counts /\ c \in Ids /\ s \in Stock
  BY <1>1, <1>3 DEF CountTaskOK, CollectionsInv, TypeInv
<1>5. s.total \in Nat /\ s.tokens \in Nat /\ s.holders \in Nat
  BY <1>4 DEF Stock
<1>6. PriceStats(c) \in Stats /\ Spanned(PriceStats(c), c)
  BY <1>4, PriceStatsFacts DEF CollectionsInv
<1>7. {"ask_total", "count_tokens", "count_holders", "price_stats", "save_count"} \subseteq CountSteps
  BY DEF CountSteps
<1>8. CASE AskTotal(r)
  <2> DEFINE t1 == [t EXCEPT !.total = s.total]
  <2>1. t1 \in Counts /\ t1.total = s.total /\ t1.after = t.after /\ t1.onMarket = t.onMarket
    BY <1>4, <1>5 DEF Counts
  <2>2. CountOn(r, "ask_total", "count_tokens", t1)
    BY <1>1, <1>8 DEF AskTotal
  <2> HIDE DEF t1
  <2> QED BY <1>1, <1>7, <2>1, <2>2, CountOnKeeps
<1>9. CASE CountTokens(r)
  <2> DEFINE t1 == [t EXCEPT !.tokens = s.tokens]
  <2>1. /\ t1 \in Counts /\ t1.tokens = s.tokens /\ t1.after = t.after /\ t1.onMarket = t.onMarket
        /\ t1.total = t.total
    BY <1>4, <1>5 DEF Counts
  <2>2. CountOn(r, "count_tokens", "count_holders", t1)
    BY <1>1, <1>9 DEF CountTokens
  <2>3. t.after = changed => t.total = s.total
    BY <1>1, <1>3, <2>2 DEF CountTaskOK, CountOn, At
  <2> HIDE DEF t1
  <2> QED BY <1>1, <1>7, <2>1, <2>2, <2>3, CountOnKeeps
<1>10. CASE CountHolders(r)
  <2> DEFINE t1 == [t EXCEPT !.holders = s.holders]
  <2>1. /\ t1 \in Counts /\ t1.holders = s.holders /\ t1.after = t.after /\ t1.onMarket = t.onMarket
        /\ t1.total = t.total /\ t1.tokens = t.tokens
    BY <1>4, <1>5 DEF Counts
  <2>2. CountOn(r, "count_holders", "price_stats", t1)
    BY <1>1, <1>10 DEF CountHolders
  <2>3. t.after = changed => t.total = s.total /\ t.tokens = s.tokens
    BY <1>1, <1>3, <2>2 DEF CountTaskOK, CountOn, At
  <2> HIDE DEF t1
  <2> QED BY <1>1, <1>7, <2>1, <2>2, <2>3, CountOnKeeps
<1>11. CASE GetPriceStats(r)
  <2>0. PICK p : p = PriceStats(c)
    OBVIOUS
  <2> DEFINE t1 == [t EXCEPT !.prices = p]
  <2>1. /\ t1 \in Counts /\ t1.prices = p /\ t1.after = t.after /\ t1.onMarket = t.onMarket
        /\ t1.total = t.total /\ t1.tokens = t.tokens /\ t1.holders = t.holders
    BY <1>4, <1>6, <2>0 DEF Counts
  <2>2. CountOn(r, "price_stats", "save_count", t1)
    BY <1>1, <1>11, <2>0 DEF GetPriceStats
  <2>3. t.after = changed => t.total = s.total /\ t.tokens = s.tokens /\ t.holders = s.holders
    BY <1>1, <1>3, <2>2 DEF CountTaskOK, CountOn, At
  <2>4. Spanned(t1.prices, c)
    BY <1>6, <2>0, <2>1
  <2> HIDE DEF t1
  <2> QED BY <1>1, <1>7, <2>1, <2>2, <2>3, <2>4, CountOnKeeps
<1> QED BY <1>8, <1>9, <1>10, <1>11

\* A sequence that is given place by place.
LEMMA PlaceByPlace ==
  ASSUME NEW S, NEW n \in Nat, NEW f \in [1 .. n -> S]
  PROVE  f \in Seq(S) /\ Len(f) = n
  OBVIOUS

LEMMA SaveCountKeeps ==
  ASSUME CollectionsInv, Watch, UNCHANGED failures, NEW r \in Requests, SaveCount(r)
  PROVE  CollectionsInv'
<1> USE DEF CollectionsInv
<1>0. PICK c, count : c = On(r) /\ count = Read(r)
  OBVIOUS
<1> DEFINE of(row) == [row EXCEPT !.onMarket = count.onMarket, !.tokens = count.tokens, !.total = count.total,
                                  !.holders = count.holders, !.prices = count.prices]
<1>1. /\ UNCHANGED <<jobs, listed, stock, curated, page, said, changed, started, failures>>
      /\ rows' = [k \in 1 .. Len(rows) |-> IF k \in RowsOf(c) THEN of(rows[k]) ELSE rows[k]]
      /\ counted' = [counted EXCEPT ![c] = count.after]
      /\ At(r, "save_count") /\ End(r)
  BY <1>0 DEF SaveCount
<1>2. CountTaskOK(r)
  BY <1>1 DEF CountInv, CountSteps, At
<1>3. /\ c \in Ids /\ count \in Counts /\ count.after \in Nat /\ count.after <= changed
      /\ count.after = changed =>
           /\ count.onMarket = OnMarket(c) /\ count.total = stock[c].total
           /\ count.tokens = stock[c].tokens /\ count.holders = stock[c].holders
           /\ Spanned(count.prices, c)
  BY <1>0, <1>1, <1>2 DEF CountTaskOK, At, Counts
<1>4. ASSUME NEW row \in CollectionRows
      PROVE  /\ of(row) \in CollectionRows /\ of(row).id = row.id /\ of(row).status = row.status
             /\ of(row).allowed = row.allowed /\ of(row).metadata = row.metadata
             /\ of(row).onMarket = count.onMarket /\ of(row).tokens = count.tokens
             /\ of(row).total = count.total /\ of(row).holders = count.holders
             /\ of(row).prices = count.prices
  <2>1. /\ count.onMarket \in Nat /\ count.tokens \in Nat /\ count.total \in Nat
        /\ count.holders \in Nat /\ count.prices \in Stats
    BY <1>3 DEF Counts
  <2> QED BY <2>1 DEF CollectionRows
<1> HIDE DEF of
<1>5. /\ rows' \in Seq(CollectionRows) /\ Len(rows') = Len(rows)
      /\ \A k \in 1 .. Len(rows) : rows'[k] = IF rows[k].id = c THEN of(rows[k]) ELSE rows[k]
  <2>1. \A k \in 1 .. Len(rows) : k \in RowsOf(c) <=> rows[k].id = c
    BY DEF RowsOf
  <2>2. rows' \in [1 .. Len(rows) -> CollectionRows]
    BY <1>1, <1>4, RowFacts
  <2> QED BY <1>1, <2>1, <2>2, RowFacts, PlaceByPlace
<1>6. RowsStay /\ WordsStay
  BY <1>4, <1>5, RowFacts DEF RowsStay, WordsStay
<1>7. /\ request' \in [Requests -> Asked] /\ request'[r] = Idle
      /\ \A q \in Requests \ {r} : request'[q] = request[q]
  BY <1>1, EndTask
<1>8. \A q \in Requests : WordAside(q) /\ PageAside(q) /\ CountAside(q)
  BY <1>7, IdleTask DEF CountAside, WordAside, PageAside
<1>9. /\ counted' \in [Ids -> Nat \cup {None}] /\ counted'[c] = count.after
      /\ \A d \in Ids : d # c => counted'[d] = counted[d]
  BY <1>1, <1>3 DEF TypeInv
<1>10. TypeInv'
  BY <1>1, <1>5, <1>7, <1>9 DEF TypeInv
<1>11. JobInv'
  BY <1>1, <1>6, RowFacts, JobFrame DEF RowsStay
<1>12. CountInv'
  <2>1. \A q \in Requests : request'[q].at \in CountSteps => CountTaskOK(q)'
    BY <1>1, <1>8, CountTaskFrame
  <2>2. \A d \in Ids : counted'[d] \in Nat => counted'[d] <= changed
    BY <1>3, <1>9 DEF CountInv
  <2>3. ASSUME NEW k \in 1 .. Len(rows'), NEW d, NEW prices, d = rows'[k].id, prices = rows'[k].prices,
               counted'[d] = changed
        PROVE  /\ rows'[k].onMarket = OnMarket(d)'
               /\ rows'[k].tokens = stock[d].tokens /\ rows'[k].total = stock[d].total
               /\ rows'[k].holders = stock[d].holders /\ Spanned(prices, d)'
    <3>1. OnMarket(d)' = OnMarket(d) /\ (Spanned(prices, d)' <=> Spanned(prices, d))
      BY <1>1 DEF OnMarket, Opened, Spanned
    <3>2. k \in 1 .. Len(rows) /\ d = rows[k].id /\ d \in Ids /\ rows[k] \in CollectionRows
      BY <1>5, <1>6, <2>3, RowFacts DEF RowsStay
    <3>3. CASE d = c
      <4>1. PICK row : row = rows[k]
        OBVIOUS
      <4>2. rows'[k] = of(row) /\ row \in CollectionRows
        BY <1>5, <3>2, <3>3, <4>1
      <4>3. /\ rows'[k].onMarket = count.onMarket /\ rows'[k].tokens = count.tokens
            /\ rows'[k].total = count.total /\ rows'[k].holders = count.holders
            /\ rows'[k].prices = count.prices
        BY <1>4, <4>2
      <4>4. count.after = changed
        BY <1>9, <2>3, <3>3
      <4> QED BY <1>3, <2>3, <3>1, <3>3, <4>3, <4>4
    <3>4. CASE d # c
      <4>1. rows'[k] = rows[k] /\ counted[d] = changed
        BY <1>5, <1>9, <2>3, <3>2, <3>4
      <4> QED BY <2>3, <3>1, <3>2, <4>1 DEF CountInv
    <3> QED BY <3>3, <3>4
  <2> QED BY <1>1, <2>1, <2>2, <2>3 DEF CountInv
<1> QED BY <1>1, <1>6, <1>8, <1>10, <1>11, <1>12, WordFrame, PageFrame

LEMMA ToggleKeeps ==
  ASSUME CollectionsInv, Watch, UNCHANGED failures, NEW r \in Requests, NEW c \in Ids,
         NEW status \in {"Enabled", "Disabled"}, ToggleCollection(r, c, status)
  PROVE  CollectionsInv'
<1> USE DEF CollectionsInv
<1> DEFINE of(row) == [row EXCEPT !.status = status]
<1>1. /\ UNCHANGED <<jobs, listed, stock, curated, page, changed, counted, request, failures>>
      /\ rows' = [k \in 1 .. Len(rows) |-> IF k \in RowsOf(c) THEN of(rows[k]) ELSE rows[k]]
      /\ said' = [said EXCEPT ![c].status = status] /\ RowsOf(c) # {}
      /\ started < MaxStarted /\ started' = started + 1
  BY DEF ToggleCollection
<1>2. ASSUME NEW row \in CollectionRows
      PROVE  /\ of(row) \in CollectionRows /\ of(row).id = row.id /\ of(row).status = status
             /\ of(row).allowed = row.allowed /\ of(row).metadata = row.metadata
             /\ of(row).onMarket = row.onMarket /\ of(row).tokens = row.tokens
             /\ of(row).total = row.total /\ of(row).holders = row.holders
             /\ of(row).prices = row.prices
  BY DEF CollectionRows
<1>3. PICK word : word = said[c]
  OBVIOUS
<1> DEFINE word1 == [word EXCEPT !.status = status]
<1>4. /\ word1 \in Words /\ word1.status = status /\ word1.allowed = word.allowed
      /\ word1.metadata = word.metadata
  BY <1>3 DEF TypeInv, Words
<1>5. said' = [said EXCEPT ![c] = word1]
  BY <1>1, <1>3
<1> HIDE DEF of, word1
<1>6. /\ said' \in [Ids -> Words] /\ said'[c] = word1
      /\ \A d \in Ids : d # c => said'[d] = said[d]
  BY <1>4, <1>5 DEF TypeInv
<1>7. /\ rows' \in Seq(CollectionRows) /\ Len(rows') = Len(rows)
      /\ \A k \in 1 .. Len(rows) : rows'[k] = IF rows[k].id = c THEN of(rows[k]) ELSE rows[k]
  <2>1. \A k \in 1 .. Len(rows) : k \in RowsOf(c) <=> rows[k].id = c
    BY DEF RowsOf
  <2>2. rows' \in [1 .. Len(rows) -> CollectionRows]
    BY <1>1, <1>2, RowFacts
  <2> QED BY <1>1, <2>1, <2>2, RowFacts, PlaceByPlace
<1>8. RowsStay /\ CountsStay
  BY <1>2, <1>7, RowFacts DEF RowsStay, CountsStay
<1>9. \A q \in Requests : PageAside(q) /\ CountAside(q)
  BY <1>1 DEF CountAside, PageAside
<1>10. started' \in 0 .. MaxStarted
  BY <1>1, RestInputs DEF TypeInv
<1>11. TypeInv'
  BY <1>1, <1>6, <1>7, <1>10 DEF TypeInv
<1>12. JobInv'
  BY <1>1, <1>8, RowFacts, JobFrame DEF RowsStay
<1>13. \A d : RowsOf(d)' = RowsOf(d)
  BY <1>8, RowsOfStay
<1>14. ASSUME NEW j \in 1 .. Len(rows), NEW d, d = rows[j].id
       PROVE  /\ CheckoutTokens(rows'[j].allowed)
              /\ RowsOf(d) = {j} =>
                   /\ rows'[j].status = said'[d].status
                   /\ rows'[j].allowed = said'[d].allowed
                   /\ rows'[j].metadata = said'[d].metadata
  <2>1. d \in Ids /\ rows[j] \in CollectionRows
    BY <1>14, RowFacts
  <2>2. CASE d = c
    <3>1. PICK row : row = rows[j]
      OBVIOUS
    <3>2. rows'[j] = of(row) /\ row \in CollectionRows
      BY <1>7, <1>14, <2>1, <2>2, <3>1
    <3>3. /\ rows'[j].status = status /\ rows'[j].allowed = row.allowed
          /\ rows'[j].metadata = row.metadata
      BY <1>2, <3>2
    <3>4. /\ CheckoutTokens(row.allowed)
          /\ RowsOf(d) = {j} => row.allowed = word.allowed /\ row.metadata = word.metadata
      BY <1>3, <1>14, <2>2, <3>1 DEF WordInv
    <3> QED BY <1>4, <1>6, <2>2, <3>3, <3>4
  <2>3. CASE d # c
    BY <1>6, <1>7, <1>14, <2>1, <2>3 DEF WordInv
  <2> QED BY <2>2, <2>3
<1>15. \A q \in Requests : /\ On(q)' = On(q) /\ Read(q)' = Read(q)
                           /\ At(q, "set_column")' <=> At(q, "set_column")
  BY <1>1 DEF On, Read, At
<1>16. \A d \in Ids : RowsOf(d) = {} => said'[d] = NothingSaid
  BY <1>1, <1>6 DEF WordInv
<1>17. \A j \in 1 .. Len(rows') : j \in 1 .. Len(rows) /\ rows'[j].id = rows[j].id
  BY <1>8 DEF RowsStay
<1>18. ASSUME NEW q \in Requests, At(q, "set_column")
       PROVE  Read(q)' \in RowsOf(On(q))'
  <2>1. PICK d : d = On(q)
    OBVIOUS
  <2>2. Read(q) \in RowsOf(d)'
    BY <1>13, <1>18, <2>1 DEF WordInv
  <2> QED BY <1>15, <2>1, <2>2
<1>19. WordInv'
  <2>1. ASSUME NEW q \in Requests, At(q, "set_column")'
        PROVE  /\ On(q)' \in Ids /\ Read(q)' \in RowsOf(On(q))'
               /\ \/ request'[q].op = "allowed" /\ request'[q].with \in Texts /\ CheckoutTokens(request'[q].with)
                  \/ request'[q].op = "metadata" /\ request'[q].with = "links"
    BY <1>1, <1>15, <1>18, <2>1 DEF WordInv
  <2> QED BY <1>13, <1>14, <1>16, <1>17, <2>1 DEF WordInv
<1> QED BY <1>1, <1>8, <1>9, <1>11, <1>12, <1>19, PageFrame, CountFrame

\* What nobody awaits takes all requests down with it.
LEMMA ThrowKeeps ==
  ASSUME CollectionsInv, Watch, failures' \in 0 .. MaxFailures, NEW r \in Requests, Throw(r)
  PROVE  CollectionsInv'
<1>1. UNCHANGED <<told, seen, started>>
  BY DEF Throw
<1>2. /\ request' \in [Requests -> Asked]
      /\ \A q \in Requests : request'[q] = request[q] \/ request'[q] = Idle
  <2>1. CASE End(r)
    BY <2>1, EndTask DEF CollectionsInv
  <2>2. CASE request' = [q \in Requests |-> Idle]
    BY <2>2, IdleTask
  <2> QED BY <2>1, <2>2 DEF Throw
<1>3. \A q \in Requests : WordAside(q) /\ PageAside(q) /\ CountAside(q)
  BY <1>2, IdleTask DEF CountAside, WordAside, PageAside
<1>4. started' \in 0 .. MaxStarted
  BY <1>1 DEF CollectionsInv, TypeInv
<1> QED BY <1>1, <1>2, <1>3, <1>4, OnlyRequests DEF CollectionsInv

-----------------------------------------------------------------------------
(* The tables that the escrow worker and the banners change.               *)

LEMMA ChangeKeeps ==
  ASSUME CollectionsInv, Watch, UNCHANGED failures, NEW c \in Ids, Offers(c) \/ Restock(c) \/ Curate(c)
  PROVE  CollectionsInv'
<1> USE DEF CollectionsInv
<1>1. /\ UNCHANGED <<rows, jobs, page, said, counted, request, started>>
      /\ changed < MaxChanges /\ changed' = changed + 1
  BY DEF Offers, ListOffer, CloseOffer, Restock, Curate, Change
<1>2. changed' \in 0 .. MaxChanges
  BY <1>1, CollectionsInputs DEF TypeInv
<1>3. listed' \in Seq(Offer) /\ stock' \in [Ids -> Stock] /\ curated' \subseteq Ids
  <2>1. CASE \E price \in Prices : ListOffer(c, price)
    BY <2>1 DEF ListOffer, TypeInv, Offer
  <2>2. ASSUME NEW k \in Opened(c), CloseOffer(k)
        PROVE  listed' \in Seq(Offer) /\ stock' \in [Ids -> Stock] /\ curated' \subseteq Ids
    <3>1. k \in 1 .. Len(listed) /\ listed \in Seq(Offer) /\ UNCHANGED <<stock, curated>>
      BY <2>2 DEF Opened, TypeInv, CloseOffer
    <3>2. PICK o : o = listed[k]
      OBVIOUS
    <3> DEFINE o1 == [o EXCEPT !.open = FALSE]
    <3>3. o \in Offer
      BY <3>1, <3>2
    <3>4. o1 \in Offer
      BY <3>3 DEF Offer
    <3>5. listed' = [listed EXCEPT ![k] = o1]
      BY <2>2, <3>2 DEF CloseOffer
    <3> HIDE DEF o1
    <3> QED BY <3>1, <3>4, <3>5 DEF TypeInv
  <2>3. CASE Restock(c)
    <3>1. UNCHANGED <<listed, curated>>
      BY <2>3 DEF Restock
    <3>2. PICK s : s = stock[c]
      OBVIOUS
    <3>3. s \in Stock
      BY <3>2 DEF TypeInv
    <3>4. ASSUME NEW n \in {0, 2}, stock' = [stock EXCEPT ![c].total = n]
          PROVE  stock' \in [Ids -> Stock]
      <4>1. [s EXCEPT !.total = n] \in Stock
        BY <3>3 DEF Stock
      <4> QED BY <3>2, <3>4, <4>1 DEF TypeInv
    <3>5. ASSUME NEW n \in 0 .. stock[c].total, NEW h \in 0 .. n,
                 stock' = [stock EXCEPT ![c].tokens = n, ![c].holders = h]
          PROVE  stock' \in [Ids -> Stock]
      <4>1. n \in Nat /\ h \in Nat
        BY <3>2, <3>3 DEF Stock
      <4> DEFINE s1 == [s EXCEPT !.tokens = n]
                 s2 == [s1 EXCEPT !.holders = h]
      <4>2. s2 \in Stock
        BY <3>3, <4>1 DEF Stock
      <4>3. stock' = [stock EXCEPT ![c] = s2]
        BY <3>2, <3>5 DEF TypeInv
      <4> HIDE DEF s2
      <4> QED BY <4>2, <4>3 DEF TypeInv
    <3> QED BY <2>3, <3>1, <3>4, <3>5 DEF Restock, TypeInv
  <2>4. CASE Curate(c)
    BY <2>4 DEF Curate, TypeInv
  <2> QED BY <2>1, <2>2, <2>3, <2>4 DEF Offers
<1>4. TypeInv'
  BY <1>1, <1>2, <1>3 DEF TypeInv
<1>5. \A r \in Requests : WordAside(r) /\ PageAside(r) /\ CountAside(r)
  BY <1>1 DEF WordAside, PageAside, CountAside
<1>6. RowsStay /\ WordsStay
  BY <1>1 DEF RowsStay, WordsStay
<1>7. JobInv'
  BY <1>1, RowFacts, JobFrame
<1> QED BY <1>1, <1>4, <1>5, <1>6, <1>7, WordFrame, PageFrame, ChangeFrame

-----------------------------------------------------------------------------
(* The theorems.                                                           *)

IndInv == CollectionsInv /\ ElsewhereInv

LEMMA InitIsInvariant == CollectionsInit => IndInv
<1> SUFFICES ASSUME CollectionsInit PROVE IndInv
  OBVIOUS
<1>1. /\ \A r \in Requests : request[r] = Idle
      /\ rows = <<>> /\ Len(rows) = 0 /\ \A w \in Workers : jobs[w] = NoJob
      /\ \A c \in Ids : counted[c] = None /\ said[c] = NothingSaid
  BY DEF CollectionsInit, Init, NothingSaid
<1>2. <<>> \in Seq(CollectionRows) /\ <<>> \in Seq(Offer)
  OBVIOUS
<1>3. /\ NoJob \in [id : Ids \cup {None}, key : Nat, total : Nat]
      /\ [total |-> 2, tokens |-> 0, holders |-> 0] \in Stock
      /\ NothingSaid \in Words
  BY DEF NoJob, Stock, Words, NothingSaid, MayAllow
<1>4. 0 \in 0 .. MaxStarted /\ 0 \in 0 .. MaxFailures /\ 0 \in 0 .. MaxChanges
  BY RestInputs, CollectionsInputs
<1>5. TypeInv
  <2>1. request \in [Requests -> Asked]
    BY IdleTask DEF CollectionsInit, Init
  <2>2. said \in [Ids -> Words] /\ stock \in [Ids -> Stock]
    BY <1>3 DEF CollectionsInit, NothingSaid
  <2>3. jobs \in [Workers -> [id : Ids \cup {None}, key : Nat, total : Nat]]
    BY <1>3 DEF CollectionsInit
  <2> QED BY <1>2, <1>4, <2>1, <2>2, <2>3 DEF CollectionsInit, Init, TypeInv
<1>6. JobInv /\ WordInv
  BY <1>1, IdleTask DEF JobInv, WordInv, At
<1>7. PageInv
  <2>1. ~Reading
    BY <1>1, IdleTask DEF Reading
  <2> QED BY <1>1, <2>1, IdleTask DEF CollectionsInit, PageInv, PagesTellTheirTime
<1>8. CountInv
  BY <1>1, IdleTask, RestInputs DEF CountInv
<1>9. ElsewhereInv
  BY DEF CollectionsInit, Init, ElsewhereInv
<1> QED BY <1>5, <1>6, <1>7, <1>8, <1>9 DEF IndInv, CollectionsInv

LEMMA NextKeepsInvariant ==
  IndInv /\ [CollectionsNext]_<<vars, told, seen, watched>> => IndInv'
<1> SUFFICES ASSUME IndInv, [CollectionsNext]_<<vars, told, seen, watched>> PROVE IndInv'
  OBVIOUS
<1> USE DEF IndInv
<1>1. ASSUME CollectionsNext PROVE CollectionsInv'
  <2>1. Watch
    BY <1>1 DEF CollectionsNext
  <2>2. ASSUME NEW r \in Requests, FailRequest(r) PROVE CollectionsInv'
    <3>1. failures' \in 0 .. MaxFailures
      BY <2>2, RestInputs DEF FailRequest, CollectionsInv, TypeInv
    <3> QED BY <2>1, <2>2, <3>1, ThrowKeeps DEF FailRequest
  <2>3. ASSUME NEW r \in Requests, Page(r), UNCHANGED failures PROVE CollectionsInv'
    BY <2>1, <2>3, PageStartKeeps, ReadOffersKeeps, ReadCollectionsKeeps DEF Page
  <2>4. ASSUME NEW c \in Ids, Collect(c), UNCHANGED failures PROVE CollectionsInv'
    BY <2>1, <2>4, FindCollectionKeeps, SaveCollectionKeeps DEF Collect
  <2>5. ASSUME NEW c \in Ids, Offers(c) \/ Restock(c) \/ Curate(c), UNCHANGED failures
        PROVE  CollectionsInv'
    BY <2>1, <2>5, ChangeKeeps
  <2>6. ASSUME NEW r \in Requests, NEW c \in Ids, Admin(r, c), UNCHANGED failures PROVE CollectionsInv'
    BY <2>1, <2>6, AdminStartKeeps, SetColumnKeeps DEF Admin
  <2>7. ASSUME NEW r \in Requests, NEW c \in Ids, Toggle(r, c), UNCHANGED failures PROVE CollectionsInv'
    BY <2>1, <2>7, ToggleKeeps DEF Toggle
  <2>8. ASSUME NEW r \in Requests, NEW c \in Ids, Count(r, c), UNCHANGED failures PROVE CollectionsInv'
    <3>1. CASE RefuseCount(r)
      <4>1. failures' \in 0 .. MaxFailures
        BY <2>8 DEF CollectionsInv, TypeInv
      <4> QED BY <2>1, <3>1, <4>1, ThrowKeeps DEF RefuseCount
    <3>2. CASE \E awaited \in BOOLEAN : UpdateTokens(r, c, awaited)
      BY <2>1, <2>8, <3>2, CountStartKeeps
    <3>3. CASE AskTotal(r) \/ CountTokens(r) \/ CountHolders(r) \/ GetPriceStats(r)
      BY <2>1, <2>8, <3>3, CountStepsKeep
    <3>4. CASE SaveCount(r)
      BY <2>1, <2>8, <3>4, SaveCountKeeps
    <3> QED BY <2>8, <3>1, <3>2, <3>3, <3>4 DEF Count
  <2> QED BY <1>1, <2>2, <2>3, <2>4, <2>5, <2>6, <2>7, <2>8 DEF CollectionsNext
<1>2. CASE CollectionsNext
  <2>1. UNCHANGED Elsewhere
    BY <1>2 DEF CollectionsNext, Elsewhere
  <2> QED BY <1>1, <1>2, <2>1, ElsewhereFrame
<1>3. CASE UNCHANGED <<vars, told, seen, watched>>
  <2>1. /\ UNCHANGED <<request, rows, jobs, listed, stock, curated, page, said, changed, counted, watched>>
        /\ UNCHANGED <<started, failures>> /\ UNCHANGED Elsewhere
    BY <1>3 DEF vars, told, seen, Elsewhere
  <2>2. TypeInv' /\ JobInv'
    BY <2>1 DEF CollectionsInv, TypeInv, JobInv
  <2>3. RowsStay /\ WordsStay /\ CountsStay /\ \A r \in Requests : WordAside(r) /\ CountAside(r)
    BY <2>1 DEF RowsStay, WordsStay, CountsStay, WordAside, CountAside
  <2>4. WordInv' /\ CountInv'
    BY <2>1, <2>3, WordFrame, CountFrame DEF CollectionsInv
  <2>5. PageInv'
    BY <2>1 DEF CollectionsInv, PageInv, Reading, Enabled, Active, Offered, Opened, At, Read, PagesTellTheirTime
  <2> QED BY <2>1, <2>2, <2>4, <2>5, ElsewhereFrame DEF CollectionsInv
<1> QED BY <1>2, <1>3

LEMMA InvariantHolds == CollectionsSpec => []IndInv
<1>1. CollectionsInit => IndInv
  BY InitIsInvariant
<1>2. IndInv /\ [CollectionsNext]_<<vars, told, seen, watched>> => IndInv'
  BY NextKeepsInvariant
<1> QED BY <1>1, <1>2, PTL DEF CollectionsSpec

\* Every variable keeps its type: no job points past the rows, and no request of a
\* collection touches currencies, banners or the order.
THEOREM CollectionsTypeCorrect == CollectionsSpec => []TypeOK
<1>1. IndInv => TypeOK
  <2> SUFFICES ASSUME IndInv PROVE TypeOK
    OBVIOUS
  <2> USE DEF IndInv, CollectionsInv
  <2>1. \A r \in Requests : DOMAIN request[r] = DOMAIN Idle /\ request[r].no \in 0 .. MaxStarted
    BY DEF TypeInv, Asked, Idle
  <2>2. RequestsTypeOK
    BY <2>1 DEF ElsewhereInv, TypeInv, RequestsTypeOK
  <2>3. \A row \in CollectionRows : DOMAIN row = DOMAIN New(NoJob) /\ row.id \in Ids
                                    /\ row.allowed \in Texts \cup {<<>>}
    BY DEF CollectionRows, New, MayAllow
  <2>4. jobs \in [Workers -> [id : Ids \cup {None}, key : 0 .. Len(rows), total : Nat]]
    <3>1. ASSUME NEW w \in Workers PROVE jobs[w].key \in 0 .. Len(rows)
      BY RowFacts DEF TypeInv, JobInv, NoJob
    <3> QED BY <3>1 DEF TypeInv
  <2> QED BY <2>2, <2>3, <2>4, RowFacts DEF TypeInv, TypeOK, Offer, Stock
<1> QED BY <1>1, InvariantHolds, PTL

\* What may be allowed, once it has been looked at.
LEMMA AllowedItems ==
  ASSUME NEW text \in MayAllow, CheckoutTokens(text), NEW i \in 1 .. Len(text)
  PROVE  /\ Tokens(text[i]) \subseteq 1 .. MaxToken
         /\ Len(text[i]) > 1 => Tokens(text[i]) # {}
<1>1. PICK item : item = text[i]
  OBVIOUS
<1>2. item \in Seq(Nat \cup {None}) \ {<<>>} /\ MaxToken \in Nat /\ None \notin Nat
  BY <1>1, CollectionsInputs, RestInputs DEF MayAllow
<1>3. Len(item) \in Nat \ {0} /\ item[1] \in Nat \cup {None}
  BY <1>2
<1>4. CASE Len(item) > 1
  <2>1. ~BadRange(item) /\ item[2] \in Nat \cup {None}
    BY <1>1, <1>2, <1>3, <1>4 DEF CheckoutTokens
  <2>2. item[1] \in 1 .. MaxToken /\ item[2] \in 1 .. MaxToken /\ item[1] <= item[2]
    BY <1>2, <1>3, <2>1 DEF BadRange, OutOfRange
  <2>3. Tokens(item) = item[1] .. item[2]
    BY <1>4 DEF Tokens
  <2> QED BY <1>1, <1>2, <2>2, <2>3
<1>5. CASE ~(Len(item) > 1)
  <2>1. ~OutOfRange(item[1])
    BY <1>1, <1>5 DEF CheckoutTokens
  <2> QED BY <1>1, <1>2, <1>3, <1>5, <2>1 DEF Tokens, OutOfRange
<1> QED BY <1>4, <1>5

\* Of every collection of one row, the row keeps what the admin has said last, however
\* requests, jobs and counts overlap, and what it allows are tokens there may be.
THEOREM AdminsWordIsKept == CollectionsSpec => []AdminsWordStays
<1>1. IndInv => AdminsWordStays
  <2> SUFFICES ASSUME IndInv, NEW k \in 1 .. Len(rows)
               PROVE  /\ RowsOf(rows[k].id) = {k} =>
                           \A column \in {"status", "allowed", "metadata"} :
                             rows[k][column] = said[rows[k].id][column]
                      /\ \A i \in 1 .. Len(rows[k].allowed) :
                           /\ Tokens(rows[k].allowed[i]) \subseteq 1 .. MaxToken
                           /\ Len(rows[k].allowed[i]) > 1 => Tokens(rows[k].allowed[i]) # {}
    BY DEF AdminsWordStays
  <2> USE DEF IndInv, CollectionsInv
  <2>1. /\ CheckoutTokens(rows[k].allowed)
        /\ RowsOf(rows[k].id) = {k} =>
             /\ rows[k].status = said[rows[k].id].status
             /\ rows[k].allowed = said[rows[k].id].allowed
             /\ rows[k].metadata = said[rows[k].id].metadata
    BY DEF WordInv
  <2>2. rows[k].allowed \in MayAllow
    BY RowFacts DEF CollectionRows
  <2> QED BY <2>1, <2>2, AllowedItems
<1> QED BY <1>1, InvariantHolds, PTL

\* A page of settings shows what was so all the while, and nothing that never was,
\* over any number of collections that are toggled, listed and curated as it is read.
THEOREM PagesAreOfTheirTime == CollectionsSpec => []PagesTellTheirTime
<1>1. IndInv => PagesTellTheirTime
  BY DEF IndInv, CollectionsInv, PageInv
<1> QED BY <1>1, InvariantHolds, PTL

\* However many counts of a collection overlap, with jobs and with changes of the
\* tables, the row tells what there is when the last count that was saved has begun
\* after the last change.
THEOREM CountsTellTheTruth == CollectionsSpec => []CountsAreTrue
<1>1. IndInv => CountsAreTrue
  BY DEF IndInv, CollectionsInv, CountInv, CountsAreTrue, OnMarket, Spanned
<1> QED BY <1>1, InvariantHolds, PTL
=============================================================================
