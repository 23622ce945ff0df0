----------------------------- MODULE RestProofs -----------------------------
(***************************************************************************)
(* Theorems about RestApp for all its constants: however many requests are *)
(* served at the same time, over however many currencies and banners.      *)
(***************************************************************************)
EXTENDS RestApp, SequenceTheorems, TLAPS

-----------------------------------------------------------------------------
(* The inductive invariants: one for each of the three things a request    *)
(* may be about, which only its own steps disturb.                         *)

MoneySteps == {"read_settings", "write_settings", "call"}
FileSteps == {"read_again", "remove", "put", "link", "delete_row"}
OrderSteps == {"submit", "ask_owner", "find_offer", "save_offer"}

FeeLists == [Currencies -> Fees \cup {None}]
Statuses == {"Opened", "Canceled", "Completed"}
Tasks ==
  [op : {"none", "addCurrency", "delCurrency", "create", "edit", "delete", "checkApproved"},
   at : {"idle"} \cup MoneySteps \cup FileSteps \cup OrderSteps,
   on : Currencies \cup Banners \cup {None, "order"}, no : Nat,
   with : Fees \cup {None} \cup Statuses, read : FeeLists \cup Nat \cup {None, NoFile}]

Events ==
  [name : {"TokenIsUpForSale", "TokenPriceChanged", "TokenIsApproved", "TokenRevoke", "TokenIsPurchased"},
   price : Prices, left : {0, 1}]
Rows == [price : Prices, amount : {0, 1}, status : Statuses]

TypeInv ==
  /\ request \in [Requests -> Tasks] /\ started \in Nat
  /\ settings \in FeeLists /\ accepted \in FeeLists
  /\ banners \in [Banners -> Nat \cup {None, NoFile}]
  /\ chain \in Seq(Events) /\ offers \in Seq(Rows)
  /\ worker \in [done : Nat, key : Nat \cup {None}]

\* The fee that the settings show of the currency once the request has written them.
FeeOf(r) == IF request[r].op = "delCurrency" THEN None ELSE request[r].with

\* Of two requests about one currency, and of two that have both read the list, the
\* currencies are suspects.  Of a currency that is not, whatever list a request has
\* read is still right, and only a call that is yet to come makes a difference.
MoneyInv ==
  /\ \A r \in Requests : request[r].at \in MoneySteps =>
       /\ request[r].op \in {"addCurrency", "delCurrency"} /\ On(r) \in Currencies
       /\ request[r].with \in Fees \cup {None}
       /\ At(r, "write_settings") => Read(r) \in FeeLists
  /\ \A q, r \in Requests :
       /\ q # r /\ {request[q].at, request[r].at} \subseteq MoneySteps /\ On(q) = On(r) =>
            On(r) \in suspects
       /\ q # r /\ At(q, "write_settings") /\ At(r, "write_settings") => On(r) \in suspects
  /\ \A c \in Currencies \ suspects :
       /\ \A r \in Requests : At(r, "write_settings") => Read(r)[c] = settings[c]
       /\ \A r \in Requests : At(r, "call") /\ On(r) = c => settings[c] = FeeOf(r)
       /\ (\A r \in Requests : ~(At(r, "call") /\ On(r) = c)) => settings[c] = accepted[c]

\* The request works on banners, and its number names the file it may upload.
Filing(r) == request[r].at \in FileSteps

\* A number names one file, of one banner.  It is in a row, or known to a request,
\* only once its own request has put the file into the bucket and named it.
FileTaskOK(r) ==
  /\ On(r) \in Banners /\ request[r].no <= started
  /\ Read(r) \in Nat \cup {None, NoFile} /\ (Read(r) \in Nat => Read(r) <= started)
  /\ At(r, "link") => request[r].no \in bucket
  /\ \A b \in Banners :
       /\ banners[b] # request[r].no
       /\ Read(r) \in Nat /\ banners[b] = Read(r) => b = On(r)
  /\ \A q \in Requests : Filing(q) =>
       /\ Read(q) # request[r].no
       /\ q # r => request[q].no # request[r].no

FileNamesInv ==
  /\ bucket \subseteq Nat
  /\ \A b \in Banners : banners[b] \in Nat => banners[b] <= started
  /\ \A a, b \in Banners : banners[a] \in Nat /\ banners[a] = banners[b] => a = b
  /\ \A r \in Requests : Filing(r) => FileTaskOK(r)

FilesInv == FileNamesInv /\ BannersHaveTheirFiles

\* A row tells an event that the escrow is not past, and a check that is no suspect
\* has the last one in hand, and the status that goes with it.
Told(j) == offers[1] = Row(chain[j], StatusOf(chain[j]))
OrderInv ==
  /\ \A i \in 1 .. Len(chain) :
       /\ i = 1 => chain[i].left = 1
       /\ chain[i].name = "TokenIsApproved" =>
            i > 1 /\ chain[i].left = 1 /\ chain[i - 1].left = 1 /\ chain[i - 1].price = chain[i].price
  /\ worker.done <= Len(chain) /\ (worker.key # None => worker.done < Len(chain))
  /\ worker.key \in Nat => worker.key <= Len(offers)
  /\ worker.done > 0 => offers # <<>>
  /\ \A r \in Requests :
       /\ r \in Checking => Read(r) \in 1 .. Len(chain)
       /\ request[r].at \in {"find_offer", "save_offer"} => request[r].with \in Statuses
       /\ At(r, "save_offer") => request[r].no <= Len(offers)
  /\ "order" \notin suspects =>
       /\ Len(offers) <= 1
       /\ offers # <<>> => \E j \in 1 .. Len(chain) : j >= worker.done /\ Told(j)
       /\ \A r \in Checking :
            /\ Read(r) = Len(chain)
            /\ Last.name \in {"TokenIsApproved", "TokenRevoke"}
            /\ IF Last.name = "TokenRevoke" THEN Last.left = 0 ELSE token = "approved"
            /\ ~At(r, "ask_owner") => request[r].with = StatusOf(Last)

-----------------------------------------------------------------------------
(* What the steps leave in the requests.                                   *)

LEMMA StartTask ==
  ASSUME TypeInv, NEW r \in Requests, NEW op, NEW step, NEW on, NEW with, NEW read,
         [op |-> op, at |-> step, on |-> on, no |-> started + 1, with |-> with, read |-> read] \in Tasks,
         Start(r, op, step, on, with, read)
  PROVE  /\ request' \in [Requests -> Tasks] /\ started' \in Nat
         /\ request[r] = Idle /\ started' = started + 1
         /\ request'[r] = [op |-> op, at |-> step, on |-> on, no |-> started + 1,
                           with |-> with, read |-> read]
         /\ \A q \in Requests \ {r} : request'[q] = request[q]
  BY DEF TypeInv, Start

LEMMA GotoTask ==
  ASSUME TypeInv, NEW r \in Requests, NEW step, NEW read,
         step \in MoneySteps \cup FileSteps \cup OrderSteps,
         read \in FeeLists \cup Nat \cup {None, NoFile},
         Goto(r, step, read)
  PROVE  /\ request' \in [Requests -> Tasks]
         /\ request'[r].at = step /\ request'[r].read = read
         /\ request'[r].op = request[r].op /\ request'[r].on = request[r].on
         /\ request'[r].no = request[r].no /\ request'[r].with = request[r].with
         /\ \A q \in Requests \ {r} : request'[q] = request[q]
<1> DEFINE t == request[r]
           t1 == [t EXCEPT !.at = step]
           t2 == [t1 EXCEPT !.read = read]
<1>1. t \in Tasks
  BY DEF TypeInv
<1>2. /\ t2 \in Tasks /\ t2.at = step /\ t2.read = read
      /\ t2.op = t.op /\ t2.on = t.on /\ t2.no = t.no /\ t2.with = t.with
  BY <1>1 DEF Tasks
<1>3. request' = [request EXCEPT ![r] = t2]
  BY DEF Goto, TypeInv
<1> HIDE DEF t2
<1> QED BY <1>2, <1>3 DEF TypeInv

LEMMA EndTask ==
  ASSUME TypeInv, NEW r \in Requests, End(r)
  PROVE  /\ request' \in [Requests -> Tasks] /\ request'[r] = Idle
         /\ \A q \in Requests \ {r} : request'[q] = request[q]
<1>1. Idle \in Tasks
  BY DEF Idle, Tasks
<1> QED BY <1>1 DEF End, TypeInv

LEMMA IdleTask ==
  /\ Idle.at = "idle" /\ Idle.on = None
  /\ "idle" \notin MoneySteps \cup FileSteps \cup OrderSteps
  BY DEF Idle, MoneySteps, FileSteps, OrderSteps

-----------------------------------------------------------------------------
(* A step of a request about something else.                               *)

\* r is not about money, before and after, unless it ends and says so.
MoneyAside(r) ==
  \/ request'[r] = request[r]
  \/ /\ request'[r].at \notin MoneySteps
     /\ At(r, "call") => On(r) \in suspects'

LEMMA MoneyFrame ==
  ASSUME MoneyInv, UNCHANGED money, suspects \subseteq suspects', \A r \in Requests : MoneyAside(r)
  PROVE  MoneyInv'
<1>1. settings' = settings /\ accepted' = accepted
  BY DEF money
<1>2. \A r \in Requests : request'[r].at \in MoneySteps => request'[r] = request[r]
  BY DEF MoneyAside
<1>3. "call" \in MoneySteps /\ "write_settings" \in MoneySteps
  BY DEF MoneySteps
<1>4. ASSUME NEW r \in Requests, request'[r].at \in MoneySteps
      PROVE  /\ request'[r].op \in {"addCurrency", "delCurrency"} /\ On(r)' \in Currencies
             /\ request'[r].with \in Fees \cup {None}
             /\ At(r, "write_settings")' => Read(r)' \in FeeLists
  BY <1>2, <1>4 DEF MoneyInv, At, On, Read
<1>5. ASSUME NEW q \in Requests, NEW r \in Requests
      PROVE  /\ q # r /\ {request'[q].at, request'[r].at} \subseteq MoneySteps /\ On(q)' = On(r)' =>
                  On(r)' \in suspects'
             /\ q # r /\ At(q, "write_settings")' /\ At(r, "write_settings")' => On(r)' \in suspects'
  BY <1>2, <1>3 DEF MoneyInv, At, On
<1>6. ASSUME NEW c \in Currencies \ suspects'
      PROVE  /\ \A r \in Requests : At(r, "write_settings")' => Read(r)'[c] = settings[c]
             /\ \A r \in Requests : At(r, "call")' /\ On(r)' = c => settings[c] = FeeOf(r)'
             /\ (\A r \in Requests : ~(At(r, "call")' /\ On(r)' = c)) => settings[c] = accepted[c]
  <2>1. c \in Currencies \ suspects
    OBVIOUS
  <2>2. ASSUME NEW r \in Requests, At(r, "write_settings")' PROVE Read(r)'[c] = settings[c]
    <3>1. request'[r] = request[r]
      BY <1>2, <1>3, <2>2 DEF At
    <3> QED BY <2>1, <2>2, <3>1 DEF MoneyInv, At, Read
  <2>3. ASSUME NEW r \in Requests, At(r, "call")', On(r)' = c PROVE settings[c] = FeeOf(r)'
    <3>1. request'[r] = request[r]
      BY <1>2, <1>3, <2>3 DEF At
    <3> QED BY <2>1, <2>3, <3>1 DEF MoneyInv, At, On, FeeOf
  <2>4. ASSUME \A r \in Requests : ~(At(r, "call")' /\ On(r)' = c) PROVE settings[c] = accepted[c]
    <3>1. ASSUME NEW r \in Requests, At(r, "call"), On(r) = c PROVE FALSE
      BY <2>4, <3>1 DEF MoneyAside, At, On
    <3> QED BY <2>1, <3>1 DEF MoneyInv
  <2> QED BY <2>2, <2>3, <2>4
<1> QED BY <1>1, <1>4, <1>5, <1>6 DEF MoneyInv

\* The same for the files, ...
FilesAside(r) ==
  \/ request'[r] = request[r]
  \/ /\ request'[r].at \notin FileSteps
     /\ request[r].at \in {"put", "link", "delete_row"} => On(r) \in suspects'

LEMMA FilesFrame ==
  ASSUME TypeInv, FilesInv, UNCHANGED files, suspects \subseteq suspects', started' \in Nat,
         started <= started', \A r \in Requests : FilesAside(r)
  PROVE  FilesInv'
<1>1. banners' = banners /\ bucket' = bucket /\ started \in Nat
  BY DEF files, TypeInv
<1>2. \A r \in Requests : Filing(r)' => request'[r] = request[r] /\ Filing(r)
  BY DEF FilesAside, Filing
<1>3. ASSUME NEW r \in Requests, Filing(r)'
      PROVE  FileTaskOK(r)'
  <2>1. request'[r] = request[r] /\ Filing(r) /\ request[r].no \in Nat
    BY <1>2, <1>3 DEF TypeInv, Tasks
  <2>2. \A q \in Requests : Filing(q)' => request'[q] = request[q] /\ Filing(q)
    BY <1>2
  <2> QED BY <1>1, <2>1, <2>2 DEF FilesInv, FileNamesInv, FileTaskOK, At, On, Read
<1>4. BannersHaveTheirFiles'
  <2>1. ASSUME NEW b \in Banners, b \notin suspects', banners[b] \in Nat, banners[b] \notin bucket
        PROVE  \E r \in Requests : On(r)' = b /\ Read(r)' = banners[b]
                                   /\ request'[r].at \in {"put", "link", "delete_row"}
    <3>1. b \in Banners \ suspects /\ banners[b] \in Nat \ bucket
      BY <2>1
    <3>2. PICK r \in Requests : On(r) = b /\ Read(r) = banners[b]
                                /\ request[r].at \in {"put", "link", "delete_row"}
      BY <3>1 DEF FilesInv, BannersHaveTheirFiles
    <3>3. request'[r] = request[r]
      BY <2>1, <3>2 DEF FilesAside
    <3> QED BY <3>2, <3>3 DEF On, Read
  <2> QED BY <1>1, <2>1 DEF BannersHaveTheirFiles
<1>5. \A b \in Banners : banners[b] \in Nat => banners[b] <= started'
  BY <1>1 DEF FilesInv, FileNamesInv
<1> QED BY <1>1, <1>3, <1>4, <1>5 DEF FilesInv, FileNamesInv

\* ... and for the order.
OrderAside(r) == request'[r] = request[r] \/ request'[r].at \notin OrderSteps \ {"submit"}

LEMMA OrderFrame ==
  ASSUME OrderInv, UNCHANGED market, suspects \subseteq suspects', \A r \in Requests : OrderAside(r)
  PROVE  OrderInv'
<1>1. chain' = chain /\ token' = token /\ offers' = offers /\ worker' = worker
  BY DEF market
<1>2. \A r \in Requests : request'[r].at \in {"ask_owner", "find_offer", "save_offer"} =>
                            request'[r] = request[r]
  BY DEF OrderAside, OrderSteps
<1>3. ASSUME NEW r \in Requests
      PROVE  /\ r \in Checking' => Read(r)' \in 1 .. Len(chain)
             /\ request'[r].at \in {"find_offer", "save_offer"} => request'[r].with \in Statuses
             /\ At(r, "save_offer")' => request'[r].no <= Len(offers)
  BY <1>2 DEF OrderInv, Checking, At, Read
<1>4. \A r \in Checking' : r \in Checking /\ request'[r] = request[r]
  BY <1>2 DEF Checking
<1>5. ASSUME "order" \notin suspects', NEW r \in Checking'
      PROVE  /\ Read(r)' = Len(chain)
             /\ Last.name \in {"TokenIsApproved", "TokenRevoke"}
             /\ IF Last.name = "TokenRevoke" THEN Last.left = 0 ELSE token = "approved"
             /\ ~At(r, "ask_owner")' => request'[r].with = StatusOf(Last)
  <2>1. r \in Checking /\ request'[r] = request[r] /\ "order" \notin suspects
    BY <1>4, <1>5
  <2> QED BY <2>1 DEF OrderInv, At, Read
<1>6. "order" \notin suspects' => /\ Len(offers) <= 1
                                  /\ offers # <<>> => \E j \in 1 .. Len(chain) : j >= worker.done /\ Told(j)
  BY DEF OrderInv
<1> QED BY <1>1, <1>3, <1>5, <1>6 DEF OrderInv, Told, Last

\* Only r moves, from one of these steps to another.
Moves(r, steps) ==
  /\ {request[r].at, request'[r].at} \subseteq {"idle"} \cup steps
  /\ \A q \in Requests \ {r} : request'[q] = request[q]

LEMMA StepKinds ==
  /\ "idle" \notin MoneySteps \cup FileSteps \cup OrderSteps
  /\ MoneySteps \cap FileSteps = {} /\ MoneySteps \cap OrderSteps = {} /\ FileSteps \cap OrderSteps = {}
  /\ {"put", "link", "delete_row"} \subseteq FileSteps
  BY DEF MoneySteps, FileSteps, OrderSteps

-----------------------------------------------------------------------------
(* Currencies.                                                             *)

LEMMA StartCurrencyKeeps ==
  ASSUME TypeInv, MoneyInv, NEW r \in Requests, NEW op \in {"addCurrency", "delCurrency"},
         NEW c \in Currencies, NEW fee \in Fees \cup {None}, StartCurrency(r, op, c, fee)
  PROVE  TypeInv' /\ MoneyInv' /\ Moves(r, MoneySteps)
<1> DEFINE t == [op |-> op, at |-> "read_settings", on |-> c, no |-> started + 1,
                 with |-> fee, read |-> None]
<1>1. t \in Tasks
  BY DEF TypeInv, Tasks, MoneySteps
<1>2. /\ request' \in [Requests -> Tasks] /\ started' \in Nat /\ request[r] = Idle
      /\ request'[r] = t /\ \A q \in Requests \ {r} : request'[q] = request[q]
  BY <1>1, StartTask DEF StartCurrency
<1>3. /\ t.op = op /\ t.at = "read_settings" /\ t.on = c /\ t.with = fee
      /\ t.at \notin {"write_settings", "call"} /\ t.at \in MoneySteps
  BY DEF MoneySteps
<1> HIDE DEF t
<1>4. UNCHANGED <<settings, accepted, banners, chain, offers, worker>> /\ suspects \subseteq suspects'
  BY DEF StartCurrency, money, files, market
<1>5. TypeInv'
  BY <1>2, <1>4 DEF TypeInv
<1>6. Moves(r, MoneySteps)
  BY <1>2, <1>3, IdleTask DEF Moves
<1>7. ASSUME NEW q \in Requests, q # r, request[q].at \in MoneySteps, On(q) = c
      PROVE  c \in suspects'
  <2>1. request[q] # Idle
    BY <1>7, IdleTask
  <2>2. q \in Others(r)
    BY <1>7, <2>1 DEF Others
  <2> QED BY <1>7, <2>2 DEF StartCurrency
<1>8. ASSUME NEW p \in Requests
      PROVE  /\ request'[p].at \in MoneySteps =>
                  /\ request'[p].op \in {"addCurrency", "delCurrency"} /\ On(p)' \in Currencies
                  /\ request'[p].with \in Fees \cup {None}
                  /\ At(p, "write_settings")' => Read(p)' \in FeeLists
             /\ \A q \in Requests :
                  /\ q # p /\ {request'[q].at, request'[p].at} \subseteq MoneySteps /\ On(q)' = On(p)' =>
                       On(p)' \in suspects'
                  /\ q # p /\ At(q, "write_settings")' /\ At(p, "write_settings")' => On(p)' \in suspects'
  <2>1. CASE p = r
    BY <1>2, <1>3, <1>7, <2>1 DEF MoneyInv, At, On, Read
  <2>2. CASE p # r
    <3>1. request'[p] = request[p]
      BY <1>2, <2>2
    <3>2. ASSUME NEW q \in Requests, q # p, {request'[q].at, request'[p].at} \subseteq MoneySteps,
                 On(q)' = On(p)'
          PROVE  On(p)' \in suspects'
      <4>1. CASE q = r
        BY <1>2, <1>3, <1>7, <2>2, <3>1, <3>2, <4>1 DEF On
      <4>2. CASE q # r
        BY <1>2, <1>4, <3>1, <3>2, <4>2 DEF MoneyInv, On
      <4> QED BY <4>1, <4>2
    <3>3. ASSUME NEW q \in Requests, q # p, At(q, "write_settings")', At(p, "write_settings")'
          PROVE  On(p)' \in suspects'
      <4>1. q # r
        BY <1>2, <1>3, <3>3 DEF At
      <4> QED BY <1>2, <1>4, <3>1, <3>3, <4>1 DEF MoneyInv, On, At
    <3> QED BY <3>1, <3>2, <3>3 DEF MoneyInv, At, On, Read
  <2> QED BY <2>1, <2>2
<1>9. ASSUME NEW d \in Currencies \ suspects'
      PROVE  /\ \A p \in Requests : At(p, "write_settings")' => Read(p)'[d] = settings[d]
             /\ \A p \in Requests : At(p, "call")' /\ On(p)' = d => settings[d] = FeeOf(p)'
             /\ (\A p \in Requests : ~(At(p, "call")' /\ On(p)' = d)) => settings[d] = accepted[d]
  <2>1. d \in Currencies \ suspects
    BY <1>4
  <2>2. \A p \in Requests : At(p, "write_settings")' \/ At(p, "call")' => request'[p] = request[p]
    BY <1>2, <1>3 DEF At
  <2>3. \A p \in Requests : At(p, "call") => request'[p] = request[p]
    BY <1>2, IdleTask DEF At
  <2> QED BY <2>1, <2>2, <2>3 DEF MoneyInv, At, On, Read, FeeOf
<1> QED BY <1>4, <1>5, <1>6, <1>8, <1>9 DEF MoneyInv

\* What holds of any two requests still does when one of them goes on.
LEMMA GoOn ==
  ASSUME MoneyInv, NEW r \in Requests, request[r].at \in MoneySteps, suspects \subseteq suspects',
         \A q \in Requests \ {r} : request'[q] = request[q],
         request'[r].at \in MoneySteps =>
           /\ request'[r].op = request[r].op /\ request'[r].on = request[r].on
           /\ request'[r].with = request[r].with,
         At(r, "write_settings")' =>
           /\ Read(r)' \in FeeLists
           /\ \A q \in Requests \ {r} : At(q, "write_settings") => {On(q), On(r)} \subseteq suspects'
  PROVE  \A p \in Requests :
           /\ request'[p].at \in MoneySteps =>
                /\ request'[p].op \in {"addCurrency", "delCurrency"} /\ On(p)' \in Currencies
                /\ request'[p].with \in Fees \cup {None}
                /\ At(p, "write_settings")' => Read(p)' \in FeeLists
           /\ \A q \in Requests :
                /\ q # p /\ {request'[q].at, request'[p].at} \subseteq MoneySteps /\ On(q)' = On(p)' =>
                     On(p)' \in suspects'
                /\ q # p /\ At(q, "write_settings")' /\ At(p, "write_settings")' => On(p)' \in suspects'
<1>1. "write_settings" \in MoneySteps
  BY DEF MoneySteps
<1>2. \A p \in Requests : request'[p].at \in MoneySteps =>
        /\ request[p].at \in MoneySteps
        /\ request'[p].op = request[p].op /\ request'[p].on = request[p].on
        /\ request'[p].with = request[p].with
  OBVIOUS
<1>3. ASSUME NEW p \in Requests, request'[p].at \in MoneySteps
      PROVE  /\ request'[p].op \in {"addCurrency", "delCurrency"} /\ On(p)' \in Currencies
             /\ request'[p].with \in Fees \cup {None}
             /\ At(p, "write_settings")' => Read(p)' \in FeeLists
  <2>1. request[p].op \in {"addCurrency", "delCurrency"} /\ On(p) \in Currencies
        /\ request[p].with \in Fees \cup {None}
    BY <1>2, <1>3 DEF MoneyInv
  <2>2. At(p, "write_settings")' => Read(p)' \in FeeLists
    BY DEF MoneyInv, At, Read, MoneySteps
  <2> QED BY <1>2, <1>3, <2>1, <2>2 DEF On
<1>4. ASSUME NEW p \in Requests, NEW q \in Requests, q # p,
             {request'[q].at, request'[p].at} \subseteq MoneySteps, On(q)' = On(p)'
      PROVE  On(p)' \in suspects'
  BY <1>2, <1>4 DEF MoneyInv, On
<1>5. ASSUME NEW p \in Requests, NEW q \in Requests, q # p,
             At(q, "write_settings")', At(p, "write_settings")'
      PROVE  On(p)' \in suspects'
  <2>1. request'[p].on = request[p].on
    BY <1>1, <1>2, <1>5 DEF At
  <2>2. CASE p = r
    <3>1. At(q, "write_settings")
      BY <1>5, <2>2 DEF At
    <3> QED BY <1>5, <2>1, <2>2, <3>1 DEF On
  <2>3. CASE q = r
    <3>1. At(p, "write_settings")
      BY <1>5, <2>3 DEF At
    <3> QED BY <1>5, <2>1, <2>3, <3>1 DEF On
  <2>4. CASE p # r /\ q # r
    BY <1>5, <2>1, <2>4 DEF MoneyInv, On, At
  <2> QED BY <2>2, <2>3, <2>4
<1> QED BY <1>3, <1>4, <1>5

LEMMA ReadCurrenciesKeeps ==
  ASSUME TypeInv, MoneyInv, NEW r \in Requests, ReadCurrencies(r)
  PROVE  TypeInv' /\ MoneyInv' /\ Moves(r, MoneySteps)
<1> DEFINE overlap == {q \in Others(r) : At(q, "write_settings")}
<1>1. /\ At(r, "read_settings") /\ Goto(r, "write_settings", settings) /\ suspects \subseteq suspects'
      /\ UNCHANGED <<settings, accepted, banners, chain, offers, worker, started>>
  BY DEF ReadCurrencies, money, files, market
<1>2. /\ request' \in [Requests -> Tasks]
      /\ request'[r].at = "write_settings" /\ request'[r].read = settings
      /\ request'[r].op = request[r].op /\ request'[r].on = request[r].on
      /\ request'[r].with = request[r].with
      /\ \A q \in Requests \ {r} : request'[q] = request[q]
  BY <1>1, GotoTask DEF TypeInv, MoneySteps
<1>3. TypeInv'
  BY <1>1, <1>2 DEF TypeInv
<1>4. {"read_settings", "write_settings"} \subseteq MoneySteps
  BY DEF MoneySteps
<1>5. Moves(r, MoneySteps)
  BY <1>1, <1>2, <1>4 DEF Moves, At
<1>6. ASSUME NEW q \in Requests \ {r}, At(q, "write_settings") PROVE {On(q), On(r)} \subseteq suspects'
  <2>1. request[q] # Idle
    BY <1>6, IdleTask DEF At
  <2>2. q \in overlap
    BY <1>6, <2>1 DEF Others
  <2> QED BY <2>2 DEF ReadCurrencies
<1>7. \A p \in Requests :
        /\ request'[p].at \in MoneySteps =>
             /\ request'[p].op \in {"addCurrency", "delCurrency"} /\ On(p)' \in Currencies
             /\ request'[p].with \in Fees \cup {None}
             /\ At(p, "write_settings")' => Read(p)' \in FeeLists
        /\ \A q \in Requests :
             /\ q # p /\ {request'[q].at, request'[p].at} \subseteq MoneySteps /\ On(q)' = On(p)' =>
                  On(p)' \in suspects'
             /\ q # p /\ At(q, "write_settings")' /\ At(p, "write_settings")' => On(p)' \in suspects'
  <2>1. request[r].at \in MoneySteps /\ Read(r)' \in FeeLists
    BY <1>1, <1>2, <1>4 DEF At, Read, TypeInv
  <2> QED BY <1>1, <1>2, <1>6, <2>1, GoOn
<1>8. ASSUME NEW c \in Currencies \ suspects'
      PROVE  /\ \A p \in Requests : At(p, "write_settings")' => Read(p)'[c] = settings[c]
             /\ \A p \in Requests : At(p, "call")' /\ On(p)' = c => settings[c] = FeeOf(p)'
             /\ (\A p \in Requests : ~(At(p, "call")' /\ On(p)' = c)) => settings[c] = accepted[c]
  <2>1. c \in Currencies \ suspects /\ ~At(r, "call") /\ ~At(r, "call")' /\ Read(r)' = settings
    BY <1>1, <1>2 DEF At, Read
  <2>2. \A p \in Requests \ {r} : request'[p] = request[p]
    BY <1>2
  <2>3. ASSUME NEW p \in Requests, At(p, "write_settings")' PROVE Read(p)'[c] = settings[c]
    BY <2>1, <2>2, <2>3 DEF MoneyInv, At, Read
  <2>4. ASSUME NEW p \in Requests, At(p, "call")', On(p)' = c PROVE settings[c] = FeeOf(p)'
    <3>1. request'[p] = request[p]
      BY <2>1, <2>2, <2>4
    <3> QED BY <2>1, <2>4, <3>1 DEF MoneyInv, At, On, FeeOf
  <2>5. ASSUME \A p \in Requests : ~(At(p, "call")' /\ On(p)' = c) PROVE settings[c] = accepted[c]
    BY <2>1, <2>2, <2>5 DEF MoneyInv, At, On
  <2> QED BY <2>3, <2>4, <2>5
<1> QED BY <1>1, <1>3, <1>5, <1>7, <1>8 DEF MoneyInv

\* The list that is written is right but for the request's own currency.
LEMMA WriteCurrenciesKeeps ==
  ASSUME TypeInv, MoneyInv, NEW r \in Requests, WriteCurrencies(r)
  PROVE  TypeInv' /\ MoneyInv' /\ Moves(r, MoneySteps)
<1> PICK o : o = On(r)
  OBVIOUS
<1>1. /\ At(r, "write_settings") /\ Goto(r, "call", None)
      /\ UNCHANGED <<accepted, banners, chain, offers, worker, started, suspects>>
      /\ settings' = Changed(Read(r), request[r].op, o, request[r].with)
  BY DEF WriteCurrencies, files, market
<1>2. /\ request' \in [Requests -> Tasks]
      /\ request'[r].at = "call"
      /\ request'[r].op = request[r].op /\ request'[r].on = request[r].on
      /\ request'[r].with = request[r].with
      /\ \A q \in Requests \ {r} : request'[q] = request[q]
  BY <1>1, GotoTask DEF TypeInv, MoneySteps
<1>3. {"call", "write_settings"} \subseteq MoneySteps
  BY DEF MoneySteps
<1>4. /\ request[r].op \in {"addCurrency", "delCurrency"} /\ o \in Currencies
      /\ request[r].with \in Fees \cup {None} /\ Read(r) \in FeeLists
  BY <1>1, <1>3 DEF MoneyInv, At
<1>5. /\ settings' \in FeeLists /\ settings'[o] = FeeOf(r)
      /\ \A c \in Currencies \ {o} : settings'[c] = Read(r)[c]
  BY <1>1, <1>4 DEF Changed, FeeLists, FeeOf
<1>6. TypeInv'
  BY <1>1, <1>2, <1>5 DEF TypeInv
<1>7. Moves(r, MoneySteps)
  BY <1>1, <1>2, <1>3 DEF Moves, At
<1>8. \A p \in Requests :
        /\ request'[p].at \in MoneySteps =>
             /\ request'[p].op \in {"addCurrency", "delCurrency"} /\ On(p)' \in Currencies
             /\ request'[p].with \in Fees \cup {None}
             /\ At(p, "write_settings")' => Read(p)' \in FeeLists
        /\ \A q \in Requests :
             /\ q # p /\ {request'[q].at, request'[p].at} \subseteq MoneySteps /\ On(q)' = On(p)' =>
                  On(p)' \in suspects'
             /\ q # p /\ At(q, "write_settings")' /\ At(p, "write_settings")' => On(p)' \in suspects'
  <2>1. request[r].at \in MoneySteps /\ ~At(r, "write_settings")'
    BY <1>1, <1>2, <1>3 DEF At
  <2> QED BY <1>1, <1>2, <2>1, GoOn
<1>9. ASSUME NEW c \in Currencies \ suspects'
      PROVE  /\ \A p \in Requests : At(p, "write_settings")' => Read(p)'[c] = settings'[c]
             /\ \A p \in Requests : At(p, "call")' /\ On(p)' = c => settings'[c] = FeeOf(p)'
             /\ (\A p \in Requests : ~(At(p, "call")' /\ On(p)' = c)) => settings'[c] = accepted[c]
  <2>1. c \in Currencies \ suspects /\ Read(r)[c] = settings[c]
    BY <1>1 DEF MoneyInv
  <2>2. c # o => settings'[c] = settings[c]
    BY <1>5, <2>1
  <2>3. ASSUME NEW p \in Requests, At(p, "write_settings")' PROVE Read(p)'[c] = settings'[c]
    <3>1. p # r /\ request'[p] = request[p] /\ At(p, "write_settings")
      BY <1>2, <2>3 DEF At
    <3>2. o \in suspects
      BY <1>1, <3>1 DEF MoneyInv
    <3> QED BY <2>1, <2>2, <3>1, <3>2 DEF MoneyInv, Read
  <2>4. ASSUME NEW p \in Requests, At(p, "call")', On(p)' = c PROVE settings'[c] = FeeOf(p)'
    <3>1. CASE p = r
      <4>1. c = o /\ FeeOf(p)' = FeeOf(r)
        BY <1>2, <2>4, <3>1 DEF On, FeeOf
      <4> QED BY <1>5, <4>1
    <3>2. CASE p # r
      <4>1. request'[p] = request[p] /\ At(p, "call") /\ On(p) = c
        BY <1>2, <2>4, <3>2 DEF At, On
      <4>2. c # o
        BY <1>1, <1>3, <2>1, <3>2, <4>1 DEF MoneyInv, At
      <4>3. settings[c] = FeeOf(p) /\ FeeOf(p)' = FeeOf(p)
        BY <2>1, <4>1 DEF MoneyInv, FeeOf
      <4> QED BY <2>2, <4>2, <4>3
    <3> QED BY <3>1, <3>2
  <2>5. ASSUME \A p \in Requests : ~(At(p, "call")' /\ On(p)' = c) PROVE settings'[c] = accepted[c]
    <3>1. c # o
      BY <1>2, <2>5 DEF At, On
    <3>2. \A p \in Requests : ~(At(p, "call") /\ On(p) = c)
      BY <1>1, <1>2, <2>5 DEF At, On
    <3> QED BY <2>1, <2>2, <3>1, <3>2 DEF MoneyInv
  <2> QED BY <2>3, <2>4, <2>5
<1> QED BY <1>1, <1>6, <1>7, <1>8, <1>9 DEF MoneyInv

\* A call that is taken brings the contract to what the settings show by now.
LEMMA CurrencyCallKeeps ==
  ASSUME TypeInv, MoneyInv, NEW r \in Requests, CurrencyCall(r)
  PROVE  TypeInv' /\ MoneyInv' /\ Moves(r, MoneySteps)
<1> PICK o : o = On(r)
  OBVIOUS
<1>1. /\ At(r, "call") /\ End(r) /\ suspects \subseteq suspects' /\ (Refused(r) => o \in suspects')
      /\ UNCHANGED <<settings, banners, chain, offers, worker, started>>
  BY DEF CurrencyCall, files, market
<1>2. /\ request' \in [Requests -> Tasks] /\ request'[r] = Idle
      /\ \A q \in Requests \ {r} : request'[q] = request[q]
  BY <1>1, EndTask
<1>3. "call" \in MoneySteps
  BY DEF MoneySteps
<1>4. o \in Currencies /\ FeeOf(r) \in Fees \cup {None}
  BY <1>1, <1>3 DEF MoneyInv, At, FeeOf
<1>5. /\ accepted' \in FeeLists
      /\ \A c \in Currencies \ {o} : accepted'[c] = accepted[c]
      /\ ~Refused(r) => accepted'[o] = FeeOf(r)
  BY <1>4 DEF CurrencyCall, FeeOf, FeeLists, TypeInv
<1>6. TypeInv'
  BY <1>1, <1>2, <1>5 DEF TypeInv
<1>7. Moves(r, MoneySteps)
  BY <1>1, <1>2, <1>3, IdleTask DEF Moves, At
<1>8. \A p \in Requests :
        /\ request'[p].at \in MoneySteps =>
             /\ request'[p].op \in {"addCurrency", "delCurrency"} /\ On(p)' \in Currencies
             /\ request'[p].with \in Fees \cup {None}
             /\ At(p, "write_settings")' => Read(p)' \in FeeLists
        /\ \A q \in Requests :
             /\ q # p /\ {request'[q].at, request'[p].at} \subseteq MoneySteps /\ On(q)' = On(p)' =>
                  On(p)' \in suspects'
             /\ q # p /\ At(q, "write_settings")' /\ At(p, "write_settings")' => On(p)' \in suspects'
  <2>1. request[r].at \in MoneySteps /\ request'[r].at \notin MoneySteps /\ ~At(r, "write_settings")'
    BY <1>1, <1>2, <1>3, IdleTask DEF At
  <2> QED BY <1>1, <1>2, <2>1, GoOn
<1>9. ASSUME NEW c \in Currencies \ suspects'
      PROVE  /\ \A p \in Requests : At(p, "write_settings")' => Read(p)'[c] = settings[c]
             /\ \A p \in Requests : At(p, "call")' /\ On(p)' = c => settings[c] = FeeOf(p)'
             /\ (\A p \in Requests : ~(At(p, "call")' /\ On(p)' = c)) => settings[c] = accepted'[c]
  <2>1. c \in Currencies \ suspects
    BY <1>1
  <2>2. \A p \in Requests : At(p, "write_settings")' \/ At(p, "call")' => request'[p] = request[p]
    BY <1>2, IdleTask DEF At
  <2>3. ASSUME \A p \in Requests : ~(At(p, "call")' /\ On(p)' = c) PROVE settings[c] = accepted'[c]
    <3>1. CASE c = o
      BY <1>1, <1>5, <2>1, <3>1 DEF MoneyInv
    <3>2. CASE c # o
      <4>1. \A p \in Requests : ~(At(p, "call") /\ On(p) = c)
        BY <1>2, <2>3, <3>2 DEF At, On
      <4> QED BY <1>5, <2>1, <3>2, <4>1 DEF MoneyInv
    <3> QED BY <3>1, <3>2
  <2>4. \A p \in Requests : At(p, "write_settings")' => Read(p)'[c] = settings[c]
    BY <2>1, <2>2 DEF MoneyInv, At, Read
  <2>5. \A p \in Requests : At(p, "call")' /\ On(p)' = c => settings[c] = FeeOf(p)'
    BY <2>1, <2>2 DEF MoneyInv, At, On, FeeOf
  <2> QED BY <2>3, <2>4, <2>5
<1> QED BY <1>1, <1>6, <1>7, <1>8, <1>9 DEF MoneyInv

\* Nothing that a request about a currency does concerns files or the order.
LEMMA CurrencyKeeps ==
  ASSUME TypeInv, MoneyInv, FilesInv, OrderInv, NEW r \in Requests, Currency(r)
  PROVE  TypeInv' /\ MoneyInv' /\ FilesInv' /\ OrderInv'
<1>1. TypeInv' /\ MoneyInv' /\ Moves(r, MoneySteps)
  BY StartCurrencyKeeps, ReadCurrenciesKeeps, WriteCurrenciesKeeps, CurrencyCallKeeps DEF Currency
<1>2. /\ UNCHANGED <<files, market>> /\ suspects \subseteq suspects'
      /\ started' = started \/ started' = started + 1
  BY DEF Currency, StartCurrency, ReadCurrencies, WriteCurrencies, CurrencyCall, Start
<1>3. started' \in Nat /\ started <= started'
  BY <1>2 DEF TypeInv
<1>4. ASSUME NEW q \in Requests PROVE FilesAside(q) /\ OrderAside(q)
  <2>1. CASE q = r
    BY <1>1, <2>1, StepKinds DEF Moves, FilesAside, OrderAside
  <2>2. CASE q # r
    BY <1>1, <2>2 DEF Moves, FilesAside, OrderAside
  <2> QED BY <2>1, <2>2
<1> QED BY <1>1, <1>2, <1>3, <1>4, FilesFrame, OrderFrame

-----------------------------------------------------------------------------
(* Banners.                                                                *)

LEMMA NullsAreNoNumbers == None \notin Nat /\ NoFile \notin Nat
  BY RestInputs

\* A request takes a new number, and what it has read of its banner.
LEMMA FileStarts ==
  ASSUME TypeInv, FilesInv, NEW r \in Requests, NEW b \in Banners,
         NEW op \in {"create", "edit", "delete"}, NEW step \in {"read_again", "put", "remove"},
         NEW read \in {None, banners[b]}, Start(r, op, step, b, None, read),
         UNCHANGED <<money, bucket, market, suspects>>,
         banners' = banners \/ banners' = [banners EXCEPT ![b] = NoFile]
  PROVE  TypeInv' /\ FilesInv' /\ Moves(r, FileSteps)
<1> DEFINE t == [op |-> op, at |-> step, on |-> b, no |-> started + 1, with |-> None, read |-> read]
<1>1. t \in Tasks
  BY DEF TypeInv, Tasks, FileSteps
<1>2. /\ request' \in [Requests -> Tasks] /\ started' = started + 1 /\ request[r] = Idle
      /\ request'[r] = t /\ \A q \in Requests \ {r} : request'[q] = request[q]
  BY <1>1, StartTask
<1>3. /\ t.at = step /\ t.on = b /\ t.no = started + 1 /\ t.read = read
      /\ step \in FileSteps /\ step # "link"
  BY DEF FileSteps
<1> HIDE DEF t
<1>4. /\ banners' \in [Banners -> Nat \cup {None, NoFile}] /\ started \in Nat
      /\ \A a \in Banners : banners'[a] = banners[a] \/ banners'[a] \notin Nat
      /\ bucket' = bucket /\ suspects' = suspects
  BY NullsAreNoNumbers DEF TypeInv
<1>5. TypeInv'
  BY <1>2, <1>4 DEF TypeInv, money, market
<1>6. Moves(r, FileSteps)
  BY <1>2, <1>3, IdleTask DEF Moves
<1>7. /\ \A a \in Banners : banners[a] \in Nat => banners[a] <= started
      /\ \A a \in Banners : banners'[a] \in Nat => banners'[a] <= started
      /\ \A q \in Requests \ {r} : Filing(q) =>
           /\ request[q].no <= started /\ request[q].no \in Nat
           /\ Read(q) \in Nat \cup {None, NoFile} /\ (Read(q) \in Nat => Read(q) <= started)
      /\ read \in Nat \cup {None, NoFile} /\ (read \in Nat => read <= started /\ read = banners[b])
  BY <1>4, NullsAreNoNumbers DEF FilesInv, FileNamesInv, FileTaskOK, TypeInv, Tasks
<1>8. FileTaskOK(r)'
  <2>1. On(r)' = b /\ Read(r)' = read /\ request'[r].no = started + 1 /\ ~At(r, "link")'
    BY <1>2, <1>3 DEF On, Read, At
  <2>2. ASSUME NEW a \in Banners
        PROVE  banners'[a] # started + 1 /\ (read \in Nat /\ banners'[a] = read => a = b)
    BY <1>4, <1>7 DEF FilesInv, FileNamesInv
  <2>3. ASSUME NEW q \in Requests, Filing(q)'
        PROVE  Read(q)' # started + 1 /\ (q # r => request'[q].no # started + 1)
    <3>1. CASE q = r
      BY <1>4, <1>7, <2>1, <3>1, NullsAreNoNumbers
    <3>2. CASE q # r
      BY <1>2, <1>4, <1>7, <2>3, <3>2, NullsAreNoNumbers DEF Filing, Read
    <3> QED BY <3>1, <3>2
  <2> QED BY <1>2, <1>4, <1>7, <2>1, <2>2, <2>3 DEF FileTaskOK
<1>9. ASSUME NEW q \in Requests \ {r}, Filing(q)' PROVE FileTaskOK(q)'
  <2>1. /\ Filing(q) /\ request'[q] = request[q] /\ FileTaskOK(q) /\ request[q].no \in Nat
        /\ request[q].no <= started
    BY <1>2, <1>7, <1>9 DEF Filing, FilesInv, FileNamesInv
  <2>2. \A a \in Banners : /\ banners'[a] # request[q].no
                           /\ Read(q) \in Nat /\ banners'[a] = Read(q) => a = On(q)
    BY <1>4, <2>1 DEF FileTaskOK
  <2>3. ASSUME NEW p \in Requests, Filing(p)'
        PROVE  Read(p)' # request[q].no /\ (p # q => request'[p].no # request[q].no)
    <3>1. CASE p = r
      <4>1. read # request[q].no
        BY <1>7, <2>1, NullsAreNoNumbers DEF FileTaskOK
      <4> QED BY <1>2, <1>3, <1>4, <2>1, <3>1, <4>1 DEF Read
    <3>2. CASE p # r
      BY <1>2, <2>1, <2>3, <3>2 DEF Filing, Read, FileTaskOK
    <3> QED BY <3>1, <3>2
  <2>4. Read(q) \in Nat => Read(q) <= started'
    BY <1>2, <1>4, <1>7, <2>1
  <2> QED BY <1>2, <1>4, <1>7, <2>1, <2>2, <2>3, <2>4 DEF FileTaskOK, At, On, Read
<1>10. BannersHaveTheirFiles'
  <2>1. ASSUME NEW a \in Banners, a \notin suspects, banners'[a] \in Nat, banners'[a] \notin bucket
        PROVE  \E q \in Requests : On(q)' = a /\ Read(q)' = banners'[a]
                                   /\ request'[q].at \in {"put", "link", "delete_row"}
    <3>1. a \in Banners \ suspects /\ banners[a] \in Nat \ bucket /\ banners'[a] = banners[a]
      BY <1>4, <2>1
    <3>2. PICK q \in Requests : On(q) = a /\ Read(q) = banners[a]
                                /\ request[q].at \in {"put", "link", "delete_row"}
      BY <3>1 DEF FilesInv, BannersHaveTheirFiles
    <3>3. q # r
      BY <1>2, <3>2, IdleTask
    <3> QED BY <1>2, <3>1, <3>2, <3>3 DEF On, Read
  <2> QED BY <1>4, <2>1 DEF BannersHaveTheirFiles
<1>11. /\ \A a \in Banners : banners'[a] \in Nat => banners'[a] <= started'
       /\ \A a, c \in Banners : banners'[a] \in Nat /\ banners'[a] = banners'[c] => a = c
  <2>1. \A a \in Banners : banners'[a] \in Nat => banners'[a] <= started'
    BY <1>2, <1>4, <1>7
  <2>2. \A a, c \in Banners : banners'[a] \in Nat /\ banners'[a] = banners'[c] => a = c
    BY <1>4 DEF FilesInv, FileNamesInv
  <2> QED BY <2>1, <2>2
<1> QED BY <1>4, <1>5, <1>6, <1>8, <1>9, <1>10, <1>11 DEF FilesInv, FileNamesInv

\* A request goes on with its banner, and names no file yet.
LEMMA FileGoesOn ==
  ASSUME TypeInv, FilesInv, NEW r \in Requests, Filing(r), Filing(r)',
         \A q \in Requests \ {r} : request'[q] = request[q],
         request'[r].on = request[r].on, request'[r].no = request[r].no,
         Read(r)' \in {Read(r), banners[On(r)]},
         UNCHANGED <<banners, started>>, bucket' \subseteq Nat,
         \A q \in Requests : At(q, "link")' => request[q].no \in bucket'
  PROVE  FileNamesInv'
<1>1. /\ FileTaskOK(r) /\ request[r].no \in Nat /\ On(r) \in Banners
      /\ On(r)' = On(r)
  BY DEF FilesInv, FileNamesInv, FileTaskOK, TypeInv, Tasks, On
<1>2. /\ banners[On(r)] \in Nat \cup {None, NoFile}
      /\ banners[On(r)] \in Nat => banners[On(r)] <= started
  BY <1>1 DEF FilesInv, FileNamesInv, TypeInv
<1>3. \A q \in Requests : Filing(q)' => Filing(q) /\ FileTaskOK(q) /\ request'[q].no = request[q].no
  BY DEF Filing, FilesInv, FileNamesInv
<1>4. ASSUME NEW p \in Requests, Filing(p)'
      PROVE  \A q \in Requests : Filing(q)' =>
               /\ Read(q)' # request[p].no
               /\ q # p => request'[q].no # request[p].no
  <2>1. Filing(p) /\ FileTaskOK(p)
    BY <1>3, <1>4
  <2>2. ASSUME NEW q \in Requests, Filing(q)' PROVE Read(q)' # request[p].no
    <3>1. Filing(q) /\ Read(q) # request[p].no
      BY <1>3, <2>1, <2>2 DEF FileTaskOK
    <3>2. banners[On(r)] # request[p].no
      BY <1>1, <2>1 DEF FileTaskOK
    <3> QED BY <3>1, <3>2 DEF Read
  <2>3. ASSUME NEW q \in Requests, Filing(q)', q # p PROVE request'[q].no # request[p].no
    BY <1>3, <2>1, <2>3 DEF FileTaskOK
  <2> QED BY <2>2, <2>3
<1>5. ASSUME NEW p \in Requests, Filing(p)' PROVE FileTaskOK(p)'
  <2>1. Filing(p) /\ FileTaskOK(p) /\ request'[p].no = request[p].no
    BY <1>3, <1>5
  <2>2. CASE p = r
    <3>1. \A b \in Banners : Read(r)' \in Nat /\ banners[b] = Read(r)' => b = On(r)
      BY <1>1, <1>2 DEF FilesInv, FileNamesInv, FileTaskOK
    <3>2. Read(r)' \in Nat \cup {None, NoFile} /\ (Read(r)' \in Nat => Read(r)' <= started)
      BY <1>1, <1>2 DEF FileTaskOK
    <3> QED BY <1>1, <1>4, <1>5, <2>1, <2>2, <3>1, <3>2 DEF FileTaskOK
  <2>3. CASE p # r
    <3>1. request'[p] = request[p]
      BY <2>3
    <3> QED BY <1>4, <1>5, <2>1, <3>1 DEF FileTaskOK, On, Read
  <2> QED BY <2>2, <2>3
<1> QED BY <1>5 DEF FilesInv, FileNamesInv

\* A request ends with its banner's row without a file, or with its own.
LEMMA FileEnds ==
  ASSUME TypeInv, FilesInv, NEW r \in Requests, Filing(r), request'[r] = Idle,
         \A q \in Requests \ {r} : request'[q] = request[q],
         NEW file, file = None \/ (file = request[r].no /\ file \in bucket),
         banners' = [banners EXCEPT ![On(r)] = file], UNCHANGED <<bucket, started, suspects>>
  PROVE  FilesInv'
<1>1. PICK o : o = On(r)
  OBVIOUS
<1>2. FileTaskOK(r) /\ o \in Banners /\ request[r].no \in Nat
  BY <1>1 DEF FilesInv, FileNamesInv, FileTaskOK, TypeInv, Tasks
<1>3. /\ banners'[o] = file /\ \A b \in Banners \ {o} : banners'[b] = banners[b]
      /\ file \in Nat => file = request[r].no /\ file \in bucket /\ file <= started
      /\ \A b \in Banners : banners[b] # request[r].no
  BY <1>1, <1>2, NullsAreNoNumbers DEF TypeInv, FileTaskOK
<1>4. \A q \in Requests : Filing(q)' => q # r /\ request'[q] = request[q] /\ Filing(q) /\ FileTaskOK(q)
  BY IdleTask DEF Filing, FilesInv, FileNamesInv
<1>5. ASSUME NEW p \in Requests, Filing(p)' PROVE FileTaskOK(p)'
  <2>1. p # r /\ request'[p] = request[p] /\ Filing(p) /\ FileTaskOK(p) /\ request[p].no \in Nat
    BY <1>4, <1>5 DEF TypeInv, Tasks
  <2>2. file # request[p].no /\ (Read(p) \in Nat => Read(p) # file)
    <3>1. request[p].no # request[r].no /\ Read(p) # request[r].no
      BY <1>2, <2>1 DEF FileTaskOK
    <3> QED BY <2>1, <3>1, NullsAreNoNumbers
  <2>3. \A b \in Banners : /\ banners'[b] # request[p].no
                           /\ Read(p) \in Nat /\ banners'[b] = Read(p) => b = On(p)
    BY <1>3, <2>1, <2>2 DEF FileTaskOK
  <2>4. \A q \in Requests : Filing(q)' => /\ Read(q)' # request[p].no
                                          /\ q # p => request'[q].no # request[p].no
    BY <1>4, <2>1 DEF FileTaskOK, Read
  <2> QED BY <2>1, <2>3, <2>4 DEF FileTaskOK, At, On, Read
<1>6. BannersHaveTheirFiles'
  <2>1. ASSUME NEW b \in Banners, b \notin suspects, banners'[b] \in Nat, banners'[b] \notin bucket
        PROVE  \E q \in Requests : On(q)' = b /\ Read(q)' = banners'[b]
                                   /\ request'[q].at \in {"put", "link", "delete_row"}
    <3>1. b # o /\ banners'[b] = banners[b]
      BY <1>3, <2>1
    <3>2. b \in Banners \ suspects /\ banners[b] \in Nat \ bucket
      BY <2>1, <3>1
    <3>3. PICK q \in Requests : On(q) = b /\ Read(q) = banners[b]
                                /\ request[q].at \in {"put", "link", "delete_row"}
      BY <3>2 DEF FilesInv, BannersHaveTheirFiles
    <3>4. q # r
      BY <1>1, <3>1, <3>3
    <3> QED BY <3>1, <3>3, <3>4 DEF On, Read
  <2> QED BY <2>1 DEF BannersHaveTheirFiles
<1>7. /\ \A b \in Banners : banners'[b] \in Nat => banners'[b] <= started
      /\ \A a, b \in Banners : banners'[a] \in Nat /\ banners'[a] = banners'[b] => a = b
  BY <1>3 DEF FilesInv, FileNamesInv
<1> QED BY <1>5, <1>6, <1>7 DEF FilesInv, FileNamesInv

LEMMA ReadAgainKeeps ==
  ASSUME TypeInv, FilesInv, NEW r \in Requests, ReadAgain(r)
  PROVE  TypeInv' /\ FilesInv' /\ Moves(r, FileSteps)
<1>1. /\ At(r, "read_again") /\ Filing(r) /\ On(r) \in Banners
      /\ UNCHANGED <<settings, accepted, banners, bucket, chain, offers, worker, suspects, started>>
  BY DEF ReadAgain, money, files, market, FilesInv, FileNamesInv, FileTaskOK, Filing, At, FileSteps
<1>2. CASE End(r)
  <2>1. /\ request' \in [Requests -> Tasks] /\ request'[r] = Idle
        /\ \A q \in Requests \ {r} : request'[q] = request[q]
    BY <1>2, EndTask
  <2>2. TypeInv' /\ Moves(r, FileSteps)
    BY <1>1, <2>1, IdleTask DEF TypeInv, Moves, Filing
  <2>3. \A q \in Requests : FilesAside(q)
    BY <1>1, <2>1, IdleTask DEF FilesAside, At
  <2>4. started \in Nat
    BY DEF TypeInv
  <2> QED BY <1>1, <2>2, <2>3, <2>4, FilesFrame DEF files
<1>3. ASSUME NEW step \in {"put", "remove"}, Goto(r, step, banners[On(r)])
      PROVE  TypeInv' /\ FilesInv' /\ Moves(r, FileSteps)
  <2>1. banners[On(r)] \in Nat \cup {None, NoFile}
    BY <1>1 DEF TypeInv
  <2>2. step \in FileSteps
    BY DEF FileSteps
  <2>3. /\ request' \in [Requests -> Tasks]
        /\ request'[r].at = step /\ request'[r].read = banners[On(r)]
        /\ request'[r].on = request[r].on /\ request'[r].no = request[r].no
        /\ \A q \in Requests \ {r} : request'[q] = request[q]
    BY <1>3, <2>1, <2>2, GotoTask
  <2>4. TypeInv' /\ Moves(r, FileSteps)
    BY <1>1, <2>2, <2>3 DEF TypeInv, Moves, Filing
  <2>5. \A q \in Requests : At(q, "link")' => request[q].no \in bucket
    BY <1>1, <2>3 DEF At, FilesInv, FileNamesInv, FileTaskOK, Filing, FileSteps
  <2>6. FileNamesInv'
    <3>1. Filing(r)' /\ Read(r)' = banners[On(r)]
      BY <2>2, <2>3 DEF Filing, Read
    <3>2. bucket' \subseteq Nat
      BY <1>1 DEF FilesInv, FileNamesInv
    <3> QED BY <1>1, <2>3, <2>5, <3>1, <3>2, FileGoesOn
  <2>7. BannersHaveTheirFiles'
    <3>1. ASSUME NEW b \in Banners, b \notin suspects, banners[b] \in Nat, banners[b] \notin bucket
          PROVE  \E q \in Requests : On(q)' = b /\ Read(q)' = banners[b]
                                     /\ request'[q].at \in {"put", "link", "delete_row"}
      <4>1. b \in Banners \ suspects /\ banners[b] \in Nat \ bucket
        BY <3>1
      <4>2. PICK q \in Requests : On(q) = b /\ Read(q) = banners[b]
                                  /\ request[q].at \in {"put", "link", "delete_row"}
        BY <4>1 DEF FilesInv, BannersHaveTheirFiles
      <4>3. q # r
        BY <1>1, <4>2 DEF At
      <4> QED BY <2>3, <4>2, <4>3 DEF On, Read
    <3> QED BY <1>1, <3>1 DEF BannersHaveTheirFiles
  <2> QED BY <2>4, <2>6, <2>7 DEF FilesInv
<1> QED BY <1>2, <1>3 DEF ReadAgain

\* The file that is taken out of the bucket is at most the one of the row, which the
\* request remembers.
LEMMA RemoveObjectKeeps ==
  ASSUME TypeInv, FilesInv, NEW r \in Requests, RemoveObject(r)
  PROVE  TypeInv' /\ FilesInv' /\ Moves(r, FileSteps)
<1>1. /\ At(r, "remove") /\ Filing(r) /\ FileTaskOK(r)
      /\ UNCHANGED <<settings, accepted, banners, chain, offers, worker, suspects, started>>
      /\ bucket' = bucket \ {Read(r)} /\ bucket \subseteq Nat
  BY DEF RemoveObject, money, market, FilesInv, FileNamesInv, Filing, At, FileSteps
<1>2. CASE Read(r) = NoFile
  <2>1. End(r) /\ bucket' = bucket
    BY <1>1, <1>2, NullsAreNoNumbers DEF RemoveObject
  <2>2. /\ request' \in [Requests -> Tasks] /\ request'[r] = Idle
        /\ \A q \in Requests \ {r} : request'[q] = request[q]
    BY <2>1, EndTask
  <2>3. TypeInv' /\ Moves(r, FileSteps)
    BY <1>1, <2>2, IdleTask DEF TypeInv, Moves, Filing
  <2>4. \A q \in Requests : FilesAside(q)
    BY <1>1, <2>2, IdleTask DEF FilesAside, At
  <2>5. started \in Nat
    BY DEF TypeInv
  <2> QED BY <1>1, <2>1, <2>3, <2>4, <2>5, FilesFrame DEF files
<1>3. CASE Read(r) # NoFile
  <2>1. PICK step \in {"put", "delete_row"} : Goto(r, step, Read(r))
    BY <1>3 DEF RemoveObject
  <2>2. step \in FileSteps
    BY DEF FileSteps
  <2>3. /\ request' \in [Requests -> Tasks]
        /\ request'[r].at = step /\ request'[r].read = Read(r)
        /\ request'[r].on = request[r].on /\ request'[r].no = request[r].no
        /\ \A q \in Requests \ {r} : request'[q] = request[q]
    BY <1>1, <2>1, <2>2, GotoTask DEF FileTaskOK
  <2>4. TypeInv' /\ Moves(r, FileSteps)
    BY <1>1, <2>2, <2>3 DEF TypeInv, Moves, Filing
  <2>5. ASSUME NEW q \in Requests, At(q, "link")' PROVE request[q].no \in bucket'
    <3>1. q # r /\ At(q, "link")
      BY <1>1, <2>3, <2>5 DEF At
    <3>2. Filing(q)
      BY <3>1 DEF Filing, At, FileSteps
    <3>3. request[q].no \in bucket /\ Read(r) # request[q].no
      BY <1>1, <3>1, <3>2 DEF FilesInv, FileNamesInv, FileTaskOK
    <3> QED BY <1>1, <3>3
  <2>6. FileNamesInv'
    <3>1. Filing(r)' /\ Read(r)' = Read(r)
      BY <2>2, <2>3 DEF Filing, Read
    <3>2. bucket' \subseteq Nat
      BY <1>1
    <3> QED BY <1>1, <2>3, <2>5, <3>1, <3>2, FileGoesOn
  <2>7. BannersHaveTheirFiles'
    <3>1. ASSUME NEW b \in Banners, b \notin suspects, banners[b] \in Nat, banners[b] \notin bucket'
          PROVE  \E q \in Requests : On(q)' = b /\ Read(q)' = banners[b]
                                     /\ request'[q].at \in {"put", "link", "delete_row"}
      <4>1. CASE banners[b] = Read(r)
        <5>1. b = On(r)
          BY <1>1, <3>1, <4>1 DEF FileTaskOK
        <5> QED BY <2>3, <4>1, <5>1 DEF On, Read
      <4>2. CASE banners[b] # Read(r)
        <5>1. b \in Banners \ suspects /\ banners[b] \in Nat \ bucket
          BY <1>1, <3>1, <4>2
        <5>2. PICK q \in Requests : On(q) = b /\ Read(q) = banners[b]
                                    /\ request[q].at \in {"put", "link", "delete_row"}
          BY <5>1 DEF FilesInv, BannersHaveTheirFiles
        <5> QED BY <2>3, <4>2, <5>2 DEF On, Read
      <4> QED BY <4>1, <4>2
    <3> QED BY <1>1, <3>1 DEF BannersHaveTheirFiles
  <2> QED BY <2>4, <2>6, <2>7 DEF FilesInv
<1> QED BY <1>2, <1>3

LEMMA PutObjectKeeps ==
  ASSUME TypeInv, FilesInv, NEW r \in Requests, PutObject(r)
  PROVE  TypeInv' /\ FilesInv' /\ Moves(r, FileSteps)
<1>1. /\ At(r, "put") /\ Filing(r) /\ FileTaskOK(r) /\ Goto(r, "link", Read(r))
      /\ UNCHANGED <<settings, accepted, banners, chain, offers, worker, suspects, started>>
      /\ bucket' = bucket \cup {request[r].no} /\ bucket \subseteq Nat /\ request[r].no \in Nat
  BY DEF PutObject, money, market, FilesInv, FileNamesInv, Filing, At, FileSteps, TypeInv, Tasks
<1>2. "link" \in FileSteps
  BY DEF FileSteps
<1>3. /\ request' \in [Requests -> Tasks]
      /\ request'[r].at = "link" /\ request'[r].read = Read(r)
      /\ request'[r].on = request[r].on /\ request'[r].no = request[r].no
      /\ \A q \in Requests \ {r} : request'[q] = request[q]
  BY <1>1, <1>2, GotoTask DEF FileTaskOK
<1>4. TypeInv' /\ Moves(r, FileSteps)
  BY <1>1, <1>2, <1>3 DEF TypeInv, Moves, Filing
<1>5. \A q \in Requests : At(q, "link")' => request[q].no \in bucket'
  BY <1>1, <1>3 DEF At, FilesInv, FileNamesInv, FileTaskOK, Filing, FileSteps
<1>6. FileNamesInv'
  <2>1. Filing(r)' /\ Read(r)' = Read(r) /\ bucket' \subseteq Nat
    BY <1>1, <1>2, <1>3 DEF Filing, Read
  <2> QED BY <1>1, <1>3, <1>5, <2>1, FileGoesOn
<1>7. BannersHaveTheirFiles'
  <2>1. ASSUME NEW b \in Banners, b \notin suspects, banners[b] \in Nat, banners[b] \notin bucket'
        PROVE  \E q \in Requests : On(q)' = b /\ Read(q)' = banners[b]
                                   /\ request'[q].at \in {"put", "link", "delete_row"}
    <3>1. b \in Banners \ suspects /\ banners[b] \in Nat \ bucket
      BY <1>1, <2>1
    <3>2. PICK q \in Requests : On(q) = b /\ Read(q) = banners[b]
                                /\ request[q].at \in {"put", "link", "delete_row"}
      BY <3>1 DEF FilesInv, BannersHaveTheirFiles
    <3> QED BY <1>3, <3>2 DEF On, Read
  <2> QED BY <1>1, <2>1 DEF BannersHaveTheirFiles
<1> QED BY <1>4, <1>6, <1>7 DEF FilesInv

LEMMA LinkFileKeeps ==
  ASSUME TypeInv, FilesInv, NEW r \in Requests, LinkFile(r) \/ DeleteRow(r)
  PROVE  TypeInv' /\ FilesInv' /\ Moves(r, FileSteps)
<1>1. /\ Filing(r) /\ End(r) /\ On(r) \in Banners /\ request[r].no \in Nat
      /\ UNCHANGED <<settings, accepted, bucket, chain, offers, worker, suspects, started>>
      /\ At(r, "link") => request[r].no \in bucket
  BY DEF LinkFile, DeleteRow, money, market, FilesInv, FileNamesInv, FileTaskOK, Filing, At, FileSteps,
         TypeInv, Tasks
<1>2. PICK file : /\ file = None \/ (file = request[r].no /\ file \in bucket)
                  /\ banners' = [banners EXCEPT ![On(r)] = file]
  <2>1. CASE LinkFile(r)
    BY <1>1, <2>1 DEF LinkFile, Linked
  <2>2. CASE DeleteRow(r)
    BY <2>2 DEF DeleteRow
  <2> QED BY <2>1, <2>2
<1>3. /\ request' \in [Requests -> Tasks] /\ request'[r] = Idle
      /\ \A q \in Requests \ {r} : request'[q] = request[q]
  BY <1>1, EndTask
<1>4. banners' \in [Banners -> Nat \cup {None, NoFile}]
  BY <1>1, <1>2 DEF TypeInv
<1>5. TypeInv' /\ Moves(r, FileSteps)
  BY <1>1, <1>3, <1>4, IdleTask DEF TypeInv, Moves, Filing
<1>6. FilesInv'
  BY <1>1, <1>2, <1>3, FileEnds
<1> QED BY <1>5, <1>6

\* Nothing that a request about a banner does concerns currencies or the order.
LEMMA BannerKeeps ==
  ASSUME TypeInv, MoneyInv, FilesInv, OrderInv, NEW r \in Requests, Banner(r)
  PROVE  TypeInv' /\ MoneyInv' /\ FilesInv' /\ OrderInv'
<1>1. TypeInv' /\ FilesInv' /\ Moves(r, FileSteps)
  <2>1. ASSUME NEW b \in Banners, CreateBanner(r, b) \/ EditBanner(r, b) \/ DeleteBanner(r, b)
        PROVE  TypeInv' /\ FilesInv' /\ Moves(r, FileSteps)
    <3>1. CASE CreateBanner(r, b)
      BY <3>1, FileStarts DEF CreateBanner
    <3>2. CASE EditBanner(r, b)
      BY <3>2, FileStarts DEF EditBanner, files
    <3>3. CASE DeleteBanner(r, b)
      BY <3>3, FileStarts DEF DeleteBanner, files
    <3> QED BY <2>1, <3>1, <3>2, <3>3
  <2> QED BY <2>1, ReadAgainKeeps, RemoveObjectKeeps, PutObjectKeeps, LinkFileKeeps DEF Banner
<1>2. UNCHANGED <<money, market, suspects>>
  BY DEF Banner, CreateBanner, EditBanner, DeleteBanner, ReadAgain, RemoveObject, PutObject,
         LinkFile, DeleteRow
<1>3. ASSUME NEW q \in Requests PROVE MoneyAside(q) /\ OrderAside(q)
  <2>1. CASE q = r
    BY <1>1, <2>1, StepKinds DEF Moves, MoneyAside, OrderAside, At, MoneySteps
  <2>2. CASE q # r
    BY <1>1, <2>2 DEF Moves, MoneyAside, OrderAside
  <2> QED BY <2>1, <2>2
<1> QED BY <1>1, <1>2, <1>3, MoneyFrame, OrderFrame

-----------------------------------------------------------------------------
(* The order.                                                              *)

LEMMA OrderTypes ==
  ASSUME TypeInv
  PROVE  /\ Len(chain) \in Nat /\ Len(offers) \in Nat /\ worker.done \in Nat
         /\ \A i \in 1 .. Len(chain) : chain[i] \in Events
         /\ chain = <<>> <=> Len(chain) = 0
         /\ offers = <<>> <=> Len(offers) = 0
<1>1. chain \in Seq(Events) /\ offers \in Seq(Rows)
  BY DEF TypeInv
<1>2. Len(chain) \in Nat /\ Len(offers) \in Nat /\ \A i \in 1 .. Len(chain) : chain[i] \in Events
  BY <1>1, LenProperties, ElementOfSeq
<1>3. (chain = <<>> <=> Len(chain) = 0) /\ (offers = <<>> <=> Len(offers) = 0)
  BY <1>1, EmptySeq
<1> QED BY <1>2, <1>3 DEF TypeInv

LEMMA EmitFacts ==
  ASSUME TypeInv, NEW name, NEW price, NEW left, Emit(name, price, left),
         [name |-> name, price |-> price, left |-> left] \in Events
  PROVE  /\ chain' \in Seq(Events) /\ Len(chain') = Len(chain) + 1
         /\ \A i \in 1 .. Len(chain) : chain'[i] = chain[i]
         /\ chain'[Len(chain) + 1].name = name /\ chain'[Len(chain) + 1].price = price
         /\ chain'[Len(chain) + 1].left = left
<1> DEFINE e == [name |-> name, price |-> price, left |-> left]
<1>1. chain' = Append(chain, e) /\ chain \in Seq(Events) /\ e \in Events
  BY DEF Emit, TypeInv
<1>2. e.name = name /\ e.price = price /\ e.left = left
  OBVIOUS
<1> HIDE DEF e
<1>3. /\ chain' \in Seq(Events) /\ Len(chain') = Len(chain) + 1
      /\ \A i \in 1 .. Len(chain) : chain'[i] = chain[i]
      /\ chain'[Len(chain) + 1] = e
  BY <1>1, AppendProperties, LenProperties
<1> QED BY <1>2, <1>3

\* A check that adds the event.
JustAsked(r, name, left) ==
  /\ request'[r].at = "ask_owner" /\ Read(r)' = Len(chain) + 1
  /\ name \in {"TokenIsApproved", "TokenRevoke"}
  /\ IF name = "TokenRevoke" THEN left = 0 ELSE token' = "approved"

\* An event makes suspects of the checks under way, so that one which is none has
\* added it.
LEMMA EmitKeepsOrder ==
  ASSUME TypeInv, OrderInv, NEW name, NEW price, NEW left, Emit(name, price, left),
         [name |-> name, price |-> price, left |-> left] \in Events,
         chain = <<>> => left = 1,
         name = "TokenIsApproved" => chain # <<>> /\ left = 1 /\ Last.left = 1 /\ Last.price = price,
         \A r \in Requests : OrderAside(r) \/ JustAsked(r, name, left)
  PROVE  OrderInv'
<1> DEFINE n == Len(chain)
<1>1. /\ n \in Nat /\ Len(chain') = n + 1 /\ worker.done \in Nat
      /\ \A i \in 1 .. n : chain'[i] = chain[i]
      /\ chain'[n + 1].name = name /\ chain'[n + 1].price = price /\ chain'[n + 1].left = left
      /\ chain = <<>> <=> n = 0
  BY EmitFacts, OrderTypes
<1>2. offers' = offers /\ worker' = worker /\ suspects \subseteq suspects'
      /\ ("order" \notin suspects' => Checking = {})
  BY DEF Emit, Suspected
<1> HIDE DEF n
<1>3. Last = chain[n] /\ Last' = chain'[n + 1]
  BY <1>1 DEF Last, n
<1>4. ASSUME NEW i \in 1 .. n + 1
      PROVE  /\ i = 1 => chain'[i].left = 1
             /\ chain'[i].name = "TokenIsApproved" =>
                  /\ i > 1 /\ chain'[i].left = 1
                  /\ chain'[i - 1].left = 1 /\ chain'[i - 1].price = chain'[i].price
  <2>1. CASE i = n + 1
    <3>1. n > 0 => chain'[n] = chain[n]
      BY <1>1
    <3> QED BY <1>1, <1>3, <2>1, <3>1
  <2>2. CASE i \in 1 .. n
    <3>1. i > 1 => i - 1 \in 1 .. n /\ chain'[i - 1] = chain[i - 1]
      BY <1>1, <2>2
    <3> QED BY <1>1, <2>2, <3>1 DEF OrderInv, n
  <2> QED BY <1>1, <2>1, <2>2
<1>5. ASSUME NEW r \in Requests
      PROVE  /\ r \in Checking' => Read(r)' \in 1 .. n + 1
             /\ request'[r].at \in {"find_offer", "save_offer"} => request'[r].with \in Statuses
             /\ At(r, "save_offer")' => request'[r].no <= Len(offers)
  <2>1. CASE request'[r] = request[r]
    BY <1>1, <2>1 DEF OrderInv, Checking, At, Read, n
  <2>2. CASE request'[r].at \notin OrderSteps \ {"submit"}
    BY <2>2 DEF Checking, At, OrderSteps
  <2>3. CASE JustAsked(r, name, left)
    BY <1>1, <2>3 DEF JustAsked, At, n
  <2> QED BY <2>1, <2>2, <2>3 DEF OrderAside
<1>6. ASSUME "order" \notin suspects', NEW r \in Checking'
      PROVE  JustAsked(r, name, left)
  <2>1. r \in Requests /\ r \notin Checking
    BY <1>2, <1>6 DEF Checking
  <2>2. ~OrderAside(r)
    BY <1>6, <2>1 DEF OrderAside, Checking, OrderSteps
  <2> QED BY <2>1, <2>2
<1>7. ASSUME "order" \notin suspects', offers # <<>>
      PROVE  \E j \in 1 .. n + 1 : j >= worker.done /\ Told(j)'
  <2>1. PICK j \in 1 .. n : j >= worker.done /\ Told(j)
    BY <1>2, <1>7 DEF OrderInv, n
  <2>2. chain'[j] = chain[j] /\ j \in 1 .. n + 1
    BY <1>1
  <2> QED BY <1>2, <2>1, <2>2 DEF Told
<1>8. ASSUME "order" \notin suspects', NEW r \in Checking'
      PROVE  /\ Read(r)' = n + 1
             /\ Last'.name \in {"TokenIsApproved", "TokenRevoke"}
             /\ IF Last'.name = "TokenRevoke" THEN Last'.left = 0 ELSE token' = "approved"
             /\ At(r, "ask_owner")'
  BY <1>1, <1>3, <1>6, <1>8 DEF JustAsked, At, n
<1>9. /\ worker.done <= n + 1 /\ (worker.key # None => worker.done < n + 1)
      /\ worker.key \in Nat => worker.key <= Len(offers)
      /\ worker.done > 0 => offers # <<>>
  BY <1>1 DEF OrderInv, n
<1>10. "order" \notin suspects' => Len(offers) <= 1
  BY <1>2 DEF OrderInv
<1> QED BY <1>1, <1>2, <1>4, <1>5, <1>7, <1>8, <1>9, <1>10 DEF OrderInv

LEMMA OrderKeeps ==
  ASSUME TypeInv, OrderInv, Order
  PROVE  TypeInv' /\ OrderInv'
<1>1. UNCHANGED <<request, settings, accepted, banners, offers, worker, started>>
  BY DEF Order, Emit, money, files
<1>2. /\ Open => Last \in Events /\ Last.left = 1 /\ chain # <<>>
      /\ \A r \in Requests : OrderAside(r)
  BY <1>1, OrderTypes DEF Open, Last, Events, OrderAside
<1>3. PICK name \in {"TokenIsUpForSale", "TokenPriceChanged", "TokenRevoke", "TokenIsPurchased"},
           price \in Prices, left \in {0, 1} :
        Emit(name, price, left) /\ (chain = <<>> => left = 1)
  <2>1. Open => Last.price \in Prices
    BY <1>2 DEF Events
  <2> QED BY <1>2, <2>1 DEF Order
<1>4. [name |-> name, price |-> price, left |-> left] \in Events
  BY DEF Events
<1>5. OrderInv'
  BY <1>2, <1>3, <1>4, EmitKeepsOrder
<1>6. TypeInv'
  BY <1>1, <1>3, <1>4, EmitFacts DEF TypeInv
<1> QED BY <1>5, <1>6

\* A token that moves makes suspects of the checks under way as well.
LEMMA MoveTokenKeeps ==
  ASSUME TypeInv, OrderInv, MoveToken
  PROVE  TypeInv' /\ OrderInv'
<1>1. /\ UNCHANGED <<request, settings, accepted, banners, chain, offers, worker, started>>
      /\ suspects \subseteq suspects' /\ ("order" \notin suspects' => Checking = {})
  BY DEF MoveToken, money, files, Suspected
<1>2. Checking' = Checking
  BY <1>1 DEF Checking
<1> QED BY <1>1, <1>2 DEF TypeInv, OrderInv, Told, At, Read

\* Found gives no key only if an order that is over has no row.
LEMMA FoundFacts ==
  ASSUME TypeInv, NEW left
  PROVE  /\ \A key \in Found(left) : key \in Nat /\ key <= Len(offers)
         /\ Found(left) = {} => offers = <<>> /\ left = 0
<1>1. Len(offers) \in Nat /\ (offers = <<>> <=> Len(offers) = 0)
  BY OrderTypes
<1>2. CASE offers = <<>>
  BY <1>1, <1>2 DEF Found
<1>3. CASE offers # <<>>
  <2>1. Found(left) = 1 .. Len(offers) /\ 1 \in 1 .. Len(offers)
    BY <1>1, <1>3 DEF Found
  <2> QED BY <1>1, <2>1
<1> QED BY <1>2, <1>3

\* Rows are never taken out, and of an order that is no suspect the one row is written.
LEMMA SavedFacts ==
  ASSUME TypeInv, NEW key \in Nat, key <= Len(offers), NEW row \in Rows,
         offers' = Saved(key, row), suspects' = SecondRow(key)
  PROVE  /\ offers' \in Seq(Rows) /\ Len(offers') \in Nat /\ Len(offers) <= Len(offers')
         /\ offers' # <<>> /\ suspects \subseteq suspects'
         /\ "order" \notin suspects' /\ Len(offers) <= 1 => Len(offers') = 1 /\ offers'[1] = row
<1>1. offers \in Seq(Rows) /\ Len(offers) \in Nat /\ (offers = <<>> <=> Len(offers) = 0)
  BY OrderTypes DEF TypeInv
<1>2. CASE key = 0
  <2>1. offers' = Append(offers, row)
    BY <1>2 DEF Saved
  <2>2. offers' \in Seq(Rows) /\ Len(offers') = Len(offers) + 1 /\ offers'[Len(offers) + 1] = row
    BY <1>1, <2>1, AppendProperties
  <2>3. offers' # <<>>
    BY <1>1, <2>2, EmptySeq
  <2>4. "order" \notin suspects' => Len(offers) = 0
    BY <1>1, <1>2 DEF SecondRow
  <2>5. suspects \subseteq suspects'
    BY DEF SecondRow
  <2> QED BY <1>1, <2>2, <2>3, <2>4, <2>5
<1>3. CASE key # 0
  <2>1. offers' = [offers EXCEPT ![key] = row] /\ key \in 1 .. Len(offers)
    BY <1>1, <1>3 DEF Saved
  <2>2. offers' \in Seq(Rows) /\ Len(offers') = Len(offers) /\ offers'[key] = row
    BY <1>1, <2>1, ExceptSeq
  <2>3. offers' # <<>>
    BY <1>1, <2>1, <2>2, EmptySeq
  <2>4. Len(offers) <= 1 => key = 1 /\ Len(offers) = 1
    <3>1. \A n \in Nat : key \in 1 .. n /\ n <= 1 => key = 1 /\ n = 1
      OBVIOUS
    <3> QED BY <1>1, <2>1, <3>1
  <2>5. suspects \subseteq suspects'
    BY DEF SecondRow
  <2> QED BY <1>1, <2>2, <2>3, <2>4, <2>5
<1> QED BY <1>2, <1>3

\* The escrow passes over what adds nothing to the row.
LEMMA FindMirroredKeeps ==
  ASSUME TypeInv, OrderInv, FindMirrored
  PROVE  TypeInv' /\ OrderInv'
<1> DEFINE d == worker.done
           e == chain[d + 1]
           keys == IF e.name = "TokenIsApproved" THEN {} ELSE Found(e.left)
<1>1. /\ UNCHANGED <<request, settings, accepted, banners, chain, token, offers, suspects, started>>
      /\ d < Len(chain) /\ worker.key = None
  BY DEF FindMirrored, money, files
<1>2. /\ d \in Nat /\ Len(chain) \in Nat /\ e \in Events /\ Len(offers) \in Nat
      /\ d + 1 \in 1 .. Len(chain)
  BY <1>1, OrderTypes
<1>3. worker \in [done : Nat, key : Nat \cup {None}]
  BY DEF TypeInv
<1>4. CASE keys = {}
  <2>1. worker' = [worker EXCEPT !.done = d + 1]
    BY <1>4 DEF FindMirrored
  <2>2. worker' \in [done : Nat, key : Nat \cup {None}] /\ worker'.done = d + 1 /\ worker'.key = None
    BY <1>1, <1>2, <1>3, <2>1
  <2>3. offers # <<>>
    <3>1. CASE e.name = "TokenIsApproved"
      BY <1>2, <3>1 DEF OrderInv
    <3>2. CASE e.name # "TokenIsApproved" /\ offers = <<>>
      <4>1. e.left = 0
        BY <1>4, <3>2, FoundFacts
      <4> QED BY <1>2, <3>2, <4>1 DEF OrderInv
    <3> QED BY <3>1, <3>2
  <2>4. e.name = "TokenIsApproved"
    BY <1>4, <2>3, FoundFacts
  <2>5. d \in 1 .. Len(chain) /\ Row(e, StatusOf(e)) = Row(chain[d], StatusOf(chain[d]))
    <3>1. d + 1 > 1 /\ e.left = 1 /\ chain[d + 1 - 1].left = 1 /\ chain[d + 1 - 1].price = e.price
      BY <1>2, <2>4 DEF OrderInv
    <3>2. d \in 1 .. Len(chain) /\ chain[d + 1 - 1] = chain[d]
      BY <1>2, <3>1
    <3> QED BY <3>1, <3>2 DEF Row, StatusOf
  <2>6. ASSUME "order" \notin suspects
        PROVE  \E j \in 1 .. Len(chain) : j >= d + 1 /\ Told(j)
    <3>1. PICK j \in 1 .. Len(chain) : j >= d /\ Told(j)
      BY <2>3, <2>6 DEF OrderInv
    <3>2. CASE j = d
      BY <1>2, <2>5, <3>1, <3>2 DEF Told
    <3>3. CASE j # d
      BY <1>2, <3>1, <3>3
    <3> QED BY <3>2, <3>3
  <2>7. TypeInv'
    BY <1>1, <2>2 DEF TypeInv
  <2>8. OrderInv'
    <3>1. Checking' = Checking
      BY <1>1 DEF Checking
    <3>2. None \notin Nat /\ d + 1 <= Len(chain)
      BY <1>2, NullsAreNoNumbers
    <3> QED BY <1>1, <2>2, <2>3, <2>6, <3>1, <3>2 DEF OrderInv, Told, At, Read, Last
  <2> QED BY <2>7, <2>8
<1>5. CASE keys # {}
  <2>1. PICK key \in Found(e.left) : worker' = [worker EXCEPT !.key = key]
    BY <1>5 DEF FindMirrored
  <2>2. key \in Nat /\ key <= Len(offers)
    BY FoundFacts
  <2>3. worker' \in [done : Nat, key : Nat \cup {None}] /\ worker'.done = d /\ worker'.key = key
    BY <1>3, <2>1, <2>2
  <2>4. TypeInv'
    BY <1>1, <2>3 DEF TypeInv
  <2>5. OrderInv'
    <3>1. Checking' = Checking
      BY <1>1 DEF Checking
    <3> QED BY <1>1, <2>2, <2>3, <3>1 DEF OrderInv, Told, At, Read, Last
  <2> QED BY <2>4, <2>5
<1> QED BY <1>4, <1>5

LEMMA SaveMirroredKeeps ==
  ASSUME TypeInv, OrderInv, SaveMirrored
  PROVE  TypeInv' /\ OrderInv'
<1> DEFINE d == worker.done
           e == chain[d + 1]
           row == Row(e, StatusOf(e))
<1>1. /\ UNCHANGED <<request, settings, accepted, banners, chain, token, started>>
      /\ worker.key # None /\ offers' = Saved(worker.key, row)
      /\ worker' = [done |-> d + 1, key |-> None] /\ suspects' = SecondRow(worker.key)
  BY DEF SaveMirrored, money, files
<1>2. worker.key \in Nat /\ worker.key <= Len(offers) /\ d < Len(chain)
  BY <1>1 DEF OrderInv, TypeInv
<1>3. d \in Nat /\ Len(chain) \in Nat /\ Len(offers) \in Nat /\ d + 1 \in 1 .. Len(chain) /\ e \in Events
  BY <1>2, OrderTypes
<1>4. row \in Rows
  BY <1>3 DEF Row, Rows, Events, StatusOf, Statuses
<1> HIDE DEF row
<1>5. /\ offers' \in Seq(Rows) /\ Len(offers') \in Nat /\ Len(offers) <= Len(offers')
      /\ offers' # <<>> /\ suspects \subseteq suspects'
      /\ "order" \notin suspects' /\ Len(offers) <= 1 => Len(offers') = 1 /\ offers'[1] = row
  BY <1>1, <1>2, <1>4, SavedFacts
<1>6. TypeInv'
  BY <1>1, <1>3, <1>5 DEF TypeInv
<1>7. worker'.done = d + 1 /\ worker'.key = None /\ None \notin Nat
  BY <1>1, NullsAreNoNumbers
<1>8. "order" \notin suspects' =>
        /\ Len(offers') <= 1 /\ "order" \notin suspects
        /\ \E j \in 1 .. Len(chain) : j >= d + 1 /\ Told(j)'
  <2>1. ASSUME "order" \notin suspects' PROVE "order" \notin suspects
    BY <1>5, <2>1
  <2>2. ASSUME "order" \notin suspects' PROVE Len(offers') = 1 /\ offers'[1] = row
    <3>1. Len(offers) <= 1
      BY <2>1, <2>2 DEF OrderInv
    <3> QED BY <1>5, <2>2, <3>1
  <2>3. PICK j : j = d + 1
    OBVIOUS
  <2>4. "order" \notin suspects' => Told(j)'
    BY <1>1, <2>2, <2>3 DEF Told, row, Row, StatusOf
  <2>5. j \in 1 .. Len(chain) /\ j >= d + 1
    BY <1>3, <2>3
  <2>6. "order" \notin suspects' => \E i \in 1 .. Len(chain) : i >= d + 1 /\ Told(i)'
    <3> HIDE DEF d
    <3> QED BY <2>4, <2>5
  <2>7. "order" \notin suspects' => Len(offers') <= 1
    BY <2>2
  <2> QED BY <2>1, <2>6, <2>7
<1>9. Checking' = Checking
  BY <1>1 DEF Checking
<1>10. \A r \in Requests : /\ r \in Checking => Read(r) \in 1 .. Len(chain)
                           /\ request[r].at \in {"find_offer", "save_offer"} => request[r].with \in Statuses
                           /\ At(r, "save_offer") => request[r].no <= Len(offers')
  <2>1. \A r \in Requests : request[r].no \in Nat
    BY DEF TypeInv, Tasks
  <2> QED BY <1>3, <1>5, <2>1 DEF OrderInv
<1>11. d + 1 <= Len(chain)
  BY <1>3
<1> QED BY <1>1, <1>5, <1>6, <1>7, <1>8, <1>9, <1>10, <1>11 DEF OrderInv, At, Read, Last

\* What two fields of a request are set to at once.
LEMMA TwoFields ==
  ASSUME TypeInv, NEW r \in Requests, NEW step \in OrderSteps,
         NEW with \in Fees \cup {None} \cup Statuses, NEW no \in Nat
  PROVE  /\ request' = [request EXCEPT ![r].at = step, ![r].with = with] =>
              /\ request' \in [Requests -> Tasks]
              /\ request'[r].at = step /\ request'[r].with = with
              /\ request'[r].read = request[r].read
              /\ \A q \in Requests \ {r} : request'[q] = request[q]
         /\ request' = [request EXCEPT ![r].at = step, ![r].no = no] =>
              /\ request' \in [Requests -> Tasks]
              /\ request'[r].at = step /\ request'[r].no = no
              /\ request'[r].read = request[r].read /\ request'[r].with = request[r].with
              /\ \A q \in Requests \ {r} : request'[q] = request[q]
<1> DEFINE t == request[r]
           t1 == [t EXCEPT !.at = step]
           t2 == [t1 EXCEPT !.with = with]
           t3 == [t1 EXCEPT !.no = no]
<1>1. t \in Tasks
  BY DEF TypeInv
<1>2. t1 \in Tasks /\ t1.at = step /\ t1.read = t.read /\ t1.with = t.with
  BY <1>1 DEF Tasks
<1>3. t2 \in Tasks /\ t2.at = step /\ t2.with = with /\ t2.read = t.read
  BY <1>1 DEF Tasks
<1>4. t3 \in Tasks /\ t3.at = step /\ t3.no = no /\ t3.read = t.read /\ t3.with = t.with
  BY <1>1 DEF Tasks
<1>5. ASSUME request' = [request EXCEPT ![r].at = step, ![r].with = with]
      PROVE  request' = [request EXCEPT ![r] = t2]
  BY <1>5 DEF TypeInv
<1>6. ASSUME request' = [request EXCEPT ![r].at = step, ![r].no = no]
      PROVE  request' = [request EXCEPT ![r] = t3]
  BY <1>6 DEF TypeInv
<1> HIDE DEF t1, t2, t3
<1>7. ASSUME request' = [request EXCEPT ![r] = t2]
      PROVE  /\ request' \in [Requests -> Tasks] /\ request'[r] = t2
             /\ \A q \in Requests \ {r} : request'[q] = request[q]
  BY <1>3, <1>7 DEF TypeInv
<1>8. ASSUME request' = [request EXCEPT ![r] = t3]
      PROVE  /\ request' \in [Requests -> Tasks] /\ request'[r] = t3
             /\ \A q \in Requests \ {r} : request'[q] = request[q]
  BY <1>4, <1>8 DEF TypeInv
<1> QED BY <1>3, <1>4, <1>5, <1>6, <1>7, <1>8

LEMMA StartCheckKeeps ==
  ASSUME TypeInv, OrderInv, NEW r \in Requests, CheckApproved(r)
  PROVE  TypeInv' /\ OrderInv' /\ Moves(r, OrderSteps)
<1> DEFINE t == [op |-> "checkApproved", at |-> "submit", on |-> "order", no |-> started + 1,
                 with |-> None, read |-> None]
<1>1. t \in Tasks
  BY DEF TypeInv, Tasks, OrderSteps
<1>2. /\ request' \in [Requests -> Tasks] /\ started' \in Nat /\ request[r] = Idle
      /\ request'[r] = t /\ \A q \in Requests \ {r} : request'[q] = request[q]
  BY <1>1, StartTask DEF CheckApproved
<1>3. t.at = "submit" /\ "submit" \in OrderSteps
  BY DEF OrderSteps
<1> HIDE DEF t
<1>4. UNCHANGED <<settings, accepted, banners, chain, offers, worker, market, suspects>>
  BY DEF CheckApproved, money, files, market
<1>5. TypeInv' /\ Moves(r, OrderSteps)
  BY <1>2, <1>3, <1>4, IdleTask DEF TypeInv, Moves
<1>6. \A q \in Requests : OrderAside(q)
  BY <1>2, <1>3 DEF OrderAside
<1> QED BY <1>4, <1>5, <1>6, OrderFrame

LEMMA EndCheckKeeps ==
  ASSUME TypeInv, OrderInv, NEW r \in Requests, End(r), request[r].at \in OrderSteps,
         UNCHANGED <<settings, accepted, banners, market, started, suspects>>
  PROVE  TypeInv' /\ OrderInv' /\ Moves(r, OrderSteps)
<1>1. /\ request' \in [Requests -> Tasks] /\ request'[r] = Idle
      /\ \A q \in Requests \ {r} : request'[q] = request[q]
  BY EndTask
<1>2. TypeInv' /\ Moves(r, OrderSteps)
  BY <1>1, IdleTask DEF market, TypeInv, Moves
<1>3. \A q \in Requests : OrderAside(q)
  BY <1>1, IdleTask DEF OrderAside
<1> QED BY <1>2, <1>3, OrderFrame

\* The transaction of a check adds the last event.
LEMMA SubmitCheckKeeps ==
  ASSUME TypeInv, OrderInv, NEW r \in Requests, SubmitCheck(r)
  PROVE  TypeInv' /\ OrderInv' /\ Moves(r, OrderSteps)
<1>1. At(r, "submit") /\ request[r].at \in OrderSteps /\ token' = token /\ started' = started
  BY DEF SubmitCheck, At, OrderSteps
<1>2. CASE ~Open
  <2>1. End(r) /\ UNCHANGED <<settings, accepted, banners, market, started, suspects>>
    BY <1>1, <1>2 DEF SubmitCheck, money, files, market
  <2> QED BY <1>1, <2>1, EndCheckKeeps
<1>3. CASE Open
  <2>1. /\ chain # <<>> /\ Last \in Events /\ Last.left = 1 /\ Len(chain) + 1 \in Nat
        /\ Len(chain) \in Nat
    BY <1>3, OrderTypes DEF Open, Last, Events
  <2>2. PICK name \in {"TokenIsApproved", "TokenRevoke"}, left \in {0, 1} :
          /\ name = (IF token = "approved" THEN "TokenIsApproved" ELSE "TokenRevoke")
          /\ left = (IF token = "approved" THEN 1 ELSE 0)
          /\ Emit(name, Last.price, left)
          /\ Goto(r, "ask_owner", Len(chain) + 1)
    BY <1>3 DEF SubmitCheck
  <2>3. [name |-> name, price |-> Last.price, left |-> left] \in Events
    BY <2>1 DEF Events
  <2>4. "ask_owner" \in OrderSteps
    BY DEF OrderSteps
  <2>5. /\ request' \in [Requests -> Tasks]
        /\ request'[r].at = "ask_owner" /\ request'[r].read = Len(chain) + 1
        /\ \A q \in Requests \ {r} : request'[q] = request[q]
    BY <2>1, <2>2, <2>4, GotoTask
  <2>6. UNCHANGED <<settings, accepted, banners, offers, worker>>
    BY <2>2 DEF Emit, money, files
  <2>7. chain' \in Seq(Events)
    BY <2>2, <2>3, EmitFacts
  <2>8. TypeInv' /\ Moves(r, OrderSteps)
    BY <1>1, <2>4, <2>5, <2>6, <2>7 DEF TypeInv, Moves
  <2>9. \A q \in Requests : OrderAside(q) \/ JustAsked(q, name, left)
    BY <1>1, <2>2, <2>5 DEF OrderAside, JustAsked, Read
  <2>10. OrderInv'
    BY <2>1, <2>2, <2>3, <2>9, EmitKeepsOrder
  <2> QED BY <2>8, <2>10
<1> QED BY <1>2, <1>3

\* A check goes on, with nothing written.
LEMMA CheckGoesOn ==
  ASSUME TypeInv, OrderInv, NEW r \in Requests, r \in Checking, request' \in [Requests -> Tasks],
         request'[r].at \in {"find_offer", "save_offer"}, request'[r].read = request[r].read,
         \A q \in Requests \ {r} : request'[q] = request[q],
         UNCHANGED <<settings, accepted, banners, market, started, suspects>>,
         request'[r].with \in Statuses,
         "order" \notin suspects => request'[r].with = StatusOf(Last),
         At(r, "save_offer")' => request'[r].no <= Len(offers)
  PROVE  TypeInv' /\ OrderInv' /\ Moves(r, OrderSteps)
<1>1. chain' = chain /\ token' = token /\ offers' = offers /\ worker' = worker
  BY DEF market
<1>2. TypeInv'
  BY <1>1 DEF TypeInv
<1>3. Moves(r, OrderSteps)
  BY DEF Moves, Checking, OrderSteps
<1>4. Checking' = Checking
  BY DEF Checking
<1>5. ASSUME NEW q \in Requests
      PROVE  /\ q \in Checking => Read(q)' \in 1 .. Len(chain)
             /\ request'[q].at \in {"find_offer", "save_offer"} => request'[q].with \in Statuses
             /\ At(q, "save_offer")' => request'[q].no <= Len(offers)
  BY DEF OrderInv, At, Read
<1>6. ASSUME "order" \notin suspects, NEW q \in Checking
      PROVE  /\ Read(q)' = Len(chain)
             /\ Last.name \in {"TokenIsApproved", "TokenRevoke"}
             /\ IF Last.name = "TokenRevoke" THEN Last.left = 0 ELSE token = "approved"
             /\ ~At(q, "ask_owner")' => request'[q].with = StatusOf(Last)
  <2>1. q \in Requests
    BY DEF Checking
  <2> QED BY <1>6, <2>1 DEF OrderInv, At, Read
<1>7. /\ Last' = Last
      /\ \A j \in 1 .. Len(chain) : Told(j)' = Told(j)
  BY <1>1 DEF Last, Told
<1> QED BY <1>1, <1>2, <1>3, <1>4, <1>5, <1>6, <1>7 DEF OrderInv

LEMMA AskOwnerKeeps ==
  ASSUME TypeInv, OrderInv, NEW r \in Requests, AskOwner(r)
  PROVE  TypeInv' /\ OrderInv' /\ Moves(r, OrderSteps)
<1> DEFINE with == StatusAfter(chain[Read(r)].name, token # "away")
<1>1. /\ At(r, "ask_owner") /\ r \in Checking
      /\ request' = [request EXCEPT ![r].at = "find_offer", ![r].with = with]
      /\ UNCHANGED <<settings, accepted, banners, market, started, suspects>>
  BY DEF AskOwner, money, files, At, Checking
<1>2. with \in Statuses
  BY DEF StatusAfter, Statuses
<1>3. ASSUME "order" \notin suspects PROVE with = StatusOf(Last)
  <2>1. /\ Read(r) = Len(chain) /\ Last.name \in {"TokenIsApproved", "TokenRevoke"}
        /\ IF Last.name = "TokenRevoke" THEN Last.left = 0 ELSE token = "approved"
    BY <1>1, <1>3 DEF OrderInv
  <2>2. Len(chain) \in 1 .. Len(chain)
    BY <1>1, <2>1 DEF OrderInv
  <2>3. Last = chain[Len(chain)] /\ (Last.name = "TokenIsApproved" => Last.left = 1)
    BY <2>2 DEF Last, OrderInv
  <2> QED BY <2>1, <2>3 DEF StatusAfter, StatusOf
<1>4. "find_offer" \in OrderSteps
  BY DEF OrderSteps
<1> HIDE DEF with
<1>5. /\ request' \in [Requests -> Tasks]
      /\ request'[r].at = "find_offer" /\ request'[r].with = with
      /\ request'[r].read = request[r].read
      /\ \A q \in Requests \ {r} : request'[q] = request[q]
  BY <1>1, <1>2, <1>4, TwoFields
<1> QED BY <1>1, <1>2, <1>3, <1>5, CheckGoesOn DEF At

LEMMA FindOfferKeeps ==
  ASSUME TypeInv, OrderInv, NEW r \in Requests, FindOffer(r)
  PROVE  TypeInv' /\ OrderInv' /\ Moves(r, OrderSteps)
<1>1. /\ At(r, "find_offer") /\ r \in Checking /\ request[r].at \in OrderSteps
      /\ UNCHANGED <<settings, accepted, banners, market, started, suspects>>
  BY DEF FindOffer, money, files, At, Checking, OrderSteps
<1>2. CASE End(r)
  BY <1>1, <1>2, EndCheckKeeps
<1>3. ASSUME NEW key \in Found(chain[Read(r)].left),
             request' = [request EXCEPT ![r].at = "save_offer", ![r].no = key]
      PROVE  TypeInv' /\ OrderInv' /\ Moves(r, OrderSteps)
  <2>1. key \in Nat /\ key <= Len(offers) /\ "save_offer" \in OrderSteps
    BY FoundFacts DEF OrderSteps
  <2>2. /\ request' \in [Requests -> Tasks]
        /\ request'[r].at = "save_offer" /\ request'[r].no = key
        /\ request'[r].read = request[r].read /\ request'[r].with = request[r].with
        /\ \A q \in Requests \ {r} : request'[q] = request[q]
    BY <1>3, <2>1, TwoFields
  <2>3. /\ request[r].with \in Statuses
        /\ "order" \notin suspects => request[r].with = StatusOf(Last)
    BY <1>1 DEF OrderInv, At
  <2> QED BY <1>1, <2>1, <2>2, <2>3, CheckGoesOn
<1> QED BY <1>2, <1>3 DEF FindOffer

\* What a check that is no suspect writes is the last event as the escrow will.
LEMMA SaveOfferKeeps ==
  ASSUME TypeInv, OrderInv, NEW r \in Requests, SaveOffer(r)
  PROVE  TypeInv' /\ OrderInv' /\ Moves(r, OrderSteps)
<1> DEFINE key == request[r].no
           row == Row(chain[Read(r)], request[r].with)
<1>1. /\ At(r, "save_offer") /\ r \in Checking /\ request[r].at \in OrderSteps /\ End(r)
      /\ offers' = Saved(key, row) /\ suspects' = SecondRow(key)
      /\ UNCHANGED <<settings, accepted, banners, chain, token, worker, started>>
  BY DEF SaveOffer, money, files, At, Checking, OrderSteps
<1>2. /\ key \in Nat /\ key <= Len(offers) /\ request[r].with \in Statuses
      /\ Read(r) \in 1 .. Len(chain)
  BY <1>1 DEF OrderInv, TypeInv, Tasks, At
<1>3. row \in Rows
  BY <1>2, OrderTypes DEF Row, Rows, Events
<1>4. /\ offers' \in Seq(Rows) /\ Len(offers') \in Nat /\ Len(offers) <= Len(offers')
      /\ offers' # <<>> /\ suspects \subseteq suspects'
      /\ "order" \notin suspects' /\ Len(offers) <= 1 => Len(offers') = 1 /\ offers'[1] = row
  <2> HIDE DEF key, row
  <2> QED BY <1>1, <1>2, <1>3, SavedFacts
<1>5. /\ request' \in [Requests -> Tasks] /\ request'[r] = Idle
      /\ \A q \in Requests \ {r} : request'[q] = request[q]
  BY <1>1, EndTask
<1>6. TypeInv'
  BY <1>1, <1>4, <1>5 DEF TypeInv
<1>7. Moves(r, OrderSteps)
  BY <1>1, <1>5, IdleTask DEF Moves
<1>8. ASSUME "order" \notin suspects'
      PROVE  /\ "order" \notin suspects /\ Len(offers') = 1
             /\ Len(chain) \in 1 .. Len(chain) /\ Len(chain) >= worker.done
             /\ offers'[1] = Row(chain[Len(chain)], StatusOf(chain[Len(chain)]))
  <2>1. "order" \notin suspects
    BY <1>4, <1>8
  <2>2. Len(offers) <= 1 /\ Read(r) = Len(chain) /\ request[r].with = StatusOf(Last)
    BY <1>1, <2>1 DEF OrderInv, At
  <2>3. worker.done <= Len(chain) /\ worker.done \in Nat /\ Len(chain) \in Nat
    BY OrderTypes DEF OrderInv
  <2>4. Len(offers') = 1 /\ offers'[1] = row
    BY <1>4, <1>8, <2>2
  <2> QED BY <1>2, <2>1, <2>2, <2>3, <2>4 DEF Last
<1>9. Checking' \subseteq Checking /\ \A q \in Checking' : q # r /\ request'[q] = request[q]
  BY <1>5, IdleTask DEF Checking
<1>10. ASSUME NEW q \in Requests
       PROVE  /\ q \in Checking' => Read(q)' \in 1 .. Len(chain)
              /\ request'[q].at \in {"find_offer", "save_offer"} => request'[q].with \in Statuses
              /\ At(q, "save_offer")' => request'[q].no <= Len(offers')
  <2>1. request[q].no \in Nat /\ Len(offers) \in Nat
    BY OrderTypes DEF TypeInv, Tasks
  <2>2. CASE q = r
    BY <1>5, <1>9, <2>2, IdleTask DEF At
  <2>3. CASE q # r
    <3>1. request'[q] = request[q]
      BY <1>5, <2>3
    <3>2. q \in Checking' => q \in Checking
      BY <1>9
    <3>3. At(q, "save_offer") => request[q].no <= Len(offers)
      BY DEF OrderInv
    <3>4. At(q, "save_offer") => request[q].no <= Len(offers')
      BY <1>4, <2>1, <3>3
    <3> QED BY <3>1, <3>2, <3>4 DEF OrderInv, At, Read
  <2> QED BY <2>2, <2>3
<1>11. ASSUME "order" \notin suspects', NEW q \in Checking'
       PROVE  /\ Read(q)' = Len(chain)
              /\ Last.name \in {"TokenIsApproved", "TokenRevoke"}
              /\ IF Last.name = "TokenRevoke" THEN Last.left = 0 ELSE token = "approved"
              /\ ~At(q, "ask_owner")' => request'[q].with = StatusOf(Last)
  <2>1. q \in Checking /\ request'[q] = request[q] /\ "order" \notin suspects
    BY <1>8, <1>9, <1>11
  <2> QED BY <2>1 DEF OrderInv, At, Read
<1>12. "order" \notin suspects' => \E j \in 1 .. Len(chain) : j >= worker.done /\ Told(j)'
  <2>1. PICK n : n = Len(chain)
    OBVIOUS
  <2>2. "order" \notin suspects' => n \in 1 .. Len(chain) /\ n >= worker.done /\ Told(n)'
    BY <1>1, <1>8, <2>1 DEF Told, Row, StatusOf
  <2> QED BY <2>2
<1>13. worker.key \in Nat => worker.key <= Len(offers')
  <2>1. Len(offers) \in Nat
    BY OrderTypes
  <2> QED BY <1>4, <2>1 DEF OrderInv
<1>14. "order" \notin suspects' => Len(offers') <= 1
  <2>1. \A n \in Nat : n = 1 => n <= 1
    OBVIOUS
  <2>2. "order" \notin suspects' => Len(offers') = 1
    BY <1>8
  <2> HIDE DEF key, row
  <2> QED BY <1>4, <2>1, <2>2
<1> HIDE DEF key, row
<1> QED BY <1>1, <1>4, <1>6, <1>7, <1>10, <1>11, <1>12, <1>13, <1>14 DEF OrderInv, Last

\* Nothing that a check does concerns currencies or files.
LEMMA CheckKeeps ==
  ASSUME TypeInv, MoneyInv, FilesInv, OrderInv, NEW r \in Requests, Check(r)
  PROVE  TypeInv' /\ MoneyInv' /\ FilesInv' /\ OrderInv'
<1>1. TypeInv' /\ OrderInv' /\ Moves(r, OrderSteps)
  BY StartCheckKeeps, SubmitCheckKeeps, AskOwnerKeeps, FindOfferKeeps, SaveOfferKeeps DEF Check
<1>2. /\ UNCHANGED <<money, files>> /\ suspects \subseteq suspects'
      /\ started' = started \/ started' = started + 1
  BY DEF Check, CheckApproved, SubmitCheck, AskOwner, FindOffer, SaveOffer, Emit, Start, Suspected, SecondRow
<1>3. started' \in Nat /\ started <= started'
  BY <1>2 DEF TypeInv
<1>4. ASSUME NEW q \in Requests PROVE MoneyAside(q) /\ FilesAside(q)
  <2>1. CASE q = r
    BY <1>1, <2>1, StepKinds DEF Moves, MoneyAside, FilesAside, At, MoneySteps
  <2>2. CASE q # r
    BY <1>1, <2>2 DEF Moves, MoneyAside, FilesAside
  <2> QED BY <2>1, <2>2
<1> QED BY <1>1, <1>2, <1>3, <1>4, MoneyFrame, FilesFrame

-----------------------------------------------------------------------------
(* Steps of the order, and failures.                                       *)

\* The order's steps leave the requests alone.
LEMMA OrderStepsKeep ==
  ASSUME TypeInv, MoneyInv, FilesInv, OrderInv, Order \/ MoveToken \/ FindMirrored \/ SaveMirrored
  PROVE  TypeInv' /\ MoneyInv' /\ FilesInv' /\ OrderInv'
<1>1. TypeInv' /\ OrderInv'
  BY OrderKeeps, MoveTokenKeeps, FindMirroredKeeps, SaveMirroredKeeps
<1>2. UNCHANGED <<request, money, files, started>> /\ suspects \subseteq suspects'
  BY DEF Order, Emit, MoveToken, FindMirrored, SaveMirrored, Suspected, SecondRow
<1>3. \A r \in Requests : MoneyAside(r) /\ FilesAside(r)
  BY <1>2 DEF MoneyAside, FilesAside
<1>4. started' \in Nat /\ started <= started'
  BY <1>2 DEF TypeInv
<1> QED BY <1>1, <1>2, <1>3, <1>4, MoneyFrame, FilesFrame

\* A request that fails leaves everything as it is, and says what it was about.
LEMMA FailKeeps ==
  ASSUME TypeInv, MoneyInv, FilesInv, OrderInv, NEW r \in Requests, Fail(r)
  PROVE  TypeInv' /\ MoneyInv' /\ FilesInv' /\ OrderInv'
<1>1. /\ request' \in [Requests -> Tasks] /\ request'[r] = Idle
      /\ \A q \in Requests \ {r} : request'[q] = request[q]
  BY EndTask DEF Fail
<1>2. UNCHANGED <<money, files, market, started>> /\ suspects \subseteq suspects'
  BY DEF Fail
<1>3. TypeInv'
  BY <1>1, <1>2 DEF TypeInv, money, files, market
<1>4. At(r, "call") => On(r) \in suspects'
  <2>1. At(r, "call") => On(r) \in Currencies
    BY DEF MoneyInv, MoneySteps, At
  <2> QED BY <2>1, RestInputs DEF Fail, At
<1>5. Filing(r) => On(r) \in suspects'
  <2>1. Filing(r) => On(r) \in Banners /\ ~At(r, "read_settings")
    BY DEF FilesInv, FileNamesInv, FileTaskOK, Filing, FileSteps, At
  <2> QED BY <2>1, RestInputs DEF Fail
<1>6. ASSUME NEW q \in Requests PROVE MoneyAside(q) /\ FilesAside(q) /\ OrderAside(q)
  <2>1. CASE q = r
    BY <1>1, <1>4, <1>5, <2>1, IdleTask, StepKinds DEF MoneyAside, FilesAside, OrderAside, Filing
  <2>2. CASE q # r
    BY <1>1, <2>2 DEF MoneyAside, FilesAside, OrderAside
  <2> QED BY <2>1, <2>2
<1>7. started' \in Nat /\ started <= started'
  BY <1>2 DEF TypeInv
<1> QED BY <1>2, <1>3, <1>6, <1>7, MoneyFrame, FilesFrame, OrderFrame

-----------------------------------------------------------------------------
(* The theorems.                                                           *)

IndInv == TypeInv /\ MoneyInv /\ FilesInv /\ OrderInv

LEMMA InitIsInvariant == Init => IndInv
<1> SUFFICES ASSUME Init PROVE IndInv
  OBVIOUS
<1>1. /\ \A r \in Requests : request[r] = Idle
      /\ Checking = {} /\ \A r \in Requests : ~Filing(r)
  BY DEF Init, Idle, Checking, Filing, FileSteps
<1>2. Idle \in Tasks
  BY DEF Idle, Tasks
<1>3. <<>> \in Seq(Events) /\ <<>> \in Seq(Rows) /\ Len(chain) = 0 /\ Len(offers) = 0
  BY DEF Init
<1>4. TypeInv
  BY <1>2, <1>3 DEF Init, TypeInv, FeeLists
<1>5. MoneyInv
  BY <1>1, IdleTask DEF Init, MoneyInv, At, MoneySteps
<1>6. FilesInv
  BY <1>1, NullsAreNoNumbers DEF Init, FilesInv, FileNamesInv, BannersHaveTheirFiles
<1>7. OrderInv
  BY <1>1, <1>3, RestInputs, IdleTask DEF Init, OrderInv, At
<1> QED BY <1>4, <1>5, <1>6, <1>7 DEF IndInv

LEMMA NextKeepsInvariant == IndInv /\ [Next]_vars => IndInv'
<1> SUFFICES ASSUME IndInv, [Next]_vars PROVE IndInv'
  OBVIOUS
<1>1. ASSUME NEW r \in Requests, Currency(r) PROVE IndInv'
  BY <1>1, CurrencyKeeps DEF IndInv
<1>2. ASSUME NEW r \in Requests, Banner(r) PROVE IndInv'
  BY <1>2, BannerKeeps DEF IndInv
<1>3. ASSUME NEW r \in Requests, Check(r) PROVE IndInv'
  BY <1>3, CheckKeeps DEF IndInv
<1>4. ASSUME NEW r \in Requests, Fail(r) PROVE IndInv'
  BY <1>4, FailKeeps DEF IndInv
<1>5. CASE Order \/ MoveToken \/ FindMirrored \/ SaveMirrored
  BY <1>5, OrderStepsKeep DEF IndInv
<1>6. CASE UNCHANGED vars
  <2>1. UNCHANGED <<request, money, files, market, suspects, started>>
    BY <1>6 DEF vars
  <2>2. TypeInv'
    BY <2>1 DEF IndInv, TypeInv, money, files, market
  <2>3. \A r \in Requests : MoneyAside(r) /\ FilesAside(r) /\ OrderAside(r)
    BY <2>1 DEF MoneyAside, FilesAside, OrderAside
  <2>4. started' \in Nat /\ started <= started'
    BY <2>1 DEF IndInv, TypeInv
  <2> QED BY <2>1, <2>2, <2>3, <2>4, MoneyFrame, FilesFrame, OrderFrame DEF IndInv
<1> QED BY <1>1, <1>2, <1>3, <1>4, <1>5, <1>6 DEF Next

LEMMA InvariantHolds == Spec => []IndInv
<1>1. Init => IndInv
  BY InitIsInvariant
<1>2. IndInv /\ [Next]_vars => IndInv'
  BY NextKeepsInvariant
<1> QED BY <1>1, <1>2, PTL DEF Spec

\* addCurrency and delCurrency, over any number of requests and currencies: when
\* none about a currency is under way, the settings show the fee that the contract
\* takes for it, or it is one that an error, a refusal or a race has made suspect.
THEOREM CurrenciesStayAgreed == Spec => []CurrenciesAgree
<1>1. IndInv => CurrenciesAgree
  <2> SUFFICES ASSUME MoneyInv, NEW c \in Currencies \ suspects, \A r \in Requests : On(r) # c
               PROVE  settings[c] = accepted[c]
    BY DEF IndInv, CurrenciesAgree
  <2> QED BY DEF MoneyInv
<1> QED BY <1>1, InvariantHolds, PTL

\* However many uploads, edits and deletions of banners overlap, the file that a
\* banner's row names is in the bucket, unless the request that took it out is
\* still under way or has failed.
THEOREM BannersKeepTheirFiles == Spec => []BannersHaveTheirFiles
<1>1. IndInv => BannersHaveTheirFiles
  BY DEF IndInv, FilesInv
<1> QED BY <1>1, InvariantHolds, PTL

\* However many checkApproved requests write the order's row ahead of the escrow, it
\* is one row and tells the order of the contract once the escrow has caught up,
\* unless something moved between a check's transaction and its write.
THEOREM MirrorSurvivesChecks == Spec => []ChecksKeepTheMirror
<1>1. IndInv => ChecksKeepTheMirror
  <2> SUFFICES ASSUME TypeInv, OrderInv, worker.done = Len(chain), "order" \notin suspects, chain # <<>>
               PROVE  Len(offers) = 1 /\ offers[1] = Row(Last, StatusOf(Last))
    BY DEF IndInv, ChecksKeepTheMirror
  <2>1. Len(chain) \in Nat \ {0} /\ Len(offers) \in Nat
    BY OrderTypes
  <2>2. offers # <<>> /\ Len(offers) <= 1
    BY <2>1 DEF OrderInv
  <2>3. Len(offers) = 1
    <3>1. \A n \in Nat : n # 0 /\ n <= 1 => n = 1
      OBVIOUS
    <3>2. Len(offers) # 0
      BY <2>2 DEF TypeInv
    <3> QED BY <2>1, <2>2, <3>1, <3>2
  <2>4. PICK j \in 1 .. Len(chain) : j >= Len(chain) /\ Told(j)
    BY <2>2 DEF OrderInv
  <2>5. j = Len(chain)
    BY <2>1, <2>4
  <2> QED BY <2>3, <2>4, <2>5 DEF Told, Last
<1> QED BY <1>1, InvariantHolds, PTL
=============================================================================
