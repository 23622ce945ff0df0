------------------------------ MODULE RestApp ------------------------------
(***************************************************************************)
(* The requests of the REST app (packages/market) that write: currencies   *)
(* and checkApproved of ContractsService, and the banners of               *)
(* BannersService.  Requests are served at the same time, and each step is *)
(* what one does up to its next await.  The contract, the chain and the    *)
(* file storage are external; the escrow worker mirrors the one order      *)
(* there is, an event at a time (ContractEvents has all of that).          *)
(***************************************************************************)
EXTENDS Integers, Sequences, FiniteSets

CONSTANTS
  Requests, Currencies, Fees, Banners, Prices,
  None, NoFile,
  MaxStarted, MaxEvents, MaxFailures   \* bounds

ASSUME RestInputs ==
  /\ Fees \subseteq Nat /\ Prices \subseteq Nat \ {0} /\ {None, NoFile} \cap Nat = {}
  /\ "order" \notin Currencies \cup Banners   \* what a check is about
  /\ {MaxStarted, MaxEvents, MaxFailures} \subseteq Nat

VARIABLES
  request,    \* request[r]: what it does and what it has read so far
  settings,   \* contract_currencies: the fee of each currency in the list
  accepted,   \* external: the fee of each currency of the contract
  banners,    \* rows of banners: minio_file
  bucket,     \* external: the files, named after the upload
  chain,      \* external: the order's events
  token,      \* external: the order's token, "approved", "held" or "away" from the seller
  offers,     \* rows of the order in offers
  worker,     \* the escrow: the events it has mirrored, and where it is in the next
  suspects,   \* history: what a race or an error of a request may have spoilt
  started, failures

money == <<settings, accepted>>
files == <<banners, bucket>>
market == <<chain, token, offers, worker>>
vars == <<request, money, files, market, suspects, started, failures>>

Idle == [op |-> "none", at |-> "idle", on |-> None, no |-> 0, with |-> None, read |-> None]
At(r, step) == request[r].at = step
On(r) == request[r].on
Read(r) == request[r].read
Others(r) == {q \in Requests \ {r} : request[q] # Idle}

Start(r, op, step, on, with, read) ==
  /\ request[r] = Idle /\ started < MaxStarted
  /\ started' = started + 1
  /\ request' = [request EXCEPT ![r] =
       [op |-> op, at |-> step, on |-> on, no |-> started + 1, with |-> with, read |-> read]]
Goto(r, step, read) == request' = [request EXCEPT ![r].at = step, ![r].read = read]
End(r) == request' = [request EXCEPT ![r] = Idle]

-----------------------------------------------------------------------------
(* addCurrency and delCurrency: the settings first, then the contract.     *)

\* addContractCurrency replaces the currency or adds it, removeContractCurrency
\* filters it out.  The mutant leaves the fee of one that is found.
MutChanged(list, op, c, fee) ==
  [list EXCEPT ![c] = IF op = "delCurrency" THEN None ELSE IF @ = None THEN fee ELSE @]
Changed(list, op, c, fee) == [list EXCEPT ![c] = IF op = "delCurrency" THEN None ELSE fee]

\* Two requests about one currency reach the settings and the contract each in
\* an order of its own.
StartCurrency(r, op, c, fee) ==
  /\ Start(r, op, "read_settings", c, fee, None)
  /\ suspects' = suspects \cup (IF \E q \in Others(r) : On(q) = c THEN {c} ELSE {})
  /\ UNCHANGED <<money, files, market, failures>>

\* Of two that read before either writes, the change of one is lost.
ReadCurrencies(r) ==
  LET overlap == {q \in Others(r) : At(q, "write_settings")}
  IN /\ At(r, "read_settings")
     /\ Goto(r, "write_settings", settings)
     /\ suspects' = suspects \cup {On(q) : q \in IF overlap = {} THEN {} ELSE overlap \cup {r}}
     /\ UNCHANGED <<money, files, market, started, failures>>

WriteCurrencies(r) ==
  /\ At(r, "write_settings")
  /\ settings' = Changed(Read(r), request[r].op, On(r), request[r].with)
  /\ Goto(r, "call", None)
  /\ UNCHANGED <<accepted, files, market, suspects, started, failures>>

\* currencyCall: the contract refuses a fee above 100 percent, which the request
\* is told nothing of.
Refused(r) == request[r].op = "addCurrency" /\ request[r].with > 100
CurrencyCall(r) ==
  /\ At(r, "call")
  /\ accepted' = IF Refused(r) THEN accepted
                 ELSE [accepted EXCEPT ![On(r)] =
                         IF request[r].op = "delCurrency" THEN None ELSE request[r].with]
  /\ suspects' = suspects \cup (IF Refused(r) THEN {On(r)} ELSE {})
  /\ End(r)
  /\ UNCHANGED <<settings, files, market, started, failures>>

-----------------------------------------------------------------------------
(* Banners.  An edit without a file leaves minio_file and the bucket alone.*)

CreateBanner(r, b) ==
  /\ banners[b] = None /\ b \notin {On(q) : q \in Others(r)}
  /\ Start(r, "create", "put", b, None, None)
  /\ banners' = [banners EXCEPT ![b] = NoFile]
  /\ UNCHANGED <<money, bucket, market, suspects, failures>>

\* The row is found, its other columns are written.
EditBanner(r, b) ==
  /\ banners[b] # None
  /\ Start(r, "edit", "read_again", b, None, None)
  /\ UNCHANGED <<money, files, market, suspects, failures>>

\* Of a row that is gone there is no minioFile to ask for, and the request fails.
ReadAgain(r) ==
  /\ At(r, "read_again")
  /\ IF banners[On(r)] = None THEN End(r)
     ELSE Goto(r, IF banners[On(r)] = NoFile THEN "put" ELSE "remove", banners[On(r)])
  /\ UNCHANGED <<money, files, market, suspects, started, failures>>

DeleteBanner(r, b) ==
  /\ banners[b] # None
  /\ Start(r, "delete", "remove", b, None, banners[b])
  /\ UNCHANGED <<money, files, market, suspects, failures>>

\* The storage refuses a name that is empty: a banner whose file never came
\* cannot be deleted.
RemoveObject(r) ==
  /\ At(r, "remove")
  /\ bucket' = bucket \ {Read(r)}
  /\ IF Read(r) = NoFile THEN End(r)
     ELSE Goto(r, IF request[r].op = "delete" THEN "delete_row" ELSE "put", Read(r))
  /\ UNCHANGED <<money, banners, market, suspects, started, failures>>

\* uploadFile: the file, then its name in the row, if that is still there.
PutObject(r) ==
  /\ At(r, "put")
  /\ bucket' = bucket \cup {request[r].no}
  /\ Goto(r, "link", Read(r))
  /\ UNCHANGED <<money, banners, market, suspects, started, failures>>

\* The mutant names a row's first file only.
MutLinked(file, no) == IF file = NoFile THEN no ELSE file
Linked(file, no) == IF file = None THEN None ELSE no
LinkFile(r) ==
  /\ At(r, "link")
  /\ banners' = [banners EXCEPT ![On(r)] = Linked(@, request[r].no)]
  /\ End(r)
  /\ UNCHANGED <<money, bucket, market, suspects, started, failures>>

DeleteRow(r) ==
  /\ At(r, "delete_row")
  /\ banners' = [banners EXCEPT ![On(r)] = None]
  /\ End(r)
  /\ UNCHANGED <<money, bucket, market, suspects, started, failures>>

-----------------------------------------------------------------------------
(* The order on the chain, and the escrow that mirrors it.                 *)

Last == chain[Len(chain)]
Open == chain # <<>> /\ Last.left > 0
Row(e, status) == [price |-> e.price, amount |-> e.left, status |-> status]

\* Checks that have their event, and have not written it yet.
Checking == {r \in Requests : request[r].at \in {"ask_owner", "find_offer", "save_offer"}}
Suspected == suspects \cup (IF Checking # {} THEN {"order"} ELSE {})

Emit(name, price, left) ==
  /\ Len(chain) < MaxEvents
  /\ chain' = Append(chain, [name |-> name, price |-> price, left |-> left])
  /\ suspects' = Suspected
  /\ UNCHANGED <<money, files, offers, worker, failures>>

Order ==
  /\ \/ chain = <<>> /\ token # "away" /\ (\E p \in Prices : Emit("TokenIsUpForSale", p, 1)) /\ UNCHANGED token
     \/ Open /\ (\E p \in Prices : Emit("TokenPriceChanged", p, 1)) /\ UNCHANGED token
     \/ Open /\ Emit("TokenRevoke", Last.price, 0) /\ UNCHANGED token
     \/ Open /\ token = "approved" /\ Emit("TokenIsPurchased", Last.price, 0) /\ token' = "away"
  /\ UNCHANGED <<request, started>>

\* The seller and later owners approve the contract, take that back, give it away.
MoveToken ==
  /\ token' \in {"approved", "held", "away"} \ {token}
  /\ token = "away" => token' # "approved"
  /\ suspects' = Suspected
  /\ UNCHANGED <<request, money, files, chain, offers, worker, started, failures>>

StatusOf(e) ==
  IF e.left > 0 THEN "Opened"
  ELSE IF e.name = "TokenIsPurchased" THEN "Completed" ELSE "Canceled"

\* OfferService.update, of the escrow and of checkApproved: look for the row, then
\* insert or update it.  An order that is over is not inserted.
Found(left) == IF offers # <<>> THEN 1 .. Len(offers) ELSE IF left = 0 THEN {} ELSE {0}
Saved(key, row) == IF key = 0 THEN Append(offers, row) ELSE [offers EXCEPT ![key] = row]
SecondRow(key) == suspects \cup (IF key = 0 /\ offers # <<>> THEN {"order"} ELSE {})

FindMirrored ==
  LET e == chain[worker.done + 1]
      keys == IF e.name = "TokenIsApproved" THEN {} ELSE Found(e.left)
  IN /\ worker.done < Len(chain) /\ worker.key = None
     /\ IF keys = {} THEN worker' = [worker EXCEPT !.done = @ + 1]
        ELSE \E key \in keys : worker' = [worker EXCEPT !.key = key]
     /\ UNCHANGED <<request, money, files, chain, token, offers, suspects, started, failures>>

SaveMirrored ==
  LET e == chain[worker.done + 1]
  IN /\ worker.key # None
     /\ offers' = Saved(worker.key, Row(e, StatusOf(e)))
     /\ worker' = [done |-> worker.done + 1, key |-> None]
     /\ suspects' = SecondRow(worker.key)
     /\ UNCHANGED <<request, money, files, chain, token, started, failures>>

-----------------------------------------------------------------------------
(* checkApproved.                                                          *)

\* contract.call: the contract knows of no other order.
CheckApproved(r) ==
  /\ Open
  /\ Start(r, "checkApproved", "submit", "order", None, None)
  /\ UNCHANGED <<money, files, market, suspects, failures>>

\* submitWaitResult: of an order that is over by now there is no result.
SubmitCheck(r) ==
  /\ At(r, "submit")
  /\ IF ~Open THEN End(r) /\ UNCHANGED <<money, files, offers, worker, chain, suspects, failures>>
     ELSE LET approved == token = "approved"
              name == IF approved THEN "TokenIsApproved" ELSE "TokenRevoke"
          IN /\ Emit(name, Last.price, IF approved THEN 1 ELSE 0)
             /\ Goto(r, "ask_owner", Len(chain) + 1)
  /\ UNCHANGED <<token, started>>

\* One mutant looks at the owner alone, the other takes the name for the status.
MutStatusIsName(name, sellerIsOwner) == name
MutStatusAfter(name, sellerIsOwner) == IF sellerIsOwner THEN "Opened" ELSE "Canceled"
StatusAfter(name, sellerIsOwner) ==
  IF name = "TokenRevoke" \/ ~sellerIsOwner THEN "Canceled" ELSE "Opened"

AskOwner(r) ==
  /\ At(r, "ask_owner")
  /\ request' = [request EXCEPT ![r].at = "find_offer",
                   ![r].with = StatusAfter(chain[Read(r)].name, token # "away")]
  /\ UNCHANGED <<money, files, market, suspects, started, failures>>

FindOffer(r) ==
  LET keys == Found(chain[Read(r)].left)
  IN /\ At(r, "find_offer")
     /\ IF keys = {} THEN End(r)
        ELSE \E key \in keys : request' = [request EXCEPT ![r].at = "save_offer", ![r].no = key]
     /\ UNCHANGED <<money, files, market, suspects, started, failures>>

SaveOffer(r) ==
  LET key == request[r].no
  IN /\ At(r, "save_offer")
     /\ offers' = Saved(key, Row(chain[Read(r)], request[r].with))
     /\ suspects' = SecondRow(key)
     /\ End(r)
     /\ UNCHANGED <<money, files, chain, token, worker, started, failures>>

-----------------------------------------------------------------------------

\* An await throws, or currencyCall returns an error that nobody looks at: the
\* request ends where it is.
Fail(r) ==
  /\ request[r] # Idle /\ failures < MaxFailures
  /\ failures' = failures + 1
  /\ suspects' = suspects \cup (IF At(r, "read_settings") \/ On(r) = "order" THEN {} ELSE {On(r)})
  /\ End(r)
  /\ UNCHANGED <<money, files, market, started>>

Init ==
  /\ request = [r \in Requests |-> Idle]
  /\ settings = [c \in Currencies |-> None] /\ accepted = settings
  /\ banners = [b \in Banners |-> None] /\ bucket = {}
  /\ chain = <<>> /\ token = "held" /\ offers = <<>>
  /\ worker = [done |-> 0, key |-> None]
  /\ suspects = {} /\ started = 0 /\ failures = 0

Currency(r) ==
  \/ \E c \in Currencies : StartCurrency(r, "delCurrency", c, None)
  \/ \E c \in Currencies, fee \in Fees : StartCurrency(r, "addCurrency", c, fee)
  \/ ReadCurrencies(r) \/ WriteCurrencies(r) \/ CurrencyCall(r)

Banner(r) ==
  \/ \E b \in Banners : CreateBanner(r, b) \/ EditBanner(r, b) \/ DeleteBanner(r, b)
  \/ ReadAgain(r) \/ RemoveObject(r) \/ PutObject(r) \/ LinkFile(r) \/ DeleteRow(r)

Check(r) ==
  \/ CheckApproved(r) \/ SubmitCheck(r) \/ AskOwner(r) \/ FindOffer(r) \/ SaveOffer(r)

Next ==
  \/ \E r \in Requests : Currency(r) \/ Banner(r) \/ Check(r) \/ Fail(r)
  \/ Order \/ MoveToken \/ FindMirrored \/ SaveMirrored

Spec == Init /\ [][Next]_vars

-----------------------------------------------------------------------------
(* Properties.                                                             *)

\* Types.
RequestsTypeOK ==
  /\ \A r \in Requests : DOMAIN request[r] = DOMAIN Idle /\ request[r].no \in 0 .. MaxStarted
  /\ {settings, accepted} \subseteq [Currencies -> Fees \cup {None}]
  /\ banners \in [Banners -> (1 .. MaxStarted) \cup {None, NoFile}]
  /\ bucket \subseteq 1 .. MaxStarted
  /\ chain \in Seq([name : STRING, price : Prices, left : {0, 1}])
  /\ offers \in Seq([price : Prices, amount : {0, 1}, status : {"Opened", "Canceled", "Completed"}])
  /\ worker.done \in 0 .. Len(chain) /\ worker.key \in {None} \cup 0 .. Len(offers)
  /\ suspects \subseteq Currencies \cup Banners \cup {"order"}
  /\ started \in 0 .. MaxStarted /\ failures \in 0 .. MaxFailures

\* When no request about a currency is under way the settings show what the
\* contract takes, unless a call failed or was refused, two requests were about
\* that currency, or two had read the list before either wrote it: any other
\* overlap does no harm.
CurrenciesAgree ==
  \A c \in Currencies \ suspects :
    (\A r \in Requests : On(r) # c) => settings[c] = accepted[c]

\* However uploads and deletions of one banner overlap, its row names a file that
\* is in the bucket: only a request that took that very file out, and has not
\* named its own yet, may leave it without, or one that failed.
BannersHaveTheirFiles ==
  \A b \in Banners \ suspects :
    banners[b] \in Nat \ bucket =>
      \E r \in Requests : On(r) = b /\ Read(r) = banners[b] /\ request[r].at \in {"put", "link", "delete_row"}

\* When the escrow has caught up, the one row of the order tells the contract's
\* order, whatever checks wrote into it ahead of the escrow, or are about to write:
\* unless the order or its token moved between a check's transaction and its write,
\* or both inserted the row.
ChecksKeepTheMirror ==
  worker.done = Len(chain) /\ "order" \notin suspects /\ chain # <<>> =>
    /\ Len(offers) = 1
    /\ offers[1] = Row(Last, StatusOf(Last))
=============================================================================
