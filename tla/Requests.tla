------------------------------ MODULE Requests ------------------------------
(***************************************************************************)
(* What the pipes of the REST app make of a query string: the filters of   *)
(* offers, tokens and trades, the sort and the page.                       *)
(*                                                                         *)
(* A list is the set of its values; Junk is text that is no number, Blank  *)
(* is empty or white space, Absent is a parameter that is not given.       *)
(***************************************************************************)
EXTENDS Integers, Sequences

CONSTANTS Junk, Blank, Absent, Refused,
          Values,       \* the texts that may be given, Blank and numbers among them
          MaxPageSize   \* 100

ASSUME RequestInputs ==
  /\ MaxPageSize \in Nat \ {0} /\ {Junk, Blank, Absent, Refused} \cap Int = {}

-----------------------------------------------------------------------------
(* The parameters of a request.                                            *)

\* What is sent for a number; for a bound; for a text.
Numerals == Int \cup {Junk, Blank}
Limit == Numerals \cup {Absent}
Single == Values \cup {Absent}

OffersFilter ==
  [collectionId : SUBSET Numerals, currencies : SUBSET Numerals, numberOfAttributes : SUBSET Numerals,
   attributes : SUBSET Values, minPrice : Limit, maxPrice : Limit, minUsdtPrice : Limit,
   maxUsdtPrice : Limit, seller : Single, searchText : Single, searchLocale : Single]

AccessoryTypes == {"All", "Owned", "Disowned"}
SaleTypes == {"All", "OnSale", "NotForSale"}
TokensViewFilter ==
  [tokenId : SUBSET Numerals, numberOfAttributes : SUBSET Numerals, attributes : SUBSET Values,
   minPrice : Limit, maxPrice : Limit, minUsdPrice : Limit, maxUsdPrice : Limit,
   searchText : Single, searchLocale : Single, address : Single,
   accessoryType : AccessoryTypes, saleType : SaleTypes]

\* With the account of the path.
TradesFilter ==
  [collectionId : SUBSET Numerals, tokenId : SUBSET Numerals, searchText : Single, accountId : Single]

ASSUME RefusalIsNoRequest ==
  Refused \notin OffersFilter \cup TokensViewFilter \cup TradesFilter

\* Any text may stand for a column.
SortingParameter == [column : STRING, asc : BOOLEAN]
SortingRequest == [given : {"none", "string", "list"}, columns : Seq(SortingParameter)]

-----------------------------------------------------------------------------
(* What the pipes make of them.                                            *)

\* parseIntArrayRequest: one value that is no number refuses the request.  The
\* mutant keeps what is blank.
Unreadable(raw) == Junk \in raw
MutIds(raw) == raw
Ids(raw) == raw \ {Blank}

\* parseNumberRequest never throws: parseFloat makes NaN of what it cannot read,
\* and the services take NaN and 0 for no bound.
Number(raw) == IF raw \in {Junk, Blank, Absent, 0} THEN Absent ELSE raw

\* nullOrWhitespace
Text(raw) == IF raw = Blank THEN Absent ELSE raw

Parsed(raw, lists, numbers, texts) ==
  IF \E f \in lists : Unreadable(raw[f]) THEN Refused
  ELSE [f \in DOMAIN raw |-> CASE f \in lists -> Ids(raw[f])
                               [] f \in numbers -> Number(raw[f])
                               [] f \in texts -> Text(raw[f])
                               [] OTHER -> raw[f]]

ParseOffersFilter(raw) ==
  Parsed(raw, {"collectionId", "currencies", "numberOfAttributes"},
         {"maxPrice", "minPrice", "maxUsdtPrice", "minUsdtPrice"},
         {"seller", "searchText", "searchLocale"})

ParseTokensFilter(raw) ==
  Parsed(raw, {"tokenId", "numberOfAttributes"},
         {"maxPrice", "minPrice", "maxUsdPrice", "minUsdPrice"},
         {"address", "searchText", "searchLocale"})

ParseTradesFilter(raw) == Parsed(raw, {"collectionId", "tokenId"}, {}, {"searchText", "accountId"})

\* ParseSortFilterPipe reads a string; a list of strings is dropped.
ParseSort(raw) == IF raw.given = "string" THEN raw.columns ELSE <<>>

\* ParseSortTradeFilterPipe does the same.
ParseTradesSort(raw) == ParseSort(raw)

\* TokensController has no such pipe: the service reads a list itself, and takes
\* every string for asc(Price).
ParseTokensSort(raw) ==
  CASE raw.given = "none" -> <<[column |-> "TokenId", asc |-> TRUE]>>
    [] raw.given = "string" -> <<[column |-> "Price", asc |-> TRUE]>>
    [] OTHER -> raw.columns

\* The trades have no such limit.
PageSize(n) == IF n > MaxPageSize THEN MaxPageSize ELSE n

-----------------------------------------------------------------------------
(* Amounts: HelperService.  A raw amount is a sequence of digits, a parsed *)
(* one has a whole and a fraction.                                         *)

Repeated(digit, n) == [i \in 1 .. n |-> digit]
Front(digits, n) == SubSeq(digits, 1, n)
Back(digits, n) == SubSeq(digits, Len(digits) - n + 1, Len(digits))

\* Without zeros at the front, at the end.
NoLeadingZeros(digits) ==
  LET start == CHOOSE i \in 1 .. Len(digits) + 1 :
                 /\ \A j \in 1 .. i - 1 : digits[j] = 0
                 /\ i <= Len(digits) => digits[i] # 0
  IN SubSeq(digits, start, Len(digits))
NoTrailingZeros(digits) ==
  LET end == CHOOSE i \in 0 .. Len(digits) :
               /\ \A j \in i + 1 .. Len(digits) : digits[j] = 0
               /\ i > 0 => digits[i] # 0
  IN Front(digits, end)

PadStart(digits, n) == IF Len(digits) >= n THEN digits ELSE Repeated(0, n - Len(digits)) \o digits
\* The mutant does not fill up.
MutPadEnd(digits, n) == digits
PadEnd(digits, n) == IF Len(digits) >= n THEN digits ELSE digits \o Repeated(0, n - Len(digits))

GetParsedAmount(raw, decimals) ==
  LET s == IF NoLeadingZeros(raw) = <<>> THEN <<0>> ELSE NoLeadingZeros(raw)
      padded == PadStart(s, decimals + 1)
  IN IF decimals = 0 THEN [whole |-> s, fraction |-> <<>>]
     ELSE [whole |-> Front(padded, Len(padded) - decimals), fraction |-> NoTrailingZeros(Back(padded, decimals))]

\* Digits beyond the decimals are cut off.
Cut(digits, n) == Front(digits, IF n < Len(digits) THEN n ELSE Len(digits))
GetRawAmount(amount, decimals) == amount.whole \o Cut(PadEnd(amount.fraction, decimals), decimals)
=============================================================================
