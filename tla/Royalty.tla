------------------------------ MODULE Royalty ------------------------------
(***************************************************************************)
(* The royalties of a token, packages/contracts/src/royalty: their         *)
(* encoding in the property "royalties" (UniqueRoyalty), the older one of  *)
(* LibPart, and what UniqueRoyaltyHelper makes of a price.                 *)
(*                                                                         *)
(* A word is the set of the positions of its bits that are 1, so that | is *)
(* a union, & a mask an intersection, and a shift adds to the positions.   *)
(***************************************************************************)
EXTENDS Integers, Sequences

CONSTANTS
  Royalties,    \* what creators encode: lists of parts
  LegacyParts   \* parts of the older form

DECIMALS_OFFSET == 64
ADDRESS_TYPE_OFFSET == 72
ROYALTY_TYPE_OFFSET == 76
VERSION_OFFSET == 248

Uint(bits) == 0 .. bits - 1      \* the positions in a uint of so many bits
Zeros == {}                      \* the number 0, and the address of nobody

Truncated(word, bits) == word \cap Uint(bits)
ShiftLeft(word, n) == Truncated({b + n : b \in word}, 256)
ShiftRight(word, n) == {b - n : b \in {c \in word : c >= n}}
Flag(condition, n) == IF condition THEN {n} ELSE Zeros

Part == [version : SUBSET Uint(8), decimals : SUBSET Uint(8), value : SUBSET Uint(64),
         isPrimarySaleOnly : BOOLEAN, eth : SUBSET Uint(160), sub : SUBSET Uint(256)]
LibPart == [account : SUBSET Uint(160), value : SUBSET Uint(96)]

\* A part has one address, of either kind, and an old value has 64 bits.
ASSUME RoyaltyInputs ==
  /\ Royalties \subseteq Seq({p \in Part : p.eth = Zeros \/ p.sub = Zeros})
  /\ LegacyParts \subseteq {p \in LibPart : p.value \subseteq Uint(64)}

\* encodePart: a part without an Ethereum address has a Substrate one.
\* The mutant puts decimals where the type of the address is.
MutMeta(p) ==
  ShiftLeft(p.version, VERSION_OFFSET) \cup Flag(p.isPrimarySaleOnly, ROYALTY_TYPE_OFFSET)
    \cup Flag(p.eth = Zeros, ADDRESS_TYPE_OFFSET)
    \cup ShiftLeft(p.decimals, ADDRESS_TYPE_OFFSET) \cup p.value
Meta(p) ==
  ShiftLeft(p.version, VERSION_OFFSET) \cup Flag(p.isPrimarySaleOnly, ROYALTY_TYPE_OFFSET)
    \cup Flag(p.eth = Zeros, ADDRESS_TYPE_OFFSET)
    \cup ShiftLeft(p.decimals, DECIMALS_OFFSET) \cup p.value

EncodePart(p) == <<Meta(p), IF p.eth = Zeros THEN p.sub ELSE p.eth>>

DecodePart(meta, address) ==
  LET isEthereumAddress == ADDRESS_TYPE_OFFSET \notin meta
  IN [version |-> Truncated(ShiftRight(meta, VERSION_OFFSET), 8),
      decimals |-> Truncated(ShiftRight(meta, DECIMALS_OFFSET), 8),
      value |-> Truncated(meta, 64),
      isPrimarySaleOnly |-> ROYALTY_TYPE_OFFSET \in meta,
      eth |-> IF isEthereumAddress THEN Truncated(address, 160) ELSE Zeros,
      sub |-> IF isEthereumAddress THEN Zeros ELSE address]

\* Two words for each part.
Encode(parts) ==
  [k \in 1 .. 2 * Len(parts) |-> EncodePart(parts[(k + 1) \div 2])[IF k % 2 = 1 THEN 1 ELSE 2]]

\* validate, and the test in decode: of a length that is no multiple of two words
\* decode reverts.
Valid(words) == Len(words) % 2 = 0
Decode(words) ==
  [i \in 1 .. Len(words) \div 2 |-> DecodePart(words[2 * i - 1], words[2 * i])]

-----------------------------------------------------------------------------
(* LibPart: an Ethereum account and a value of 96 bits.                    *)

\* LibPartAdapter: version 1 and decimals 4 are constants; decode looks at
\* neither, and takes 64 bits of the value.
LibMeta == {VERSION_OFFSET, DECIMALS_OFFSET + 2}
LibEncodePart(p) == <<LibMeta \cup p.value, p.account>>
LibDecodePart(meta, address) ==
  [account |-> Truncated(address, 160), value |-> Truncated(meta, 64)]

\* LibPartAdapterComplex.toUniqueRoyalties
ToUniqueRoyalty(p) ==
  [version |-> {0}, decimals |-> {2}, value |-> Truncated(p.value, 64),
   isPrimarySaleOnly |-> FALSE, eth |-> p.account, sub |-> Zeros]

\* CrossAddressLib.toAddress
ToAddress(p) == IF p.eth # Zeros THEN p.eth ELSE Truncated(ShiftRight(p.sub, 96), 160)

-----------------------------------------------------------------------------
(* What a price earns.  Here value and decimals are the numbers.           *)

\* try ... catch: a property that cannot be read is no royalty, one that cannot be
\* decoded reverts.
Unreadable == <<>>
GetRoyalty(token, collection) == IF token # <<>> THEN token ELSE collection

\* The mutant takes the parts of both sales.
MutApplies(part, isPrimarySale) == TRUE
Applies(part, isPrimarySale) == isPrimarySale = part.isPrimarySaleOnly

Amount(part, sellPrice) == (sellPrice * part.value) \div (10 ^ part.decimals)

\* calculateRoyalties, part by part; 0 stands for a part that is left out.
CalculateRoyalties(parts, isPrimarySale, sellPrice) ==
  [i \in 1 .. Len(parts) |->
     IF Applies(parts[i], isPrimarySale) THEN Amount(parts[i], sellPrice) ELSE 0]

Calculate(token, collection, sellPrice) ==
  CalculateRoyalties(GetRoyalty(token, collection), FALSE, sellPrice)
CalculateForPrimarySale(token, collection, sellPrice) ==
  CalculateRoyalties(GetRoyalty(token, collection), TRUE, sellPrice)

\* LibPartAdapterComplex.fromUniqueRoyalties: the value as one of 4 decimals.
FromUniqueValue(value, decimals) ==
  IF decimals >= 4 THEN (value * 10 ^ (decimals - 4)) % 2 ^ 96
  ELSE value \div 10 ^ (4 - decimals)

-----------------------------------------------------------------------------
(* What comes back of a royalty that was encoded.                          *)

LegacyPartIsRead(p) ==
  \A words \in {LibEncodePart(p), EncodePart(ToUniqueRoyalty(p))} :
    /\ LibDecodePart(words[1], words[2]) = p
    /\ DecodePart(words[1], words[2]) = ToUniqueRoyalty(p)
    /\ ToAddress(DecodePart(words[1], words[2])) = p.account

RoundTrips ==
  /\ \A parts \in Royalties : Valid(Encode(parts)) /\ Decode(Encode(parts)) = parts
  /\ \A p \in LegacyParts : LegacyPartIsRead(p)
=============================================================================
