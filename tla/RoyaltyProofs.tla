--------------------------- MODULE RoyaltyProofs ---------------------------
(***************************************************************************)
(* What is said of the encodings of royalties, for all of them: parts with *)
(* any bits in any field, and any number of parts.                         *)
(***************************************************************************)
EXTENDS MCMarket, TLAPS

OneAddress == {p \in Part : p.eth = Zeros \/ p.sub = Zeros}

-----------------------------------------------------------------------------
(* Words.                                                                  *)

\* A byte that is shifted within a word is where it was shifted to, and nowhere else.
LEMMA ShiftedByte ==
  ASSUME NEW byte \in SUBSET Uint(8), NEW n \in 0 .. 248, NEW b \in Int
  PROVE  b \in ShiftLeft(byte, n) <=> b - n \in byte
  BY DEF ShiftLeft, Truncated, Uint

\* The bits of the first word of a part: each field keeps to its own.
LEMMA MetaBits ==
  ASSUME NEW p \in Part, NEW b \in Int
  PROVE  b \in Meta(p) <=>
           \/ b - 248 \in p.version
           \/ b = 76 /\ p.isPrimarySaleOnly
           \/ b = 72 /\ p.eth = Zeros
           \/ b - 64 \in p.decimals
           \/ b \in p.value
<1>1. p.version \in SUBSET Uint(8) /\ p.decimals \in SUBSET Uint(8)
  BY DEF Part
<1>2. b \in ShiftLeft(p.version, 248) <=> b - 248 \in p.version
  BY <1>1, ShiftedByte
<1>3. b \in ShiftLeft(p.decimals, 64) <=> b - 64 \in p.decimals
  BY <1>1, ShiftedByte
<1>4. b \in Flag(p.isPrimarySaleOnly, 76) <=> b = 76 /\ p.isPrimarySaleOnly
  BY DEF Flag, Zeros
<1>5. b \in Flag(p.eth = Zeros, 72) <=> b = 72 /\ p.eth = Zeros
  BY DEF Flag, Zeros
<1> QED BY <1>2, <1>3, <1>4, <1>5
        DEF Meta, VERSION_OFFSET, ROYALTY_TYPE_OFFSET, ADDRESS_TYPE_OFFSET, DECIMALS_OFFSET

LEMMA MetaType ==
  ASSUME NEW p \in Part
  PROVE  Meta(p) \subseteq Int
<1>1. p.version \in SUBSET Uint(8) /\ p.decimals \in SUBSET Uint(8) /\ p.value \in SUBSET Uint(64)
  BY DEF Part
<1>2. \A byte \in SUBSET Uint(8) : \A n \in Int : ShiftLeft(byte, n) \subseteq Int
  BY DEF ShiftLeft, Truncated, Uint
<1>3. \A condition, n : n \in Int => Flag(condition, n) \subseteq Int
  BY DEF Flag, Zeros
<1> QED BY <1>1, <1>2, <1>3
        DEF Meta, VERSION_OFFSET, ROYALTY_TYPE_OFFSET, ADDRESS_TYPE_OFFSET, DECIMALS_OFFSET, Uint

\* The bits from n on, for as many as a field has.
LEMMA FieldBits ==
  ASSUME NEW word \in SUBSET Int, NEW n \in Nat, NEW bits \in Nat, NEW b \in Int
  PROVE  b \in Truncated(ShiftRight(word, n), bits) <=> b \in Uint(bits) /\ b + n \in word
  BY DEF Truncated, ShiftRight, Uint

\* A part with one address comes back from its two words.
LEMMA PartComesBack ==
  ASSUME NEW p \in OneAddress
  PROVE  DecodePart(EncodePart(p)[1], EncodePart(p)[2]) = p
<1>1. /\ p \in Part /\ (p.eth = Zeros \/ p.sub = Zeros)
      /\ p.version \subseteq Uint(8) /\ p.decimals \subseteq Uint(8) /\ p.value \subseteq Uint(64)
      /\ p.isPrimarySaleOnly \in BOOLEAN /\ p.eth \subseteq Uint(160) /\ p.sub \subseteq Uint(256)
  BY DEF OneAddress, Part
<1>2. PICK meta : meta = Meta(p)
  OBVIOUS
<1>3. meta \in SUBSET Int
  BY <1>1, <1>2, MetaType
<1>4. \A b \in Int : b \in meta <=>
           \/ b - 248 \in p.version
           \/ b = 76 /\ p.isPrimarySaleOnly
           \/ b = 72 /\ p.eth = Zeros
           \/ b - 64 \in p.decimals
           \/ b \in p.value
  BY <1>1, <1>2, MetaBits
<1>5. Truncated(ShiftRight(meta, 248), 8) = p.version
  <2>1. \A b \in Int : b \in Truncated(ShiftRight(meta, 248), 8) <=> b \in Uint(8) /\ b + 248 \in meta
    BY <1>3, FieldBits
  <2>2. \A b \in Uint(8) : b + 248 \in meta <=> b \in p.version
    BY <1>1, <1>4 DEF Uint
  <2>3. Truncated(ShiftRight(meta, 248), 8) \subseteq Int /\ Uint(8) \subseteq Int
    BY DEF Truncated, Uint
  <2> QED BY <1>1, <2>1, <2>2, <2>3
<1>6. Truncated(ShiftRight(meta, 64), 8) = p.decimals
  <2>1. \A b \in Int : b \in Truncated(ShiftRight(meta, 64), 8) <=> b \in Uint(8) /\ b + 64 \in meta
    BY <1>3, FieldBits
  <2>2. \A b \in Uint(8) : b + 64 \in meta <=> b \in p.decimals
    BY <1>1, <1>4 DEF Uint
  <2>3. Truncated(ShiftRight(meta, 64), 8) \subseteq Int /\ Uint(8) \subseteq Int
    BY DEF Truncated, Uint
  <2> QED BY <1>1, <2>1, <2>2, <2>3
<1>7. Truncated(meta, 64) = p.value
  <2>1. \A b \in Uint(64) : b \in meta <=> b \in p.value
    BY <1>1, <1>4 DEF Uint
  <2> QED BY <1>1, <2>1 DEF Truncated
<1>8. (76 \in meta) = p.isPrimarySaleOnly
  BY <1>1, <1>4 DEF Uint
<1>9. 72 \notin meta <=> p.eth # Zeros
  BY <1>1, <1>4 DEF Uint
<1>10. p.eth # Zeros => Truncated(p.eth, 160) = p.eth
  BY <1>1 DEF Truncated
<1>11. EncodePart(p)[1] = meta /\ EncodePart(p)[2] = IF p.eth = Zeros THEN p.sub ELSE p.eth
  BY <1>2 DEF EncodePart
<1>12. p = [version |-> p.version, decimals |-> p.decimals, value |-> p.value,
            isPrimarySaleOnly |-> p.isPrimarySaleOnly, eth |-> p.eth, sub |-> p.sub]
  BY <1>1 DEF Part
<1>13. CASE p.eth = Zeros
  BY <1>1, <1>5, <1>6, <1>7, <1>8, <1>9, <1>11, <1>12, <1>13
     DEF DecodePart, VERSION_OFFSET, ROYALTY_TYPE_OFFSET, ADDRESS_TYPE_OFFSET, DECIMALS_OFFSET
<1>14. CASE p.eth # Zeros
  BY <1>1, <1>5, <1>6, <1>7, <1>8, <1>9, <1>10, <1>11, <1>12, <1>14
     DEF DecodePart, VERSION_OFFSET, ROYALTY_TYPE_OFFSET, ADDRESS_TYPE_OFFSET, DECIMALS_OFFSET
<1> QED BY <1>13, <1>14

-----------------------------------------------------------------------------
(* Lists of parts.                                                         *)

LEMMA EncodedWords ==
  ASSUME NEW parts \in Seq(OneAddress)
  PROVE  /\ Len(Encode(parts)) = 2 * Len(parts)
         /\ \A i \in 1 .. Len(parts) :
              /\ Encode(parts)[2 * i - 1] = EncodePart(parts[i])[1]
              /\ Encode(parts)[2 * i] = EncodePart(parts[i])[2]
<1> DEFINE n == Len(parts)
           part(k) == parts[(k + 1) \div 2]
           word(k) == EncodePart(part(k))[IF k % 2 = 1 THEN 1 ELSE 2]
<1>1. n \in Nat
  OBVIOUS
<1>2. Encode(parts) = [k \in 1 .. 2 * n |-> word(k)]
  BY DEF Encode
<1> HIDE DEF n, word
<1>3. 2 * n \in Nat /\ DOMAIN Encode(parts) = 1 .. 2 * n
  BY <1>1, <1>2
<1>4. Encode(parts) \in Seq({word(k) : k \in 1 .. 2 * n})
  BY <1>2, <1>3
<1>5. Len(Encode(parts)) = 2 * n
  BY <1>3, <1>4
<1>6. ASSUME NEW i \in 1 .. n
      PROVE  /\ Encode(parts)[2 * i - 1] = EncodePart(parts[i])[1]
             /\ Encode(parts)[2 * i] = EncodePart(parts[i])[2]
  <2>1. 2 * i - 1 \in 1 .. 2 * n /\ 2 * i \in 1 .. 2 * n
    BY <1>1
  <2>2. (2 * i - 1 + 1) \div 2 = i /\ (2 * i + 1) \div 2 = i /\ (2 * i - 1) % 2 = 1 /\ (2 * i) % 2 = 0
    OBVIOUS
  <2>3. word(2 * i - 1) = EncodePart(parts[i])[1] /\ word(2 * i) = EncodePart(parts[i])[2]
    BY <2>2 DEF word
  <2> QED BY <1>2, <2>1, <2>3
<1> QED BY <1>5, <1>6 DEF n

\* Royalties of any number of parts come back as they were, in their order.
LEMMA RoyaltyComesBack ==
  ASSUME NEW parts \in Seq(OneAddress)
  PROVE  Valid(Encode(parts)) /\ Decode(Encode(parts)) = parts
<1>1. Len(parts) \in Nat /\ Len(Encode(parts)) = 2 * Len(parts)
  BY EncodedWords
<1>2. Len(Encode(parts)) \div 2 = Len(parts) /\ Len(Encode(parts)) % 2 = 0
  BY <1>1
<1>3. \A i \in 1 .. Len(parts) : DecodePart(Encode(parts)[2 * i - 1], Encode(parts)[2 * i]) = parts[i]
  BY EncodedWords, PartComesBack
<1>4. parts = [i \in 1 .. Len(parts) |-> parts[i]]
  OBVIOUS
<1>5. Decode(Encode(parts)) = [i \in 1 .. Len(parts) |-> parts[i]]
  BY <1>2, <1>3 DEF Decode
<1> QED BY <1>2, <1>4, <1>5 DEF Valid

-----------------------------------------------------------------------------
(* Parts of the older form.                                                *)

\* The constant that LibPartAdapter writes is what UniqueRoyalty writes for
\* version 1 and 4 decimals.
LEMMA LegacyMeta ==
  ASSUME NEW p \in LibPart, p.value \subseteq Uint(64), p.account # Zeros
  PROVE  EncodePart(ToUniqueRoyalty(p)) = LibEncodePart(p)
<1> DEFINE u == ToUniqueRoyalty(p)
<1>1. /\ u.version = {0} /\ u.decimals = {2} /\ u.value = p.value /\ ~u.isPrimarySaleOnly
      /\ u.eth = p.account /\ u.sub = Zeros
  BY DEF ToUniqueRoyalty, Truncated
<1>2. u \in Part
  BY DEF ToUniqueRoyalty, Truncated, Part, LibPart, Uint, Zeros
<1> HIDE DEF u
<1>3. \A b \in Int : b \in Meta(u) <=> b = 248 \/ b = 66 \/ b \in p.value
  BY <1>1, <1>2, MetaBits
<1>4. Meta(u) = LibMeta \cup p.value
  <2>1. Meta(u) \subseteq Int /\ p.value \subseteq Int
    BY <1>2, MetaType DEF Uint
  <2> QED BY <1>3, <2>1 DEF LibMeta, VERSION_OFFSET, DECIMALS_OFFSET
<1>5. EncodePart(u) = <<LibMeta \cup p.value, p.account>>
  BY <1>1, <1>4 DEF EncodePart
<1> QED BY <1>5 DEF u, LibEncodePart

LEMMA LegacyComesBack ==
  ASSUME NEW p \in LibPart, p.value \subseteq Uint(64)
  PROVE  LegacyPartIsRead(p)
<1> DEFINE u == ToUniqueRoyalty(p)
<1>1. /\ u.version = {0} /\ u.decimals = {2} /\ u.value = p.value /\ ~u.isPrimarySaleOnly
      /\ u.eth = p.account /\ u.sub = Zeros
  BY DEF ToUniqueRoyalty, Truncated
<1>2. u \in OneAddress
  BY DEF ToUniqueRoyalty, Truncated, Part, LibPart, Uint, Zeros, OneAddress
<1>3. ASSUME NEW words \in {LibEncodePart(p), EncodePart(u)}
      PROVE  words[2] = p.account /\ Truncated(words[1], 64) = p.value
  <2>1. CASE words = LibEncodePart(p)
    BY <2>1 DEF LibEncodePart, LibMeta, Truncated, Uint, VERSION_OFFSET, DECIMALS_OFFSET
  <2>2. CASE words = EncodePart(u)
    <3>1. words[2] = p.account
      BY <1>1, <2>2 DEF EncodePart
    <3>2. DecodePart(words[1], words[2]) = u
      BY <1>2, <2>2, PartComesBack
    <3>3. DecodePart(words[1], words[2]).value = Truncated(words[1], 64)
      BY DEF DecodePart
    <3> QED BY <1>1, <3>1, <3>2, <3>3
  <2> QED BY <1>3, <2>1, <2>2
<1>4. ASSUME NEW words \in {LibEncodePart(p), EncodePart(u)}
      PROVE  LibDecodePart(words[1], words[2]) = p
  <2>1. Truncated(p.account, 160) = p.account /\ p = [account |-> p.account, value |-> p.value]
    BY DEF LibPart, Truncated
  <2> QED BY <1>3, <1>4, <2>1 DEF LibDecodePart
<1>5. DecodePart(EncodePart(u)[1], EncodePart(u)[2]) = u
  BY <1>2, PartComesBack
<1>6. DecodePart(LibEncodePart(p)[1], LibEncodePart(p)[2]) = u
  <2>1. CASE p.account # Zeros
    BY <1>5, <2>1, LegacyMeta
  <2>2. CASE p.account = Zeros
    <3>0. PICK meta : meta = LibMeta \cup p.value
      OBVIOUS
    <3>1. LibEncodePart(p)[1] = meta /\ LibEncodePart(p)[2] = Zeros
      BY <2>2, <3>0 DEF LibEncodePart
    <3>2. meta \in SUBSET Int /\ \A b \in Int : b \in meta <=> b = 248 \/ b = 66 \/ b \in p.value
      BY <3>0 DEF LibMeta, Uint, VERSION_OFFSET, DECIMALS_OFFSET
    <3>3. Truncated(ShiftRight(meta, 248), 8) = {0}
      <4>1. \A b \in Int : b \in Truncated(ShiftRight(meta, 248), 8) <=> b \in Uint(8) /\ b + 248 \in meta
        BY <3>2, FieldBits
      <4>2. \A b \in Uint(8) : b + 248 \in meta <=> b = 0
        BY <3>2 DEF Uint
      <4>3. Truncated(ShiftRight(meta, 248), 8) \subseteq Uint(8) /\ Uint(8) \subseteq Int /\ 0 \in Uint(8)
        BY DEF Truncated, Uint
      <4> QED BY <4>1, <4>2, <4>3
    <3>4. Truncated(ShiftRight(meta, 64), 8) = {2}
      <4>1. \A b \in Int : b \in Truncated(ShiftRight(meta, 64), 8) <=> b \in Uint(8) /\ b + 64 \in meta
        BY <3>2, FieldBits
      <4>2. \A b \in Uint(8) : b + 64 \in meta <=> b = 2
        BY <3>2 DEF Uint
      <4>3. Truncated(ShiftRight(meta, 64), 8) \subseteq Uint(8) /\ Uint(8) \subseteq Int /\ 2 \in Uint(8)
        BY DEF Truncated, Uint
      <4> QED BY <4>1, <4>2, <4>3
    <3>5. Truncated(meta, 64) = p.value
      BY <3>2 DEF Truncated, Uint
    <3>6. (76 \in meta) = FALSE /\ 72 \notin meta
      BY <3>2 DEF Uint
    <3>7. Truncated(Zeros, 160) = Zeros
      BY DEF Truncated, Zeros
    <3>8. u = [version |-> {0}, decimals |-> {2}, value |-> p.value, isPrimarySaleOnly |-> FALSE,
               eth |-> Zeros, sub |-> Zeros]
      BY <1>1, <2>2 DEF ToUniqueRoyalty
    <3>9. DecodePart(meta, Zeros) =
            [version |-> {0}, decimals |-> {2}, value |-> p.value, isPrimarySaleOnly |-> FALSE,
             eth |-> Zeros, sub |-> Zeros]
      BY <3>3, <3>4, <3>5, <3>6, <3>7
         DEF DecodePart, VERSION_OFFSET, ROYALTY_TYPE_OFFSET, ADDRESS_TYPE_OFFSET, DECIMALS_OFFSET
    <3> QED BY <3>1, <3>8, <3>9
  <2> QED BY <2>1, <2>2
<1>7. ToAddress(u) = p.account
  <2>1. p.account = Zeros => Truncated(ShiftRight(Zeros, 96), 160) = p.account
    BY DEF Truncated, ShiftRight, Zeros
  <2> QED BY <1>1, <2>1 DEF ToAddress
<1> HIDE DEF u
<1>8. ASSUME NEW words \in {LibEncodePart(p), EncodePart(u)}
      PROVE  DecodePart(words[1], words[2]) = u
  BY <1>5, <1>6, <1>8
<1> QED BY <1>4, <1>7, <1>8 DEF LegacyPartIsRead, u

-----------------------------------------------------------------------------
(* The theorem.                                                            *)

\* Royalties of any number of parts, with any bits in any field, come back from
\* encode and decode as they were; and what either library writes of an old part is
\* read by both, even of one that names nobody.
THEOREM RoyaltiesComeBack == RoyaltiesRoundTrip
<1>1. \A parts \in Royalties : Valid(Encode(parts)) /\ Decode(Encode(parts)) = parts
  <2>1. Royalties \subseteq Seq(OneAddress)
    BY RoyaltyInputs DEF OneAddress
  <2> QED BY <2>1, RoyaltyComesBack
<1>2. \A p \in LegacyParts : LegacyPartIsRead(p)
  BY RoyaltyInputs, LegacyComesBack
<1> QED BY <1>1, <1>2 DEF RoyaltiesRoundTrip, RoundTrips

-----------------------------------------------------------------------------
(* What a price earns.                                                     *)

\* Shares of a price, in whole prices, tenths or hundredths.
Share == [value : Nat, decimals : 0 .. 2, isPrimarySaleOnly : BOOLEAN]
Hundredths(part) == IF part.isPrimarySaleOnly THEN 0 ELSE part.value * 10 ^ (2 - part.decimals)
Earned(part, price) == IF Applies(part, FALSE) THEN Amount(part, price) ELSE 0

\* Rounding is downwards: no share earns more than it says.
LEMMA RoundedDown ==
  ASSUME NEW p \in Share, NEW price \in Nat
  PROVE  Earned(p, price) \in Nat /\ Hundredths(p) \in Nat /\ 100 * Earned(p, price) <= price * Hundredths(p)
<1> DEFINE v == p.value
           x == price * v
<1>1. v \in Nat /\ x \in Nat /\ p.decimals \in 0 .. 2 /\ p.isPrimarySaleOnly \in BOOLEAN
  BY DEF Share
<1>2. 10 ^ 0 = 1 /\ 10 ^ 1 = 10 /\ 10 ^ 2 = 100
  OBVIOUS
<1>3. CASE p.isPrimarySaleOnly
  <2>1. Earned(p, price) = 0 /\ Hundredths(p) = 0
    BY <1>3 DEF Earned, Hundredths, Applies
  <2> QED BY <2>1
<1>4. CASE ~p.isPrimarySaleOnly
  <2>1. Earned(p, price) = x \div (10 ^ p.decimals) /\ Hundredths(p) = v * 10 ^ (2 - p.decimals)
    BY <1>1, <1>4 DEF Earned, Hundredths, Applies, Amount
  <2>2. CASE p.decimals = 0
    <3>1. Earned(p, price) = x \div 1 /\ Hundredths(p) = v * 100
      BY <1>2, <2>1, <2>2
    <3>2. price * (v * 100) = 100 * x
      BY <1>1
    <3> HIDE DEF x
    <3>3. x \div 1 = x
      BY <1>1
    <3> QED BY <1>1, <3>1, <3>2, <3>3
  <2>3. CASE p.decimals = 1
    <3>1. Earned(p, price) = x \div 10 /\ Hundredths(p) = v * 10
      BY <1>2, <2>1, <2>3
    <3>2. price * (v * 10) = 10 * x
      BY <1>1
    <3> HIDE DEF x
    <3>3. x \div 10 \in Nat /\ 100 * (x \div 10) <= 10 * x
      BY <1>1
    <3> QED BY <1>1, <3>1, <3>2, <3>3
  <2>4. CASE p.decimals = 2
    <3>1. Earned(p, price) = x \div 100 /\ Hundredths(p) = v * 1
      BY <1>2, <2>1, <2>4
    <3>2. price * (v * 1) = x
      BY <1>1
    <3> HIDE DEF x
    <3>3. x \div 100 \in Nat /\ 100 * (x \div 100) <= x
      BY <1>1
    <3> QED BY <1>1, <3>1, <3>2, <3>3
  <2> QED BY <1>1, <2>2, <2>3, <2>4
<1> QED BY <1>1, <1>3, <1>4

LEMMA SharesStayWithin ==
  ASSUME NEW p \in Share, NEW q \in Share, NEW price \in Nat
  PROVE  StaysWithinThePrice(p, q, price)
<1> DEFINE earned == Calculate(<<p, q>>, <<p>>, price)
<1>1. earned = CalculateRoyalties(<<p, q>>, FALSE, price)
  BY DEF Calculate, GetRoyalty
<1>2. earned[1] = Earned(p, price) /\ earned[2] = Earned(q, price)
  <2>1. Len(<<p, q>>) = 2 /\ 1 \in 1 .. 2 /\ 2 \in 1 .. 2 /\ <<p, q>>[1] = p /\ <<p, q>>[2] = q
    OBVIOUS
  <2> QED BY <1>1, <2>1 DEF CalculateRoyalties, Earned
<1>3. Calculate(Unreadable, <<p, q>>, price) = Calculate(<<p, q>>, <<q>>, price)
  BY DEF Calculate, GetRoyalty, Unreadable
<1> HIDE DEF earned
<1>4. ASSUME Hundredths(p) + Hundredths(q) <= 100
      PROVE  earned[1] + earned[2] <= price
  <2> DEFINE a == Earned(p, price)
             b == Earned(q, price)
             h == Hundredths(p)
             k == Hundredths(q)
  <2>1. /\ a \in Nat /\ b \in Nat /\ h \in Nat /\ k \in Nat
        /\ 100 * a <= price * h /\ 100 * b <= price * k
    BY RoundedDown
  <2>2. h + k <= 100
    BY <1>4
  <2> HIDE DEF a, b, h, k
  <2>3. price * (h + k) <= price * 100
    BY <2>1, <2>2
  <2>4. price * (h + k) = price * h + price * k
    BY <2>1
  <2>5. 100 * (a + b) <= price * 100
    BY <2>1, <2>3, <2>4
  <2>6. a + b <= price
    BY <2>1, <2>5
  <2> QED BY <1>2, <2>6 DEF a, b
<1> QED BY <1>3, <1>4 DEF StaysWithinThePrice, Hundredths, earned

\* What UniqueRoyaltyHelper makes of any price and of any two shares, in whole prices,
\* tenths or hundredths, that are at most the price in a secondary sale: no more than
\* the price, however the divisions round and whatever is due in the other sale.
TwoSharesStayWithin == \A p, q \in Share, price \in Nat : StaysWithinThePrice(p, q, price)

THEOREM SharesStayWithinThePrice == TwoSharesStayWithin /\ (Spec => []RoyaltiesStayWithinThePrice)
<1>1. TwoSharesStayWithin
  BY SharesStayWithin DEF TwoSharesStayWithin
<1>2. RoyaltiesStayWithinThePrice
  <2>1. SampleShares \subseteq Share
    BY DEF SampleShares, Share
  <2> QED BY <2>1, SharesStayWithin DEF RoyaltiesStayWithinThePrice
<1>3. Spec => []RoyaltiesStayWithinThePrice
  BY <1>2, PTL
<1> QED BY <1>1, <1>3

=============================================================================
