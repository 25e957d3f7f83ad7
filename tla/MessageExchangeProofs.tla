----------------------- MODULE MessageExchangeProofs -----------------------
(***************************************************************************)
(* Theorems on MessageExchange: the client takes every stream apart as it  *)
(* should, and both sides understand each other, whatever is said and      *)
(* however wide bytes, words and numbers are.                              *)
(***************************************************************************)
EXTENDS MessageExchange, WireCodecProofs

-----------------------------------------------------------------------------
(* The bytes of a message *)

LEMMA Concatenates ==
    ASSUME NEW s \in Seq(Bytes), NEW t \in Seq(Bytes)
    PROVE  s \o t \in Seq(Bytes)
OBVIOUS

LEMMA VarintFieldBytes ==
    ASSUME NEW number \in Nat, NEW v \in Nat
    PROVE  VarintField(number, v) \in Seq(Bytes)
<1>1. number * 8 + VarintType \in Nat
  BY DEF VarintType
<1>2. Key(number, VarintType) \in Seq(Bytes) /\ Varint(v) \in Seq(Bytes)
  BY <1>1, VarintBytes DEF Key
<1>3. QED
  BY <1>2 DEF VarintField

LEMMA BytesFieldBytes ==
    ASSUME NEW number \in Nat, NEW b \in Seq(Bytes)
    PROVE  BytesField(number, b) \in Seq(Bytes)
<1>1. number * 8 + LengthDelimited \in Nat /\ Len(b) \in Nat
  BY DEF LengthDelimited
<1>2. Key(number, LengthDelimited) \in Seq(Bytes) /\ Varint(Len(b)) \in Seq(Bytes)
  BY <1>1, VarintBytes DEF Key
<1>3. QED
  BY <1>2 DEF BytesField

LEMMA FrameBytes == ASSUME NEW b \in Seq(Bytes) PROVE Frame(b) \in Seq(Bytes)
<1>1. Len(b) \in Nat
  OBVIOUS
<1>2. Varint(Len(b)) \in Seq(Bytes)
  BY <1>1, VarintBytes
<1>3. QED
  BY <1>2 DEF Frame

-----------------------------------------------------------------------------
(* Length prefixes *)

LEMMA TrueLengthIs ==
    ASSUME NEW s \in Seq(Bytes)
    PROVE  TrueLength(s) = Worth(s, 0, Len(s)) /\ TrueLength(s) \in Nat
<1>1. DOMAIN s = 1..Len(s) /\ Len(s) \in Nat /\ \A i \in 1..Len(s) : 0 + i = i
  OBVIOUS
<1>2. [i \in DOMAIN s |-> (s[i] % Base) * Pow2[GroupBits * (i - 1)]]
      = [i \in 1..Len(s) |-> (s[0 + i] % Base) * Pow2[GroupBits * (i - 1)]]
  BY <1>1
<1>3. TrueLength(s) = Worth(s, 0, Len(s))
  BY <1>2 DEF TrueLength, Worth
<1>4. QED
  BY <1>1, <1>3, WorthDef

\* n groups are worth less than 2 to the power of their bits.
LEMMA WorthBound ==
    ASSUME NEW s \in Seq(Bytes), NEW n \in Nat, n <= Len(s)
    PROVE  Worth(s, 0, n) < Pow2[GroupBits * n]
<1> DEFINE P == {k \in Nat : k <= Len(s) => Worth(s, 0, k) < Pow2[GroupBits * k]}
<1>0. Len(s) \in Nat
  OBVIOUS
<1>1. 0 \in P
  <2>1. Worth(s, 0, 0) = 0
    BY <1>0, WorthDef
  <2>2. GroupBits * 0 = 0 /\ Pow2[0] = 1
    BY WidthAssumption, Pow2Def
  <2>3. QED
    BY <2>1, <2>2
<1>2. ASSUME NEW k \in Nat, k \in P PROVE k + 1 \in P
  <2> SUFFICES ASSUME k + 1 <= Len(s) PROVE Worth(s, 0, k + 1) < Pow2[GroupBits * (k + 1)]
    OBVIOUS
  <2> DEFINE w == Worth(s, 0, k)
             a == Pow2[GroupBits * k]
             q == s[k + 1] % Base
  <2>1. k + 1 \in 1..Len(s) /\ (k + 1) - 1 = k /\ 0 + (k + 1) = k + 1 /\ 0 + (k + 1) <= Len(s) /\ k + 1 # 0
    BY <1>0
  <2>2. Worth(s, 0, k + 1) = w + (q * a)
    <3>1. Worth(s, 0, k + 1) = Worth(s, 0, (k + 1) - 1) + ((s[0 + (k + 1)] % Base) * Pow2[GroupBits * ((k + 1) - 1)])
      BY <2>1, WorthDef
    <3>2. QED
      BY <2>1, <3>1
  <2>3. w \in Nat /\ w < a
    <3>1. 0 + k <= Len(s) /\ k <= Len(s)
      BY <1>0, <2>1
    <3>2. QED
      BY <1>2, <3>1, WorthDef
  <2>4. q \in 0..(Base - 1) /\ q \in Nat /\ Base \in Nat
    <3>1. s[k + 1] \in Bytes
      BY <2>1
    <3>2. QED
      BY <3>1, GroupType, WidthFacts
  <2>5. Pow2[GroupBits * (k + 1)] = Base * a /\ a \in Nat \ {0}
    <3>1. GroupBits * k \in Nat /\ GroupBits \in Nat /\ GroupBits * (k + 1) = GroupBits + (GroupBits * k)
      BY WidthAssumption
    <3>2. QED
      BY <3>1, Pow2Sum, Pow2Def DEF Base
  <2> HIDE DEF w, a, q
  <2>6. q <= Base - 1
    BY <2>4
  <2>7. a * q <= a * (Base - 1)
    BY <2>4, <2>5, <2>6, TimesLess
  <2>8. a * (Base - 1) = (Base * a) - a /\ a * q = q * a /\ Base * a \in Nat /\ q * a \in Nat
    BY <2>4, <2>5
  <2>9. QED
    BY <2>2, <2>3, <2>4, <2>5, <2>7, <2>8
<1> HIDE DEF P
<1>3. \A k \in Nat : k \in P
  BY <1>1, <1>2, Induction
<1>4. QED
  BY <1>3 DEF P

\* One term is lost only beyond the word: a is the worth of its lowest bit,
\* c how many of them the word holds, w what came before.
LEMMA LostAbove ==
    ASSUME NEW a \in Nat \ {0}, NEW c \in Nat \ {0}, NEW q \in Nat, NEW w \in Nat, w < a
    PROVE  w + ((q * a) % (a * c)) = (w + (q * a)) % (a * c)
<1> DEFINE h == q \div c
           l == q % c
           W == a * c
<1>1. h \in Nat /\ l \in 0..(c - 1) /\ q = (c * h) + l
  <2>1. q \in Int
    OBVIOUS
  <2>2. QED
    BY <2>1, DivMod
<1> HIDE DEF h, l
<1>2. q * a = (W * h) + (a * l)
  <2>1. q * a = (c * h) * a + l * a
    BY <1>1
  <2>2. (c * h) * a = (a * c) * h /\ l * a = a * l
    BY <1>1
  <2>3. QED
    BY <2>1, <2>2
<1>3. a * l <= a * (c - 1) /\ a * (c - 1) = W - a /\ W \in Nat \ {0} /\ a * l \in Nat
  <2>1. l <= c - 1 /\ l \in Int /\ c - 1 \in Int
    BY <1>1
  <2>2. a * l <= a * (c - 1)
    BY <2>1, TimesLess
  <2>3. QED
    BY <1>1, <2>2
<1> DEFINE al == a * l
<1> HIDE DEF W, al
<1>4. al \in 0..(W - 1) /\ w + al \in 0..(W - 1) /\ h \in Int /\ al \in Nat
  BY <1>1, <1>3 DEF al
<1>5. q * a = (W * h) + al
  BY <1>2 DEF al
<1>6. (q * a) % W = al
  BY <1>3, <1>4, <1>5, DivModUnique
<1>7. w + (q * a) = (W * h) + (w + al)
  <2>1. W * h \in Int
    BY <1>3, <1>4
  <2>2. QED
    BY <1>4, <1>5, <2>1
<1>8. (w + (q * a)) % W = w + al
  BY <1>3, <1>4, <1>7, DivModUnique
<1>9. QED
  BY <1>6, <1>8 DEF W

LEMMA LastGroup ==
    ASSUME NEW s \in Seq(Bytes), NEW k \in Nat, k # 0, k <= Len(s)
    PROVE  /\ Worth(s, 0, k) = Worth(s, 0, k - 1) + ((s[k] % Base) * Pow2[GroupBits * (k - 1)])
           /\ VarintValue(s, 0, k) = VarintValue(s, 0, k - 1) + Contribution(s[k], GroupBits * (k - 1))
<1>1. 0 + k <= Len(s) /\ 0 + k = k
  OBVIOUS
<1>2. Worth(s, 0, k) = Worth(s, 0, k - 1) + ((s[0 + k] % Base) * Pow2[GroupBits * (k - 1)])
  BY <1>1, WorthDef
<1>3. VarintValue(s, 0, k) = VarintValue(s, 0, k - 1) + Contribution(s[0 + k], GroupBits * (k - 1))
  BY <1>1, VarintValueType
<1>4. QED
  BY <1>1, <1>2, <1>3

\* What one more byte makes of a length, as readOneLengthByte, receive and
\* decodeVarintPrefix compute it.
LEMMA NextByte ==
    ASSUME NEW p \in Seq(Bytes), Len(p) < Groups, NEW b \in Bytes
    PROVE  LET n   == Len(p)
               s   == Append(p, b)
               len == Worth(p, 0, n) + Contribution(b, GroupBits * n)
           IN  /\ s \in Seq(Bytes) /\ Len(s) = n + 1 /\ n \in Nat
               /\ len \in Nat /\ len = Worth(s, 0, n + 1) % Word
               /\ n + 1 < Groups => len = Worth(s, 0, n + 1)
               /\ VarintValue(s, 0, n + 1) = len
<1> DEFINE n == Len(p)
           s == Append(p, b)
           shift == GroupBits * n
           w == Worth(p, 0, n)
           q == b % Base
           a == Pow2[shift]
           c == Pow2[WordBits - shift]
           len == w + Contribution(b, shift)
<1>1. /\ n \in Nat /\ s \in Seq(Bytes) /\ Len(s) = n + 1 /\ s[n + 1] = b
      /\ \A i \in 1..n : s[i] = p[i]
      /\ Groups \in Nat /\ Word \in Nat \ {0} /\ MaxShift \in Nat
  BY WidthFacts
<1>2. Agree(s, 0, p, 0, n)
  BY <1>1 DEF Agree
<1> HIDE DEF s
<1>3. Worth(s, 0, n) = w
  BY <1>2, WorthFrame
<1>4. w \in Nat /\ w < a
  <2>1. 0 + n <= Len(p) /\ n <= Len(p)
    BY <1>1
  <2>2. QED
    BY <1>1, <2>1, WorthDef, WorthBound
<1>5. n + 1 <= Groups
  BY <1>1
<1> HIDE DEF n
<1>6. shift \in Nat /\ shift <= MaxShift /\ WordBits - shift \in Nat /\ shift + (WordBits - shift) = WordBits
  <2>1. shift <= MaxShift
    BY <1>1, <1>5, GroupsFit
  <2>2. shift \in Nat /\ WordBits \in Nat
    BY <1>1, WidthAssumption
  <2> HIDE DEF shift
  <2>3. QED
    BY <2>1, <2>2 DEF MaxShift
<1>7. a \in Nat \ {0} /\ c \in Nat \ {0} /\ Word = a * c
  BY <1>6, Pow2Def, Pow2Sum DEF Word
<1>8. q \in Nat
  BY GroupType
<1>9. Contribution(b, shift) = (q * a) % Word
  BY DEF Contribution
<1>10. Worth(s, 0, n + 1) = w + (q * a)
  <2> DEFINE k == n + 1
  <2>1. k \in Nat /\ k # 0 /\ k <= Len(s) /\ k - 1 = n /\ s[k] = b
    BY <1>1
  <2> HIDE DEF k
  <2>2. Worth(s, 0, k) = Worth(s, 0, k - 1) + ((s[k] % Base) * Pow2[GroupBits * (k - 1)])
    BY <1>1, <2>1, LastGroup
  <2>3. QED
    BY <1>3, <2>1, <2>2 DEF k
<1>11. w + ((q * a) % (a * c)) = (w + (q * a)) % (a * c)
  <2> HIDE DEF w, q, a, c
  <2>1. QED
    BY <1>4, <1>7, <1>8, LostAbove
<1>12. len = Worth(s, 0, n + 1) % Word
  BY <1>7, <1>9, <1>10, <1>11
<1>13. len \in Nat
  <2>1. Contribution(b, shift) \in 0..(Word - 1)
    BY <1>6, ContributionType
  <2> HIDE DEF w, shift
  <2>2. QED
    BY <1>1, <1>4, <2>1
<1>14. ASSUME n + 1 < Groups PROVE len = Worth(s, 0, n + 1)
  <2> DEFINE x == Worth(s, 0, n + 1)
             t == GroupBits * (n + 1)
  <2>1. x \in Nat /\ x < Pow2[t]
    <3>1. n + 1 \in Nat /\ 0 + (n + 1) <= Len(s) /\ n + 1 <= Len(s)
      BY <1>1
    <3>2. QED
      BY <1>1, <3>1, WorthDef, WorthBound
  <2>2. t <= MaxShift
    <3>1. n + 1 \in Nat /\ (n + 1) + 1 <= Groups
      BY <1>1, <1>14
    <3>2. QED
      BY <3>1, GroupsFit
  <2>3. t \in Nat /\ WordBits \in Nat
    BY <1>1, WidthAssumption
  <2> HIDE DEF t, x
  <2>4. t <= WordBits
    BY <2>2, <2>3 DEF MaxShift
  <2>5. Pow2[t] <= Word /\ Pow2[t] \in Nat
    BY <2>3, <2>4, Pow2Monotone, Pow2Def DEF Word
  <2>6. x \in 0..(Word - 1) /\ x \in Int
    BY <1>1, <2>1, <2>5
  <2>7. x % Word = x
    BY <1>1, <2>6, DivMod
  <2>8. QED
    BY <1>12, <2>7 DEF x
<1>15. VarintValue(s, 0, n + 1) = len
  <2> DEFINE k == n + 1
  <2>1. k \in Nat /\ k # 0 /\ k <= Len(s) /\ k - 1 = n /\ s[k] = b /\ 0 + n <= Len(s)
    BY <1>1
  <2> HIDE DEF k
  <2>2. VarintValue(s, 0, k) = VarintValue(s, 0, k - 1) + Contribution(s[k], GroupBits * (k - 1))
    BY <1>1, <2>1, LastGroup
  <2>3. a <= Word
    BY <1>7
  <2>4. w < Word
    <3> HIDE DEF a, w
    <3>1. QED
      BY <1>1, <1>4, <1>7, <2>3
  <2>5. VarintValue(s, 0, n) = w
    BY <1>1, <1>3, <2>1, <2>4, Lossless
  <2>6. QED
    BY <2>1, <2>2, <2>5 DEF k
<1>16. QED
  BY <1>1, <1>12, <1>13, <1>14, <1>15 DEF n, s

-----------------------------------------------------------------------------
(* Reading a frame *)

RxSet == [phase : {"length", "body", "closed"}, length : Nat, shift : Nat, prefix : Seq(Bytes)]

InLength(r) ==
    /\ Continues(r.prefix) /\ Len(r.prefix) < Groups
    /\ r.shift = GroupBits * Len(r.prefix) /\ r.length = TrueLength(r.prefix)

InBody(r) ==
    /\ r.length <= MaxFrame /\ r.length = TrueLength(r.prefix) % Word
    /\ Len(r.prefix) < Groups => r.length = TrueLength(r.prefix)
    /\ DecodeVarintPrefix(r.prefix) = [ok |-> TRUE, value |-> r.length, prefixLength |-> Len(r.prefix)]

IsClosed(r) ==
    \/ Continues(r.prefix) /\ Len(r.prefix) = Groups
    \/ ~Continues(r.prefix) /\ TrueLength(r.prefix) % Word > MaxFrame

\* LengthsAreExact, with the shift it depends on.
ReaderOK(r) ==
    /\ r \in RxSet
    /\ r.phase = "length" => InLength(r)
    /\ r.phase = "body" => InBody(r)
    /\ r.phase = "closed" => IsClosed(r)

\* readOneLengthByte and receive do the same with a byte.
LEMMA SameReader ==
    ASSUME NEW r \in RxSet, r.phase = "length", NEW byte \in Bytes
    PROVE  Receive(r, byte) = ReadOneLengthByte(r, byte)
<1> DEFINE len == r.length + Contribution(byte, r.shift)
           next == [r EXCEPT !.length = @ + Contribution(byte, r.shift), !.prefix = Append(@, byte)]
<1>1. r = [phase |-> "length", length |-> r.length, shift |-> r.shift, prefix |-> r.prefix]
  BY DEF RxSet
<1>2. next = [phase |-> "length", length |-> len, shift |-> r.shift, prefix |-> Append(r.prefix, byte)]
  <2> DEFINE l == r.length
             h == r.shift
             p == r.prefix
             x == l + Contribution(byte, h)
             y == Append(p, byte)
  <2>1. next = [[phase |-> "length", length |-> l, shift |-> h, prefix |-> p] EXCEPT !.length = x, !.prefix = y]
    BY <1>1
  <2> HIDE DEF l, h, p, x, y, next
  <2>2. next = [phase |-> "length", length |-> x, shift |-> h, prefix |-> y]
    BY <2>1
  <2>3. QED
    BY <2>2 DEF l, h, p, x, y
<1>3. byte \in Int /\ Base \in Int
  BY WidthFacts
<1>4. Receive(r, byte) =
        IF byte < Base
        THEN [next EXCEPT !.phase = IF next.length > MaxFrame THEN "closed" ELSE "body"]
        ELSE [next EXCEPT !.shift = @ + GroupBits,
                          !.phase = IF next.shift + GroupBits > MaxShift THEN "closed" ELSE "length"]
  BY DEF Receive
<1> HIDE DEF next
<1>5. CASE byte < Base
  <2>1. ~(byte >= Base)
    BY <1>3, <1>5
  <2>2. Receive(r, byte) = [phase  |-> IF len > MaxFrame THEN "closed" ELSE "body", length |-> len,
                            shift  |-> r.shift, prefix |-> Append(r.prefix, byte)]
    BY <1>2, <1>4, <1>5
  <2>3. QED
    BY <2>1, <2>2 DEF ReadOneLengthByte
<1>6. CASE ~(byte < Base)
  <2>1. byte >= Base
    BY <1>3, <1>6
  <2>2. Receive(r, byte) = [phase  |-> IF r.shift + GroupBits > MaxShift THEN "closed" ELSE "length",
                            length |-> len, shift  |-> r.shift + GroupBits,
                            prefix |-> Append(r.prefix, byte)]
    BY <1>2, <1>4, <1>6
  <2>3. QED
    BY <2>1, <2>2 DEF ReadOneLengthByte
<1>7. QED
  BY <1>5, <1>6

LEMMA ReadsByte ==
    ASSUME NEW r, ReaderOK(r), r.phase = "length", NEW byte \in Bytes
    PROVE  /\ ReaderOK(ReadOneLengthByte(r, byte))
           /\ ReadOneLengthByte(r, byte).prefix = Append(r.prefix, byte)
<1> DEFINE p == r.prefix
           n == Len(p)
           s == Append(p, byte)
           len == Worth(p, 0, n) + Contribution(byte, GroupBits * n)
           next == ReadOneLengthByte(r, byte)
<1>1. r \in RxSet /\ InLength(r)
  BY DEF ReaderOK
<1>2. p \in Seq(Bytes)
  BY <1>1 DEF RxSet
<1>3. n < Groups /\ Continues(p) /\ r.shift = GroupBits * n /\ r.length = Worth(p, 0, n)
  BY <1>1, <1>2, TrueLengthIs DEF InLength
<1>4. /\ s \in Seq(Bytes) /\ Len(s) = n + 1 /\ n \in Nat
      /\ len \in Nat /\ len = Worth(s, 0, n + 1) % Word
      /\ n + 1 < Groups => len = Worth(s, 0, n + 1)
      /\ VarintValue(s, 0, n + 1) = len
  BY <1>2, <1>3, NextByte
<1>5. TrueLength(s) = Worth(s, 0, n + 1)
  BY <1>4, TrueLengthIs
<1>6. /\ s[n + 1] = byte /\ DOMAIN s = 1..(n + 1) /\ DOMAIN p = 1..n
      /\ \A i \in 1..n : s[i] = p[i] /\ p[i] >= Base
  BY <1>2, <1>3, <1>4 DEF Continues
<1>7. byte \in Int /\ Base \in Int /\ Groups \in Nat /\ GroupBits \in Nat /\ MaxShift \in Nat
  BY WidthFacts, WidthAssumption
<1> HIDE DEF p, n, s, len
<1>8. next.prefix = s /\ next.length = len
  BY <1>3 DEF ReadOneLengthByte, len, s, p
<1>9. Continues(s) <=> byte >= Base
  <2>1. byte >= Base => \A i \in DOMAIN s : s[i] >= Base
    BY <1>4, <1>6
  <2>2. n + 1 \in DOMAIN s
    BY <1>4, <1>6
  <2>3. QED
    BY <1>6, <2>1, <2>2 DEF Continues
<1>10. CASE byte >= Base
  <2>1. next = [phase |-> IF r.shift + GroupBits > MaxShift THEN "closed" ELSE "length", length |-> len,
                shift |-> r.shift + GroupBits, prefix |-> s]
    BY <1>3, <1>10 DEF ReadOneLengthByte, len, s, p
  <2>2. r.shift + GroupBits = GroupBits * (n + 1) /\ r.shift + GroupBits \in Nat
    BY <1>3, <1>4, <1>7
  <2>3. r.shift + GroupBits <= MaxShift <=> (n + 1) + 1 <= Groups
    <3>1. n + 1 \in Nat
      BY <1>4
    <3>2. GroupBits * (n + 1) <= MaxShift <=> (n + 1) + 1 <= Groups
      BY <3>1, GroupsFit
    <3>3. QED
      BY <2>2, <3>2
  <2>4. next \in RxSet
    BY <1>4, <2>1, <2>2 DEF RxSet
  <2>5. CASE r.shift + GroupBits > MaxShift
    <3>1. n + 1 = Groups
      BY <1>3, <1>4, <1>7, <2>2, <2>3, <2>5
    <3>2. next.phase = "closed" /\ next.prefix = s
      BY <2>1, <2>5
    <3>3. IsClosed(next)
      BY <1>4, <1>9, <1>10, <3>1, <3>2 DEF IsClosed
    <3>4. QED
      BY <2>4, <3>2, <3>3 DEF ReaderOK, s, p
  <2>6. CASE ~(r.shift + GroupBits > MaxShift)
    <3>1. n + 1 < Groups
      BY <1>4, <1>7, <2>2, <2>3, <2>6
    <3>2. next.phase = "length" /\ next.prefix = s /\ next.length = len /\ next.shift = GroupBits * (n + 1)
      BY <2>1, <2>2, <2>6
    <3>3. InLength(next)
      BY <1>4, <1>5, <1>9, <1>10, <3>1, <3>2 DEF InLength
    <3>4. QED
      BY <2>4, <3>2, <3>3 DEF ReaderOK, s, p
  <2>7. QED
    BY <2>5, <2>6
<1>11. CASE ~(byte >= Base)
  <2>1. next = [phase |-> IF len > MaxFrame THEN "closed" ELSE "body", length |-> len,
                shift |-> r.shift, prefix |-> s]
    BY <1>3, <1>11 DEF ReadOneLengthByte, len, s, p
  <2>2. r.shift \in Nat
    BY <1>1 DEF RxSet
  <2>3. next \in RxSet
    BY <1>4, <2>1, <2>2 DEF RxSet
  <2>4. VarintLength(s, 0) = n + 1
    <3> DEFINE k == n + 1
    <3>1. k \in Nat /\ k # 0 /\ k <= Groups /\ 0 + k <= Len(s) /\ 0 + k = k
      BY <1>3, <1>4, <1>7
    <3>2. s[0 + k] < Base
      BY <1>6, <1>7, <1>11, <3>1
    <3>3. ASSUME NEW i \in 1..(k - 1) PROVE s[0 + i] >= Base
      <4>1. i \in 1..n /\ 0 + i = i
        BY <1>4
      <4>2. QED
        BY <1>6, <4>1
    <3> HIDE DEF k
    <3>4. VarintLength(s, 0) = k
      BY <1>4, <3>1, <3>2, <3>3, VarintEnds
    <3>5. QED
      BY <3>4 DEF k
  <2>5. DecodeVarintPrefix(s) = [ok |-> TRUE, value |-> len, prefixLength |-> n + 1]
    <3>1. n + 1 # 0
      BY <1>4
    <3>2. QED
      BY <1>4, <2>4, <3>1 DEF DecodeVarintPrefix, PrefixOf
  <2>6. CASE len > MaxFrame
    <3>1. next.phase = "closed" /\ next.prefix = s
      BY <2>1, <2>6
    <3>2. IsClosed(next)
      BY <1>4, <1>5, <1>9, <1>11, <2>6, <3>1 DEF IsClosed
    <3>3. QED
      BY <2>3, <3>1, <3>2 DEF ReaderOK, s, p
  <2>7. CASE ~(len > MaxFrame)
    <3>1. next.phase = "body" /\ next.prefix = s /\ next.length = len
      BY <2>1, <2>7
    <3>2. len <= MaxFrame
      BY <1>4, <2>7, FrameAssumption
    <3>3. InBody(next)
      BY <1>4, <1>5, <2>5, <3>1, <3>2 DEF InBody
    <3>4. QED
      BY <2>3, <3>1, <3>3 DEF ReaderOK, s, p
  <2>8. QED
    BY <2>6, <2>7
<1>12. QED
  BY <1>10, <1>11

LEMMA ReadsLengthByte ==
    ASSUME ReaderOK(rx), rx.phase = "length", NEW byte \in Bytes
    PROVE  ReaderOK(LengthByte(rx, byte)) /\ LengthByte(rx, byte) = ReadOneLengthByte(rx, byte)
<1>1. rx \in RxSet
  BY DEF ReaderOK
<1>2. LengthByte(rx, byte) = ReadOneLengthByte(rx, byte)
  BY <1>1, SameReader DEF LengthByte
<1>3. QED
  BY <1>2, ReadsByte

LEMMA StartsFrame == ASSUME NEW r PROVE ReaderOK(FrameStart(r))
<1> DEFINE s == FrameStart(r)
<1>1. s = [phase |-> "length", length |-> 0, shift |-> 0, prefix |-> <<>>]
  BY DEF FrameStart
<1>2. s \in RxSet
  BY <1>1 DEF RxSet
<1>3. TrueLength(<<>>) = 0
  <2> DEFINE e == <<>>
             n == 0
  <2>1. e \in Seq(Bytes) /\ Len(e) = n /\ n \in Nat /\ n + n <= Len(e) /\ n = 0
    OBVIOUS
  <2> HIDE DEF e, n
  <2>2. TrueLength(e) = Worth(e, n, n)
    BY <2>1, TrueLengthIs
  <2>3. Worth(e, n, n) = 0
    BY <2>1, WorthDef
  <2>4. QED
    BY <2>2, <2>3 DEF e
<1>4. InLength(s)
  BY <1>1, <1>3, WidthFacts, WidthAssumption DEF InLength, Continues
<1>5. QED
  BY <1>1, <1>2, <1>4 DEF ReaderOK

-----------------------------------------------------------------------------
(* Integers *)

LEMMA SmallNumbers == /\ \A k \in 1..90 : k \in Numbers
                      /\ \A k \in 0..720 : k \in Nat /\ k < Word
<1>1. NumberBits \in Nat
  BY WidthAssumption
<1>2. Pow2[NumberBits] \in Nat /\ 90 < Pow2[NumberBits]
  BY <1>1, Pow2Def, IntAssumption
<1>3. \A k \in 1..90 : k \in Numbers
  BY <1>2 DEF Numbers
<1>4. 90 \in Numbers /\ 0 \in 0..7
  BY <1>3
<1>5. 90 * 8 + 0 < Word
  BY <1>4, KeyRoom
<1>6. Word \in Nat
  BY WidthFacts
<1>7. QED
  BY <1>3, <1>5, <1>6

LEMMA IntWidth ==
    LET P == Pow2[IntBits]
        H == Pow2[IntBits - 1]
    IN  /\ P \in Nat \ {0} /\ H \in Nat \ {0} /\ P = 2 * H /\ P <= Word
        /\ \E c \in Nat \ {0} : Word = P * c
<1>1. IntBits \in Nat /\ IntBits - 1 \in Nat /\ WordBits - IntBits \in Nat /\ WordBits \in Nat
      /\ (IntBits - 1) + 1 = IntBits /\ IntBits + (WordBits - IntBits) = WordBits /\ IntBits <= WordBits
  BY IntAssumption, WidthAssumption
<1>2. Pow2[IntBits] \in Nat \ {0} /\ Pow2[IntBits - 1] \in Nat \ {0} /\ Pow2[WordBits - IntBits] \in Nat \ {0}
  BY <1>1, Pow2Def
<1>3. Pow2[(IntBits - 1) + 1] = 2 * Pow2[IntBits - 1]
  BY <1>1, Pow2Def
<1>4. Word = Pow2[IntBits] * Pow2[WordBits - IntBits]
  BY <1>1, Pow2Sum DEF Word
<1>5. Pow2[IntBits] <= Word
  BY <1>1, Pow2Monotone DEF Word
<1>6. QED
  BY <1>1, <1>2, <1>3, <1>4, <1>5

LEMMA UnsignedFits ==
    ASSUME NEW v \in Int
    PROVE  ToUnsigned(v) \in Unsigned /\ ToUnsigned(v) \in Nat /\ ToUnsigned(v) < Word
<1> DEFINE P == Pow2[IntBits]
<1>1. P \in Nat \ {0} /\ P <= Word /\ Word \in Nat
  BY IntWidth, WidthFacts
<1>2. ToUnsigned(v) = v % P /\ Unsigned = 0..(P - 1)
  BY DEF ToUnsigned, Unsigned
<1> HIDE DEF P
<1>3. v % P \in 0..(P - 1)
  BY <1>1, ModType
<1>4. QED
  BY <1>1, <1>2, <1>3

LEMMA ModShift ==
    ASSUME NEW P \in Nat \ {0}, NEW x \in Int, NEW c \in Int
    PROVE  (x + (P * c)) % P = x % P
<1> DEFINE q == x \div P
           r == x % P
<1>1. q \in Int /\ r \in 0..(P - 1) /\ x = (P * q) + r
  BY DivMod
<1> HIDE DEF q, r
<1>2. x + (P * c) = (P * (q + c)) + r /\ q + c \in Int
  BY <1>1
<1>3. (x + (P * c)) % P = r
  BY <1>1, <1>2, DivModUnique
<1>4. QED
  BY <1>3 DEF r

\* A value that leaves as an unsigned number comes back as it was.
LEMMA UnsignedBack ==
    ASSUME NEW u \in Unsigned
    PROVE  u \in Nat /\ u < Word /\ ToUnsigned(u) = u
<1> DEFINE P == Pow2[IntBits]
<1>1. P \in Nat \ {0} /\ P <= Word /\ Word \in Nat
  BY IntWidth, WidthFacts
<1>2. ToUnsigned(u) = u % P /\ u \in 0..(P - 1)
  BY DEF ToUnsigned, Unsigned
<1> HIDE DEF P
<1>3. u \in Int /\ u \in Nat /\ u < Word
  BY <1>1, <1>2
<1>4. u % P = u
  BY <1>1, <1>2, <1>3, DivMod
<1>5. QED
  BY <1>2, <1>3, <1>4

LEMMA SignedBack ==
    ASSUME NEW i \in Signed, NEW v \in Int, ToUnsigned(v) = ToUnsigned(i)
    PROVE  ToSigned(v) = i /\ i \in Int
<1> DEFINE P == Pow2[IntBits]
           H == Pow2[IntBits - 1]
           u == ToUnsigned(i)
<1>1. P \in Nat \ {0} /\ H \in Nat \ {0} /\ P = 2 * H
  BY IntWidth
<1>2. /\ Signed = (-H)..(H - 1) /\ u = i % P
      /\ ToSigned(v) = IF u \in Signed THEN u ELSE u - P
  BY DEF Signed, ToUnsigned, ToSigned
<1> HIDE DEF P, H, u
<1>3. i \in Int /\ -H <= i /\ i <= H - 1
  BY <1>1, <1>2
<1>4. CASE i >= 0
  <2>1. i \in 0..(P - 1)
    BY <1>1, <1>3, <1>4
  <2>2. u = i
    BY <1>1, <1>2, <1>3, <2>1, DivMod
  <2>3. QED
    BY <1>2, <1>3, <2>2
<1>5. CASE i < 0
  <2> DEFINE x == i + P
             c == -1
  <2>1. x \in 0..(P - 1) /\ x \in Int /\ c \in Int
    BY <1>1, <1>3, <1>5
  <2>2. i = x + (P * c) /\ i + P = x
    BY <1>1, <1>3
  <2> HIDE DEF x, c
  <2>3. u = x % P
    BY <1>1, <1>2, <2>1, <2>2, ModShift
  <2>a. x % P = x
    BY <1>1, <2>1, DivMod
  <2>4. u = i + P
    BY <2>2, <2>3, <2>a
  <2>5. u \notin Signed
    BY <1>1, <1>2, <1>3, <2>4
  <2>6. QED
    BY <1>1, <1>2, <1>3, <2>4, <2>5
<1>6. QED
  BY <1>3, <1>4, <1>5

LEMMA UnsignedSignedBack ==
    ASSUME NEW i \in Signed
    PROVE  ToSigned(ToUnsigned(i)) = i /\ ToUnsigned(i) \in Nat /\ ToUnsigned(i) < Word
<1>1. i \in Int
  BY SignedBack DEF Signed
<1>2. ToUnsigned(i) \in Unsigned /\ ToUnsigned(i) \in Nat /\ ToUnsigned(i) < Word
  BY <1>1, UnsignedFits
<1>3. ToUnsigned(ToUnsigned(i)) = ToUnsigned(i)
  BY <1>2, UnsignedBack
<1>4. QED
  BY <1>2, <1>3, SignedBack

LEMMA SignExtendedBack ==
    ASSUME NEW i \in Signed
    PROVE  ToSigned(SignExtended(i)) = i /\ SignExtended(i) \in Nat /\ SignExtended(i) < Word
<1> DEFINE P == Pow2[IntBits]
           q == i \div Word
           s == SignExtended(i)
<1>1. i \in Int
  BY SignedBack DEF Signed
<1>2. Word \in Nat \ {0} /\ P \in Nat \ {0}
  BY WidthFacts, IntWidth
<1>3. PICK c \in Nat \ {0} : Word = P * c
  BY IntWidth
<1>4. s = i % Word /\ ToUnsigned(s) = s % P /\ ToUnsigned(i) = i % P
  BY DEF SignExtended, ToUnsigned
<1> HIDE DEF P
<1>5. q \in Int /\ i % Word \in 0..(Word - 1) /\ i = (Word * q) + (i % Word)
  BY <1>1, <1>2, DivMod
<1> HIDE DEF q, s
<1>6. s \in 0..(Word - 1) /\ s \in Int /\ s \in Nat /\ s < Word
  BY <1>2, <1>4, <1>5
<1>7. i = s + (P * (c * q)) /\ c * q \in Int
  <2>1. Word * q = P * (c * q)
    BY <1>2, <1>3, <1>5
  <2>2. c * q \in Int /\ Word * q \in Int
    BY <1>2, <1>3, <1>5
  <2>3. QED
    BY <1>4, <1>5, <1>6, <2>1, <2>2
<1>8. i % P = s % P
  BY <1>2, <1>6, <1>7, ModShift
<1>9. ToSigned(s) = i
  BY <1>4, <1>6, <1>8, SignedBack
<1>10. QED
  BY <1>6, <1>9 DEF s

-----------------------------------------------------------------------------
(* Fields in a message *)

LEMMA FieldsOfKinds ==
    ASSUME NEW n \in Numbers, NEW v \in Nat, NEW b \in Seq(Bytes), NEW type \in 0..7
    PROVE  VarintIs(n, v) \in FieldSet /\ BytesAre(n, type, b) \in FieldSet
BY DEF VarintIs, BytesAre, FieldSet, Numbers, VarintType

LEMMA FindsVarint ==
    ASSUME NEW n \in Numbers, NEW v \in Nat, NEW k, NEW t
    PROVE  LET fs == <<VarintIs(n, v)>>
           IN  /\ fs \in Seq(FieldSet)
               /\ k = n /\ t = VarintType => Finding(fs, Matches(k, t)) = fs /\ FindingLast(fs, Matches(k, t)) = fs
               /\ ~(k = n /\ t = VarintType) =>
                     Finding(fs, Matches(k, t)) = <<>> /\ FindingLast(fs, Matches(k, t)) = <<>>
<1> DEFINE f == VarintIs(n, v)
<1>1. f \in FieldSet
  BY DEF VarintIs, FieldSet, Numbers, VarintType
<1>2. f.number = n /\ f.type = VarintType
  BY DEF VarintIs
<1> HIDE DEF f
<1>3. f \in Matches(k, t) <=> k = n /\ t = VarintType
  BY <1>1, <1>2 DEF Matches
<1>4. <<f>> \in Seq(FieldSet)
  BY <1>1
<1>5. QED
  BY <1>1, <1>3, <1>4, FindingOne DEF f

LEMMA FindsBytes ==
    ASSUME NEW n \in Numbers, NEW b \in Seq(Bytes), NEW k, NEW t
    PROVE  LET fs == <<BytesAre(n, LengthDelimited, b)>>
           IN  /\ fs \in Seq(FieldSet)
               /\ k = n /\ t = LengthDelimited =>
                     Finding(fs, Matches(k, t)) = fs /\ FindingLast(fs, Matches(k, t)) = fs
               /\ ~(k = n /\ t = LengthDelimited) =>
                     Finding(fs, Matches(k, t)) = <<>> /\ FindingLast(fs, Matches(k, t)) = <<>>
<1> DEFINE f == BytesAre(n, LengthDelimited, b)
<1>1. f \in FieldSet
  BY DEF BytesAre, FieldSet, Numbers, LengthDelimited
<1>2. f.number = n /\ f.type = LengthDelimited
  BY DEF BytesAre
<1> HIDE DEF f
<1>3. f \in Matches(k, t) <=> k = n /\ t = LengthDelimited
  BY <1>1, <1>2 DEF Matches
<1>4. <<f>> \in Seq(FieldSet)
  BY <1>1
<1>5. QED
  BY <1>1, <1>3, <1>4, FindingOne DEF f

\* All of these fields are of one sort.
AllIn(fs, F) == fs \in Seq(FieldSet) /\ \A i \in DOMAIN fs : fs[i] \in F

LEMMA FindsNone ==
    ASSUME NEW fs, NEW F, NEW M, AllIn(fs, F), \A f \in F : f \notin M
    PROVE  Finding(fs, M) = <<>> /\ FindingLast(fs, M) = <<>>
<1>1. fs \in Seq(FieldSet) /\ \A i \in DOMAIN fs : fs[i] \notin M
  BY DEF AllIn
<1>2. QED
  BY <1>1, FindingIs

LEMMA AllInBoth ==
    ASSUME NEW fs, NEW gs, NEW F, AllIn(fs, F), AllIn(gs, F)
    PROVE  AllIn(fs \o gs, F)
<1> DEFINE m == Len(fs)
           n == Len(gs)
           all == fs \o gs
<1>1. /\ fs \in Seq(FieldSet) /\ gs \in Seq(FieldSet)
      /\ \A i \in DOMAIN fs : fs[i] \in F
      /\ \A i \in DOMAIN gs : gs[i] \in F
  BY DEF AllIn
<1>2. /\ all \in Seq(FieldSet) /\ m \in Nat /\ n \in Nat
      /\ DOMAIN fs = 1..m /\ DOMAIN gs = 1..n /\ DOMAIN all = 1..(m + n)
      /\ \A i \in 1..m : all[i] = fs[i]
      /\ \A i \in 1..n : all[m + i] = gs[i]
  BY <1>1
<1> HIDE DEF m, n, all
<1>3. ASSUME NEW i \in DOMAIN all PROVE all[i] \in F
  <2>1. CASE i \in 1..m
    BY <1>1, <1>2, <2>1
  <2>2. CASE i \notin 1..m
    <3>1. i - m \in 1..n /\ m + (i - m) = i
      BY <1>2, <2>2
    <3>2. QED
      BY <1>1, <1>2, <3>1
  <2>3. QED
    BY <2>1, <2>2
<1>4. QED
  BY <1>2, <1>3 DEF AllIn, all

LEMMA AllInOne == ASSUME NEW f \in FieldSet, NEW F, f \in F PROVE AllIn(<<f>>, F)
BY DEF AllIn

-----------------------------------------------------------------------------
(* Fields that a client does not know *)

Foreign ==
    {f \in FieldSet : \/ f.number \in {60, 61}
                      \/ f.number = 9 /\ f.type = Fixed32
                      \/ f.number = 8 /\ f.type = Fixed64}
OutOfPlace == Foreign \cup {VarintIs(1, 5)}

LEMMA ZerosAre == ASSUME NEW n \in Nat PROVE Zeros(n) \in Seq(Bytes) /\ Len(Zeros(n)) = n
<1>1. 0 \in Bytes
  BY WidthFacts
<1>2. QED
  BY <1>1 DEF Zeros

\* What an extra is, field by field.
IsExtra(e, fs) ==
    /\ Encodes(e, fs) /\ AllIn(fs, OutOfPlace)
    /\ e # VarintField(1, 5) => AllIn(fs, Foreign)

LEMMA ExtrasAre == ASSUME NEW e \in Extras PROVE \E fs : IsExtra(e, fs)
<1>0. /\ 1 \in Numbers /\ 60 \in Numbers /\ 61 \in Numbers /\ 8 \in Numbers /\ 9 \in Numbers
      /\ 5 \in Nat /\ 5 < Word /\ 1 < Word /\ Word \in Nat
  BY SmallNumbers, WidthFacts
<1>1. CASE e = VarintField(1, 5)
  <2>1. Encodes(e, <<VarintIs(1, 5)>>)
    BY <1>0, <1>1, VarintFieldIsRead, EncodesOne
  <2>2. VarintIs(1, 5) \in FieldSet
    BY <1>0 DEF VarintIs, FieldSet, Numbers, VarintType
  <2>3. AllIn(<<VarintIs(1, 5)>>, OutOfPlace)
    BY <2>2, AllInOne DEF OutOfPlace
  <2>4. QED
    BY <1>1, <2>1, <2>3 DEF IsExtra
<1>2. CASE e = BytesField(60, VarintField(1, 1)) \o Key(9, Fixed32) \o Zeros(Fixed32Size)
  <2> DEFINE b == VarintField(1, 1)
             z == Zeros(Fixed32Size)
             f == BytesAre(60, LengthDelimited, b)
             g == BytesAre(9, Fixed32, z)
  <2>1. Writes(b, <<VarintIs(1, 1)>>, 2 * Groups)
    BY <1>0, WritesVarint
  <2>2. b \in Seq(Bytes) /\ Len(b) <= 2 * Groups
    BY <2>1, WritesBytes
  <2>3. Len(b) < Word
    <3>1. VoiceChunk \in Nat /\ 3 * VoiceChunk + 20 * Groups < Word
      BY FrameAssumption, RoomAssumption
    <3>2. Len(b) \in Nat /\ Groups \in Nat
      BY <2>2, WidthFacts
    <3> HIDE DEF b
    <3>3. QED
      BY <1>0, <2>2, <3>1, <3>2
  <2>4. z \in Seq(Bytes) /\ Len(z) = Fixed32Size
    BY WidthAssumption, ZerosAre
  <2> HIDE DEF b, z
  <2>5. IsReadAs(BytesField(60, b), f)
    BY <1>0, <2>2, <2>3, BytesFieldIsRead
  <2>6. Fills(Fixed32, z) /\ Fixed32 \in {Fixed64, Fixed32}
    BY <2>4 DEF Fills, Fixed32, Fixed64
  <2>7. IsReadAs(Key(9, Fixed32) \o z, g)
    BY <1>0, <2>4, <2>6, FixedFieldIsRead
  <2>8. Encodes(BytesField(60, b) \o (Key(9, Fixed32) \o z), <<f>> \o <<g>>)
    BY <2>5, <2>7, EncodesOne, EncodesBoth
  <2>9. BytesField(60, b) \o (Key(9, Fixed32) \o z) = BytesField(60, b) \o Key(9, Fixed32) \o z
    <3>1. Fixed32 \in 0..7
      BY DEF Fixed32
    <3>2. BytesField(60, b) \in Seq(Bytes) /\ Key(9, Fixed32) \in Seq(Bytes)
      BY <1>0, <2>2, <3>1, BytesFieldBytes, KeyBytes
    <3>3. QED
      BY <2>4, <3>2
  <2>10. f \in FieldSet /\ g \in FieldSet /\ f.number = 60 /\ g.number = 9 /\ g.type = Fixed32
    BY <1>0, <2>2, <2>4 DEF BytesAre, FieldSet, Numbers, LengthDelimited, Fixed32
  <2> HIDE DEF f, g
  <2>11. f \in Foreign /\ g \in Foreign /\ f \in OutOfPlace /\ g \in OutOfPlace
    BY <2>10 DEF Foreign, OutOfPlace
  <2>12. AllIn(<<f>> \o <<g>>, OutOfPlace) /\ AllIn(<<f>> \o <<g>>, Foreign)
    BY <2>10, <2>11, AllInOne, AllInBoth
  <2>13. Encodes(e, <<f>> \o <<g>>)
    BY <1>2, <2>8, <2>9 DEF b, z
  <2>14. IsExtra(e, <<f>> \o <<g>>)
    BY <2>12, <2>13 DEF IsExtra
  <2>15. QED
    BY <2>14
<1>3. CASE e = VarintField(61, Word - 1) \o Key(8, Fixed64) \o Zeros(Fixed64Size)
  <2> DEFINE v == VarintField(61, Word - 1)
             z == Zeros(Fixed64Size)
             f == VarintIs(61, Word - 1)
             g == BytesAre(8, Fixed64, z)
  <2>1. Word - 1 \in Nat /\ Word - 1 < Word
    BY <1>0
  <2>2. IsReadAs(v, f) /\ v \in Seq(Bytes)
    BY <1>0, <2>1, VarintFieldIsRead DEF IsReadAs
  <2>4. z \in Seq(Bytes) /\ Len(z) = Fixed64Size
    BY WidthAssumption, ZerosAre
  <2> HIDE DEF v, z
  <2>6. Fills(Fixed64, z) /\ Fixed64 \in {Fixed64, Fixed32}
    BY <2>4 DEF Fills, Fixed32, Fixed64
  <2>7. IsReadAs(Key(8, Fixed64) \o z, g)
    BY <1>0, <2>4, <2>6, FixedFieldIsRead
  <2>8. Encodes(v \o (Key(8, Fixed64) \o z), <<f>> \o <<g>>)
    BY <2>2, <2>7, EncodesOne, EncodesBoth
  <2>9. v \o (Key(8, Fixed64) \o z) = v \o Key(8, Fixed64) \o z
    <3>1. Fixed64 \in 0..7
      BY DEF Fixed64
    <3>2. Key(8, Fixed64) \in Seq(Bytes)
      BY <1>0, <3>1, KeyBytes
    <3>3. QED
      BY <2>2, <2>4, <3>2
  <2>10. f \in FieldSet /\ g \in FieldSet /\ f.number = 61 /\ g.number = 8 /\ g.type = Fixed64
    BY <1>0, <2>1, <2>4 DEF BytesAre, VarintIs, FieldSet, Numbers, VarintType, Fixed64
  <2> HIDE DEF f, g
  <2>11. f \in Foreign /\ g \in Foreign /\ f \in OutOfPlace /\ g \in OutOfPlace
    BY <2>10 DEF Foreign, OutOfPlace
  <2>12. AllIn(<<f>> \o <<g>>, OutOfPlace) /\ AllIn(<<f>> \o <<g>>, Foreign)
    BY <2>10, <2>11, AllInOne, AllInBoth
  <2>13. Encodes(e, <<f>> \o <<g>>)
    BY <1>3, <2>8, <2>9 DEF v, z
  <2>14. IsExtra(e, <<f>> \o <<g>>)
    BY <2>12, <2>13 DEF IsExtra
  <2>15. QED
    BY <2>14
<1>4. QED
  BY <1>1, <1>2, <1>3 DEF Extras

\* What is before, inside and after a message.
Padding(p, xs, ys, zs) ==
    /\ Encodes(p[1], xs) /\ AllIn(xs, OutOfPlace)
    /\ Encodes(p[2], ys) /\ AllIn(ys, Foreign)
    /\ Encodes(p[3], zs) /\ AllIn(zs, OutOfPlace)

LEMMA PlacedIsPadding == ASSUME NEW p \in Placed PROVE \E xs, ys, zs : Padding(p, xs, ys, zs)
<1>1. Encodes(<<>>, <<>>) /\ AllIn(<<>>, OutOfPlace) /\ AllIn(<<>>, Foreign)
  BY EncodesNone DEF AllIn
<1>2. CASE p = NoExtras
  <2>1. p[1] = <<>> /\ p[2] = <<>> /\ p[3] = <<>>
    BY <1>2 DEF NoExtras
  <2>2. Padding(p, <<>>, <<>>, <<>>)
    BY <1>1, <2>1 DEF Padding
  <2>3. QED
    BY <2>2
<1>3. ASSUME NEW e \in Extras, p = <<e, <<>>, <<>>>> PROVE \E xs, ys, zs : Padding(p, xs, ys, zs)
  <2>1. PICK fs : IsExtra(e, fs)
    BY ExtrasAre
  <2>2. p[1] = e /\ p[2] = <<>> /\ p[3] = <<>>
    BY <1>3
  <2>3. Padding(p, fs, <<>>, <<>>)
    BY <1>1, <2>1, <2>2 DEF Padding, IsExtra
  <2>4. QED
    BY <2>3
<1>4. ASSUME NEW e \in Extras, p = <<<<>>, <<>>, e>> PROVE \E xs, ys, zs : Padding(p, xs, ys, zs)
  <2>1. PICK fs : IsExtra(e, fs)
    BY ExtrasAre
  <2>2. p[1] = <<>> /\ p[2] = <<>> /\ p[3] = e
    BY <1>4
  <2>3. Padding(p, <<>>, <<>>, fs)
    BY <1>1, <2>1, <2>2 DEF Padding, IsExtra
  <2>4. QED
    BY <2>3
<1>5. ASSUME NEW e \in Extras \ {VarintField(1, 5)}, p = <<<<>>, e, <<>>>>
      PROVE \E xs, ys, zs : Padding(p, xs, ys, zs)
  <2>1. PICK fs : IsExtra(e, fs)
    BY ExtrasAre
  <2>2. p[1] = <<>> /\ p[2] = e /\ p[3] = <<>>
    BY <1>5
  <2>3. Padding(p, <<>>, fs, <<>>)
    BY <1>1, <2>1, <2>2 DEF Padding, IsExtra
  <2>4. QED
    BY <2>3
<1>6. QED
  BY <1>2, <1>3, <1>4, <1>5 DEF Placed

-----------------------------------------------------------------------------
(* What the client finds in a message *)

VarintAt(fs, n) == VarintIn(Finding(fs, Matches(n, VarintType)))
BytesAt(fs, n)  == BytesIn(Finding(fs, Matches(n, LengthDelimited)))

LEMMA FoundAt ==
    ASSUME NEW t, NEW fs, Encodes(t, fs)
    PROVE  \A n : FindVarint(t, n) = VarintAt(fs, n) /\ FindBytes(t, n) = BytesAt(fs, n)
<1>1. fs \in Seq(FieldSet) /\ Fields(t) = fs
  BY EncodesAll DEF Encodes
<1>2. SUFFICES ASSUME NEW n
               PROVE  FindVarint(t, n) = VarintAt(fs, n) /\ FindBytes(t, n) = BytesAt(fs, n)
  OBVIOUS
<1>3. /\ FirstOf(fs, n, VarintType) = Finding(fs, Matches(n, VarintType))
      /\ FirstOf(fs, n, LengthDelimited) = Finding(fs, Matches(n, LengthDelimited))
  BY <1>1, PlacesAre
<1>4. QED
  BY <1>1, <1>3 DEF FindVarint, FindBytes, VarintAt, BytesAt

LEMMA AtNone == \A n : VarintAt(<<>>, n) = <<>> /\ BytesAt(<<>>, n) = <<>>
BY FindingNone DEF VarintAt, BytesAt, VarintIn, BytesIn

LEMMA AtVarint ==
    ASSUME NEW n \in Numbers, NEW v \in Nat
    PROVE  /\ <<VarintIs(n, v)>> \in Seq(FieldSet)
           /\ VarintAt(<<VarintIs(n, v)>>, n) = <<v>>
           /\ \A k : k # n => VarintAt(<<VarintIs(n, v)>>, k) = <<>>
           /\ \A k : BytesAt(<<VarintIs(n, v)>>, k) = <<>>
<1> DEFINE f == VarintIs(n, v)
<1>1. <<f>> \in Seq(FieldSet) /\ Finding(<<f>>, Matches(n, VarintType)) = <<f>>
  BY FindsVarint
<1>2. ASSUME NEW k, k # n PROVE Finding(<<f>>, Matches(k, VarintType)) = <<>>
  BY <1>2, FindsVarint
<1>3. ASSUME NEW k PROVE Finding(<<f>>, Matches(k, LengthDelimited)) = <<>>
  <2>1. LengthDelimited # VarintType
    BY DEF LengthDelimited, VarintType
  <2>2. QED
    BY <2>1, FindsVarint
<1>4. f.varint = v /\ <<f>> # <<>> /\ <<f>>[1] = f
  BY DEF VarintIs
<1> HIDE DEF f
<1>5. QED
  BY <1>1, <1>2, <1>3, <1>4 DEF VarintAt, BytesAt, VarintIn, BytesIn, f

LEMMA AtBytes ==
    ASSUME NEW n \in Numbers, NEW b \in Seq(Bytes)
    PROVE  LET fs == <<BytesAre(n, LengthDelimited, b)>>
           IN  /\ fs \in Seq(FieldSet) /\ BytesAt(fs, n) = <<b>>
               /\ \A k : k # n => BytesAt(fs, k) = <<>>
               /\ \A k : VarintAt(fs, k) = <<>>
<1> DEFINE f == BytesAre(n, LengthDelimited, b)
<1>1. <<f>> \in Seq(FieldSet) /\ Finding(<<f>>, Matches(n, LengthDelimited)) = <<f>>
  BY FindsBytes
<1>2. ASSUME NEW k, k # n PROVE Finding(<<f>>, Matches(k, LengthDelimited)) = <<>>
  BY <1>2, FindsBytes
<1>3. ASSUME NEW k PROVE Finding(<<f>>, Matches(k, VarintType)) = <<>>
  <2>1. LengthDelimited # VarintType
    BY DEF LengthDelimited, VarintType
  <2>2. QED
    BY <2>1, FindsBytes
<1>4. f.bytes = b /\ <<f>> # <<>> /\ <<f>>[1] = f
  BY DEF BytesAre
<1> HIDE DEF f
<1>5. QED
  BY <1>1, <1>2, <1>3, <1>4 DEF VarintAt, BytesAt, VarintIn, BytesIn, f

LEMMA AtBoth ==
    ASSUME NEW fs \in Seq(FieldSet), NEW gs \in Seq(FieldSet)
    PROVE  /\ fs \o gs \in Seq(FieldSet)
           /\ \A n : /\ VarintAt(fs \o gs, n) = IF VarintAt(fs, n) = <<>> THEN VarintAt(gs, n) ELSE VarintAt(fs, n)
                     /\ BytesAt(fs \o gs, n) = IF BytesAt(fs, n) = <<>> THEN BytesAt(gs, n) ELSE BytesAt(fs, n)
<1>1. fs \o gs \in Seq(FieldSet)
  OBVIOUS
<1>2. \A x : (VarintIn(x) = <<>> <=> x = <<>>) /\ (BytesIn(x) = <<>> <=> x = <<>>)
  BY DEF VarintIn, BytesIn
<1>3. \A M : Finding(fs \o gs, M) = IF Finding(fs, M) = <<>> THEN Finding(gs, M) ELSE Finding(fs, M)
  BY FindingBoth
<1>4. QED
  BY <1>1, <1>2, <1>3 DEF VarintAt, BytesAt

LEMMA AtFirst ==
    ASSUME NEW fs \in Seq(FieldSet), NEW gs \in Seq(FieldSet), NEW n, NEW v
    PROVE  /\ VarintAt(fs, n) = <<v>> => VarintAt(fs \o gs, n) = <<v>>
           /\ BytesAt(fs, n) = <<v>> => BytesAt(fs \o gs, n) = <<v>>
<1> DEFINE x == <<v>>
<1>1. x # <<>>
  OBVIOUS
<1> HIDE DEF x
<1>2. /\ VarintAt(fs, n) = x => VarintAt(fs \o gs, n) = x
      /\ BytesAt(fs, n) = x => BytesAt(fs \o gs, n) = x
  BY <1>1, AtBoth
<1>3. QED
  BY <1>2 DEF x

LEMMA AtSecond ==
    ASSUME NEW fs \in Seq(FieldSet), NEW gs \in Seq(FieldSet), NEW n
    PROVE  /\ VarintAt(fs, n) = <<>> => VarintAt(fs \o gs, n) = VarintAt(gs, n)
           /\ BytesAt(fs, n) = <<>> => BytesAt(fs \o gs, n) = BytesAt(gs, n)
BY AtBoth

\* Unknown fields inside a message are passed over.
LEMMA FoundInside ==
    ASSUME NEW s, NEW xs, NEW t, NEW fs, Encodes(s, xs), AllIn(xs, Foreign), Encodes(t, fs),
           NEW n, n \notin {60, 61}
    PROVE  FindVarint(s \o t, n) = VarintAt(fs, n) /\ FindBytes(s \o t, n) = BytesAt(fs, n)
<1>1. Encodes(s \o t, xs \o fs)
  BY EncodesBoth
<1>2. xs \in Seq(FieldSet) /\ fs \in Seq(FieldSet)
  BY DEF Encodes
<1>3. /\ \A f \in Foreign : f \notin Matches(n, VarintType)
      /\ \A f \in Foreign : f \notin Matches(n, LengthDelimited)
  BY DEF Foreign, Matches, VarintType, LengthDelimited, Fixed32, Fixed64
<1>4. Finding(xs, Matches(n, VarintType)) = <<>> /\ Finding(xs, Matches(n, LengthDelimited)) = <<>>
  BY <1>3, FindsNone
<1>5. VarintAt(xs, n) = <<>> /\ BytesAt(xs, n) = <<>>
  BY <1>4 DEF VarintAt, BytesAt, VarintIn, BytesIn
<1>6. QED
  BY <1>1, <1>2, <1>5, FoundAt, AtBoth

-----------------------------------------------------------------------------
(* What fits into a word *)

Fits(s) == s \in Seq(Bytes) /\ Len(s) < Word

LEMMA FitParts ==
    ASSUME NEW s \in Seq(Bytes), NEW t \in Seq(Bytes), Fits(s \o t)
    PROVE  Fits(s) /\ Fits(t)
<1>1. Len(s \o t) = Len(s) + Len(t) /\ Len(s) \in Nat /\ Len(t) \in Nat /\ Word \in Nat
  BY WidthFacts
<1>2. QED
  BY <1>1 DEF Fits

LEMMA FitContents ==
    ASSUME NEW n \in Numbers, NEW b \in Seq(Bytes), Fits(BytesField(n, b))
    PROVE  Fits(b)
<1>1. LengthDelimited \in 0..7 /\ Len(b) \in Nat
  BY DEF LengthDelimited
<1>2. Key(n, LengthDelimited) \in Seq(Bytes) /\ Varint(Len(b)) \in Seq(Bytes)
  BY <1>1, KeyBytes, VarintBytes
<1>3. QED
  BY <1>2, FitParts, Concatenates DEF BytesField

LEMMA MessageEncodes ==
    ASSUME NEW n \in Numbers, NEW b \in Seq(Bytes), Fits(BytesField(n, b))
    PROVE  Encodes(BytesField(n, b), <<BytesAre(n, LengthDelimited, b)>>)
BY FitContents, BytesFieldIsRead, EncodesOne DEF Fits

LEMMA VarintEncodes ==
    ASSUME NEW n \in Numbers, NEW v \in Nat, v < Word
    PROVE  Encodes(VarintField(n, v), <<VarintIs(n, v)>>)
BY VarintFieldIsRead, EncodesOne

-----------------------------------------------------------------------------
(* The television's messages *)

\* The field n of a message, if it is there, says i, and no other is there.
SaysInt(s, n, i, fs) ==
    /\ Encodes(s, fs) /\ AsI32(VarintAt(fs, n)) = i
    /\ \A k : k # n => VarintAt(fs, k) = <<>>
    /\ \A k : BytesAt(fs, k) = <<>>

LEMMA TvIntSays == ASSUME NEW n \in Numbers, NEW i \in Signed PROVE \E fs : SaysInt(TvInt(n, i), n, i, fs)
<1>1. CASE i = 0
  <2>1. TvInt(n, i) = <<>>
    BY <1>1 DEF TvInt
  <2>2. AsI32(VarintAt(<<>>, n)) = 0
    BY AtNone DEF AsI32
  <2>3. SaysInt(TvInt(n, i), n, i, <<>>)
    BY <1>1, <2>1, <2>2, EncodesNone, AtNone DEF SaysInt
  <2>4. QED
    BY <2>3
<1>2. CASE i # 0
  <2> DEFINE v == SignExtended(i)
             fs == <<VarintIs(n, v)>>
  <2>1. ToSigned(v) = i /\ v \in Nat /\ v < Word
    BY SignExtendedBack
  <2>2. TvInt(n, i) = VarintField(n, v)
    BY <1>2 DEF TvInt
  <2> HIDE DEF v
  <2>3. Encodes(VarintField(n, v), fs)
    BY <2>1, VarintEncodes
  <2>4. /\ VarintAt(fs, n) = <<v>>
        /\ \A k : k # n => VarintAt(fs, k) = <<>>
        /\ \A k : BytesAt(fs, k) = <<>>
    BY <2>1, AtVarint
  <2>5. AsI32(<<v>>) = i
    BY <2>1 DEF AsI32
  <2> HIDE DEF fs
  <2>6. SaysInt(TvInt(n, i), n, i, fs)
    BY <2>2, <2>3, <2>4, <2>5 DEF SaysInt
  <2>7. QED
    BY <2>6
<1>3. QED
  BY <1>1, <1>2

LEMMA TvBoolSays ==
    ASSUME NEW n \in Numbers, NEW b \in BOOLEAN
    PROVE  \E v \in Nat : /\ v < Word /\ TvBool(n, b) = VarintField(n, v)
                          /\ AsBool(<<v>>) = b
<1>1. 0 \in Nat /\ 0 < Word /\ 1 \in Nat /\ 1 < Word
  BY WidthFacts
<1>2. AsBool(<<0>>) = FALSE /\ AsBool(<<1>>) = TRUE
  <2>1. <<0>> # <<>> /\ <<1>> # <<>> /\ <<0>>[1] = 0 /\ <<1>>[1] = 1 /\ 1 # 0
    OBVIOUS
  <2>2. QED
    BY <2>1 DEF AsBool
<1>3. CASE b = TRUE
  BY <1>1, <1>2, <1>3 DEF TvBool
<1>4. CASE b = FALSE
  BY <1>1, <1>2, <1>4 DEF TvBool
<1>5. QED
  BY <1>3, <1>4

\* The client finds in the body of a message what the television means, behind
\* any fields it does not know.
BodyMeans(m) ==
    /\ m = Meant(m.kind, m.values)
    /\ TvBody(m) \in Seq(Bytes) /\ m.kind \in DOMAIN KindNumbers
    /\ Fits(TvBody(m)) =>
          \A s, xs : Encodes(s, xs) /\ AllIn(xs, Foreign) => Values(m.kind, s \o TvBody(m)) = m.values

LEMMA IntMeans ==
    ASSUME NEW k \in {"Ping", "VoiceBegin"}, NEW i \in Signed
    PROVE  BodyMeans(Meant(k, <<i>>))
<1> DEFINE m == Meant(k, <<i>>)
<1>1. /\ m.kind = k /\ m.values = <<i>> /\ m.values[1] = i /\ k \in DOMAIN KindNumbers
      /\ TvBody(m) = TvInt(1, i)
  BY DEF Meant, TvBody, KindNumbers
<1>2. 1 \in Numbers /\ 1 \notin {60, 61}
  BY SmallNumbers
<1>3. PICK fs : SaysInt(TvInt(1, i), 1, i, fs)
  BY <1>2, TvIntSays
<1>4. TvBody(m) \in Seq(Bytes)
  BY <1>1, <1>3 DEF SaysInt, Encodes
<1>5. ASSUME NEW s, NEW xs, Encodes(s, xs), AllIn(xs, Foreign)
      PROVE  Values(k, s \o TvBody(m)) = <<i>>
  <2>1. FindVarint(s \o TvInt(1, i), 1) = VarintAt(fs, 1)
    BY <1>2, <1>3, <1>5, FoundInside DEF SaysInt
  <2>2. Values(k, s \o TvBody(m)) = <<AsI32(FindVarint(s \o TvInt(1, i), 1))>>
    BY <1>1 DEF Values
  <2>3. QED
    BY <1>3, <2>1, <2>2 DEF SaysInt
<1> HIDE DEF m
<1>6. QED
  BY <1>1, <1>4, <1>5 DEF BodyMeans, m

LEMMA BatchEditMeans ==
    ASSUME NEW i \in Signed, NEW j \in Signed
    PROVE  BodyMeans(Meant("ImeBatchEdit", <<i, j>>))
<1> DEFINE m == Meant("ImeBatchEdit", <<i, j>>)
           t == TvInt(1, i) \o TvInt(2, j)
<1>1. /\ m.kind = "ImeBatchEdit" /\ m.values = <<i, j>> /\ m.kind \in DOMAIN KindNumbers
      /\ TvBody(m) = t
  BY DEF Meant, TvBody, KindNumbers
<1>2. 1 \in Numbers /\ 1 \notin {60, 61} /\ 2 \in Numbers /\ 2 \notin {60, 61} /\ 1 # 2
  BY SmallNumbers
<1>3. PICK fs : SaysInt(TvInt(1, i), 1, i, fs)
  BY <1>2, TvIntSays
<1>4. PICK gs : SaysInt(TvInt(2, j), 2, j, gs)
  BY <1>2, TvIntSays
<1>5. Encodes(t, fs \o gs) /\ fs \in Seq(FieldSet) /\ gs \in Seq(FieldSet)
  <2>1. Encodes(TvInt(1, i), fs) /\ Encodes(TvInt(2, j), gs)
    BY <1>3, <1>4 DEF SaysInt
  <2>2. Encodes(t, fs \o gs)
    BY <2>1, EncodesBoth
  <2>3. QED
    BY <2>1, <2>2 DEF Encodes
<1>6. VarintAt(fs \o gs, 1) = VarintAt(fs, 1) /\ VarintAt(fs \o gs, 2) = VarintAt(gs, 2)
  BY <1>2, <1>3, <1>4, <1>5, AtBoth DEF SaysInt
<1>7. t \in Seq(Bytes)
  BY <1>5 DEF Encodes
<1> HIDE DEF t
<1>8. ASSUME NEW s, NEW xs, Encodes(s, xs), AllIn(xs, Foreign)
      PROVE  Values(m.kind, s \o t) = <<i, j>>
  <2>1. FindVarint(s \o t, 1) = VarintAt(fs, 1) /\ FindVarint(s \o t, 2) = VarintAt(gs, 2)
    BY <1>2, <1>5, <1>6, <1>8, FoundInside
  <2>2. Values(m.kind, s \o t) = <<AsI32(FindVarint(s \o t, 1)), AsI32(FindVarint(s \o t, 2))>>
    BY <1>1 DEF Values
  <2>3. QED
    BY <1>3, <1>4, <2>1, <2>2 DEF SaysInt
<1> HIDE DEF m
<1>9. QED
  BY <1>1, <1>7, <1>8 DEF BodyMeans, m

LEMMA KeyInjectMeans ==
    ASSUME NEW t \in Seq(Bytes)
    PROVE  BodyMeans(Meant("ImeKeyInject", <<t>>))
<1> DEFINE m == Meant("ImeKeyInject", <<t>>)
           inner == BytesField(12, t)
           body == BytesField(1, inner)
<1>1. /\ m.kind = "ImeKeyInject" /\ m.values = <<t>> /\ m.kind \in DOMAIN KindNumbers
      /\ TvBody(m) = body
  BY DEF Meant, TvBody, KindNumbers
<1>2. 1 \in Numbers /\ 1 \notin {60, 61} /\ 12 \in Numbers /\ 1 \in Nat /\ 12 \in Nat
  BY SmallNumbers
<1>3. inner \in Seq(Bytes)
  BY <1>2, BytesFieldBytes
<1> HIDE DEF inner
<1>4. body \in Seq(Bytes)
  BY <1>2, <1>3, BytesFieldBytes
<1>5. ASSUME Fits(body), NEW s, NEW xs, Encodes(s, xs), AllIn(xs, Foreign)
      PROVE  Values(m.kind, s \o body) = <<t>>
  <2>1. Encodes(body, <<BytesAre(1, LengthDelimited, inner)>>) /\ Fits(inner)
    BY <1>2, <1>3, <1>5, MessageEncodes, FitContents
  <2>2. Encodes(inner, <<BytesAre(12, LengthDelimited, t)>>)
    BY <1>2, <2>1, MessageEncodes DEF inner
  <2> HIDE DEF body
  <2>3. FindBytes(s \o body, 1) = <<inner>>
    BY <1>2, <1>3, <1>5, <2>1, FoundInside, AtBytes
  <2>4. FindBytes(inner, 12) = <<t>>
    BY <1>2, <2>2, FoundAt, AtBytes
  <2>5. Values(m.kind, s \o body) = <<TextIn(TextIn(s \o body, 1), 12)>>
    BY <1>1 DEF Values
  <2>6. TextIn(s \o body, 1) = inner
    BY <2>3 DEF TextIn, OrEmpty
  <2>7. TextIn(inner, 12) = t
    BY <2>4 DEF TextIn, OrEmpty
  <2>8. QED
    BY <2>5, <2>6, <2>7
<1> HIDE DEF m, body
<1>6. QED
  BY <1>1, <1>4, <1>5 DEF BodyMeans, m

LEMMA StartMeans ==
    ASSUME NEW b \in BOOLEAN
    PROVE  BodyMeans(Meant("Start", <<b>>))
<1> DEFINE m == Meant("Start", <<b>>)
<1>1. /\ m.kind = "Start" /\ m.values = <<b>> /\ m.kind \in DOMAIN KindNumbers
      /\ TvBody(m) = TvBool(1, b)
  BY DEF Meant, TvBody, KindNumbers
<1>2. 1 \in Numbers /\ 1 \notin {60, 61}
  BY SmallNumbers
<1>3. PICK v \in Nat : v < Word /\ TvBool(1, b) = VarintField(1, v) /\ AsBool(<<v>>) = b
  BY <1>2, TvBoolSays
<1> DEFINE body == VarintField(1, v)
<1>4. Encodes(body, <<VarintIs(1, v)>>) /\ body \in Seq(Bytes)
  BY <1>2, <1>3, VarintEncodes DEF Encodes
<1> HIDE DEF body
<1>5. ASSUME NEW s, NEW xs, Encodes(s, xs), AllIn(xs, Foreign)
      PROVE  Values(m.kind, s \o body) = <<b>>
  <2>1. FindVarint(s \o body, 1) = <<v>>
    BY <1>2, <1>3, <1>4, <1>5, FoundInside, AtVarint
  <2>2. Values(m.kind, s \o body) = <<AsBool(FindVarint(s \o body, 1))>>
    BY <1>1 DEF Values
  <2>3. QED
    BY <1>3, <2>1, <2>2
<1> HIDE DEF m
<1>6. QED
  BY <1>1, <1>3, <1>4, <1>5 DEF BodyMeans, m, body

LEMMA VolumeMeans ==
    ASSUME NEW x \in Unsigned, NEW l \in Unsigned, NEW b \in BOOLEAN
    PROVE  BodyMeans(Meant("Volume", <<x, l, b>>))
<1> DEFINE m == Meant("Volume", <<x, l, b>>)
<1>1. /\ m.kind = "Volume" /\ m.values = <<x, l, b>> /\ m.kind \in DOMAIN KindNumbers
      /\ TvBody(m) = VarintField(6, x) \o VarintField(7, l) \o TvBool(8, b)
  BY DEF Meant, TvBody, KindNumbers
<1>2. /\ 6 \in Numbers /\ 7 \in Numbers /\ 8 \in Numbers
      /\ 6 \notin {60, 61} /\ 7 \notin {60, 61} /\ 8 \notin {60, 61}
      /\ 6 # 7 /\ 7 # 8 /\ 6 # 8
  BY SmallNumbers
<1>3. PICK v \in Nat : v < Word /\ TvBool(8, b) = VarintField(8, v) /\ AsBool(<<v>>) = b
  BY <1>2, TvBoolSays
<1>4. x \in Nat /\ x < Word /\ ToUnsigned(x) = x /\ l \in Nat /\ l < Word /\ ToUnsigned(l) = l
  BY UnsignedBack
<1> DEFINE body == VarintField(6, x) \o VarintField(7, l) \o VarintField(8, v)
           f == <<VarintIs(6, x)>>
           g == <<VarintIs(7, l)>>
           h == <<VarintIs(8, v)>>
           fs == f \o g \o h
<1>5. Encodes(VarintField(6, x), f) /\ Encodes(VarintField(7, l), g) /\ Encodes(VarintField(8, v), h)
  BY <1>2, <1>3, <1>4, VarintEncodes
<1>6. /\ f \in Seq(FieldSet) /\ g \in Seq(FieldSet) /\ h \in Seq(FieldSet)
      /\ VarintAt(f, 6) = <<x>> /\ VarintAt(f, 7) = <<>> /\ VarintAt(f, 8) = <<>>
      /\ VarintAt(g, 7) = <<l>> /\ VarintAt(g, 8) = <<>> /\ VarintAt(h, 8) = <<v>>
  <2>1. f \in Seq(FieldSet) /\ VarintAt(f, 6) = <<x>> /\ VarintAt(f, 7) = <<>> /\ VarintAt(f, 8) = <<>>
    BY <1>2, <1>4, AtVarint
  <2>2. g \in Seq(FieldSet) /\ VarintAt(g, 7) = <<l>> /\ VarintAt(g, 8) = <<>>
    BY <1>2, <1>4, AtVarint
  <2>3. h \in Seq(FieldSet) /\ VarintAt(h, 8) = <<v>>
    BY <1>2, <1>3, AtVarint
  <2>4. QED
    BY <2>1, <2>2, <2>3
<1> HIDE DEF f, g, h
<1>7. Encodes(body, fs) /\ body \in Seq(Bytes)
  <2>1. Encodes(VarintField(6, x) \o VarintField(7, l), f \o g)
    BY <1>5, EncodesBoth
  <2>2. Encodes(body, fs)
    BY <1>5, <2>1, EncodesBoth
  <2>3. QED
    BY <2>2 DEF Encodes
<1>8. VarintAt(fs, 6) = <<x>> /\ VarintAt(fs, 7) = <<l>> /\ VarintAt(fs, 8) = <<v>>
  <2> DEFINE fg == f \o g
  <2>1. fg \in Seq(FieldSet) /\ VarintAt(fg, 6) = <<x>> /\ VarintAt(fg, 7) = <<l>> /\ VarintAt(fg, 8) = <<>>
    <3>1. VarintAt(fg, 6) = <<x>>
      BY <1>6, AtFirst
    <3>2. VarintAt(fg, 7) = <<l>> /\ VarintAt(fg, 8) = <<>>
      BY <1>6, AtSecond
    <3>3. QED
      BY <1>6, <3>1, <3>2
  <2> HIDE DEF fg
  <2>2. VarintAt(fg \o h, 6) = <<x>> /\ VarintAt(fg \o h, 7) = <<l>> /\ VarintAt(fg \o h, 8) = <<v>>
    <3>1. VarintAt(fg \o h, 6) = <<x>>
      BY <1>6, <2>1, AtFirst
    <3>2. VarintAt(fg \o h, 7) = <<l>>
      BY <1>6, <2>1, AtFirst
    <3>3. VarintAt(fg \o h, 8) = <<v>>
      BY <1>6, <2>1, AtSecond
    <3>4. QED
      BY <3>1, <3>2, <3>3
  <2>3. QED
    BY <2>2 DEF fg
<1> HIDE DEF body, fs
<1>9. ASSUME NEW s, NEW xs, Encodes(s, xs), AllIn(xs, Foreign)
      PROVE  Values(m.kind, s \o body) = <<x, l, b>>
  <2>1. FindVarint(s \o body, 6) = <<x>> /\ FindVarint(s \o body, 7) = <<l>> /\ FindVarint(s \o body, 8) = <<v>>
    BY <1>2, <1>7, <1>8, <1>9, FoundInside
  <2>2. Values(m.kind, s \o body) = <<AsU32(FindVarint(s \o body, 6)), AsU32(FindVarint(s \o body, 7)),
                                      AsBool(FindVarint(s \o body, 8))>>
    BY <1>1 DEF Values
  <2>3. AsU32(<<x>>) = x /\ AsU32(<<l>>) = l
    BY <1>4 DEF AsU32
  <2>4. QED
    BY <1>3, <2>1, <2>2, <2>3
<1> HIDE DEF m
<1>10. QED
  BY <1>1, <1>3, <1>7, <1>9 DEF BodyMeans, m, body

LEMMA FourParts == \A i, x, y, z : <<i>> \o <<x, y, z>> = <<i, x, y, z>>
<1> SUFFICES ASSUME NEW i, NEW x, NEW y, NEW z PROVE <<i>> \o <<x, y, z>> = <<i, x, y, z>>
  OBVIOUS
<1> DEFINE s == <<i>>
           t == <<x, y, z>>
           S == {i, x, y, z}
<1>1. s \in Seq(S) /\ t \in Seq(S) /\ Len(s) = 1 /\ Len(t) = 3
  OBVIOUS
<1>2. s \o t \in Seq(S) /\ Len(s \o t) = 4
  BY <1>1
<1>3. (s \o t)[1] = i /\ (s \o t)[2] = x /\ (s \o t)[3] = y /\ (s \o t)[4] = z
  BY <1>1
<1>4. <<i, x, y, z>> \in Seq(S) /\ Len(<<i, x, y, z>>) = 4
  OBVIOUS
<1> DEFINE u == s \o t
           w == <<i, x, y, z>>
<1>5. w[1] = i /\ w[2] = x /\ w[3] = y /\ w[4] = z
  OBVIOUS
<1> HIDE DEF u, w
<1>6. \A k \in 1..4 : u[k] = w[k]
  BY <1>3, <1>5 DEF u
<1>7. u = w
  BY <1>2, <1>4, <1>6, SeqEqual DEF u, w
<1>8. QED
  BY <1>7 DEF u, w

LEMMA ConfigureMeans ==
    ASSUME NEW i \in Signed, NEW x \in Seq(Bytes), NEW y \in Seq(Bytes), NEW z \in Seq(Bytes)
    PROVE  BodyMeans(Meant("Configure", <<i, x, y, z>>))
<1> DEFINE m == Meant("Configure", <<i, x, y, z>>)
           info == BytesField(1, x) \o BytesField(2, y) \o BytesField(6, z)
           body == TvInt(1, i) \o BytesField(2, info)
<1>1. /\ m.kind = "Configure" /\ m.values = <<i, x, y, z>> /\ m.kind \in DOMAIN KindNumbers
      /\ TvBody(m) = body
  BY DEF Meant, TvBody, KindNumbers
<1>2. /\ 1 \in Numbers /\ 2 \in Numbers /\ 6 \in Numbers /\ 1 \in Nat /\ 2 \in Nat /\ 6 \in Nat
      /\ 1 \notin {60, 61} /\ 2 \notin {60, 61} /\ 1 # 2 /\ 1 # 6 /\ 2 # 6
  BY SmallNumbers
<1>3. /\ BytesField(1, x) \in Seq(Bytes) /\ BytesField(2, y) \in Seq(Bytes) /\ BytesField(6, z) \in Seq(Bytes)
      /\ BytesField(1, x) \o BytesField(2, y) \in Seq(Bytes) /\ info \in Seq(Bytes)
  BY <1>2, BytesFieldBytes, Concatenates
<1>4. PICK is : SaysInt(TvInt(1, i), 1, i, is)
  BY <1>2, TvIntSays
<1>5. TvInt(1, i) \in Seq(Bytes) /\ is \in Seq(FieldSet) /\ Encodes(TvInt(1, i), is)
  BY <1>4 DEF SaysInt, Encodes
<1>6. BytesField(2, info) \in Seq(Bytes) /\ body \in Seq(Bytes)
  <2> HIDE DEF info
  <2>1. QED
    BY <1>2, <1>3, <1>5, BytesFieldBytes, Concatenates
<1>7. ASSUME Fits(body), NEW s, NEW xs, Encodes(s, xs), AllIn(xs, Foreign)
      PROVE  Values(m.kind, s \o body) = <<i, x, y, z>>
  <2> DEFINE f == <<BytesAre(1, LengthDelimited, x)>>
             g == <<BytesAre(2, LengthDelimited, y)>>
             h == <<BytesAre(6, LengthDelimited, z)>>
             n == <<BytesAre(2, LengthDelimited, info)>>
  <2>1. Fits(BytesField(2, info)) /\ Fits(info)
    <3> HIDE DEF info
    <3>1. Fits(BytesField(2, info))
      BY <1>5, <1>6, <1>7, FitParts
    <3>2. QED
      BY <1>2, <1>3, <3>1, FitContents
  <2>2. Fits(BytesField(1, x)) /\ Fits(BytesField(2, y)) /\ Fits(BytesField(6, z))
    <3>1. Fits(BytesField(1, x) \o BytesField(2, y)) /\ Fits(BytesField(6, z))
      BY <1>3, <2>1, FitParts
    <3>2. QED
      BY <1>3, <3>1, FitParts
  <2>3. Encodes(BytesField(1, x), f) /\ Encodes(BytesField(2, y), g) /\ Encodes(BytesField(6, z), h)
    BY <1>2, <2>2, MessageEncodes
  <2>4. Encodes(BytesField(1, x) \o BytesField(2, y), f \o g)
    <3> HIDE DEF f, g
    <3>1. QED
      BY <2>3, EncodesBoth
  <2>5. Encodes(info, (f \o g) \o h)
    <3> HIDE DEF f, g, h
    <3>1. QED
      BY <2>3, <2>4, EncodesBoth
  <2>6. /\ f \in Seq(FieldSet) /\ g \in Seq(FieldSet) /\ h \in Seq(FieldSet)
        /\ BytesAt(f, 1) = <<x>> /\ BytesAt(f, 2) = <<>> /\ BytesAt(f, 6) = <<>>
        /\ BytesAt(g, 2) = <<y>> /\ BytesAt(g, 6) = <<>> /\ BytesAt(h, 6) = <<z>>
    <3>a. f \in Seq(FieldSet) /\ BytesAt(f, 1) = <<x>> /\ \A k : k # 1 => BytesAt(f, k) = <<>>
      BY <1>2, AtBytes
    <3>1. f \in Seq(FieldSet) /\ BytesAt(f, 1) = <<x>> /\ BytesAt(f, 2) = <<>> /\ BytesAt(f, 6) = <<>>
      <4> HIDE DEF f
      <4>1. QED
        BY <3>a
    <3>2. g \in Seq(FieldSet) /\ BytesAt(g, 2) = <<y>> /\ BytesAt(g, 6) = <<>>
      BY <1>2, AtBytes, ZenonT(30)
    <3>3. h \in Seq(FieldSet) /\ BytesAt(h, 6) = <<z>>
      BY <1>2, AtBytes
    <3>4. QED
      BY <3>1, <3>2, <3>3
  <2> HIDE DEF f, g, h
  <2> DEFINE fg == f \o g
             all == fg \o h
  <2>7. fg \in Seq(FieldSet) /\ BytesAt(fg, 1) = <<x>> /\ BytesAt(fg, 2) = <<y>> /\ BytesAt(fg, 6) = <<>>
    <3>1. BytesAt(fg, 1) = <<x>>
      BY <2>6, AtFirst
    <3>2. BytesAt(fg, 2) = <<y>> /\ BytesAt(fg, 6) = <<>>
      BY <2>6, AtSecond
    <3>3. QED
      BY <2>6, <3>1, <3>2
  <2> HIDE DEF fg
  <2>8. BytesAt(all, 1) = <<x>> /\ BytesAt(all, 2) = <<y>> /\ BytesAt(all, 6) = <<z>>
    <3>1. BytesAt(all, 1) = <<x>>
      BY <2>6, <2>7, AtFirst
    <3>2. BytesAt(all, 2) = <<y>>
      BY <2>6, <2>7, AtFirst
    <3>3. BytesAt(all, 6) = <<z>>
      BY <2>6, <2>7, AtSecond
    <3>4. QED
      BY <3>1, <3>2, <3>3
  <2>9. Encodes(info, all)
    BY <2>5 DEF fg
  <2> HIDE DEF all, info
  <2>10. FindBytes(info, 1) = <<x>> /\ FindBytes(info, 2) = <<y>> /\ FindBytes(info, 6) = <<z>>
    BY <2>8, <2>9, FoundAt
  <2>11. DeviceInfo(info) = <<x, y, z>>
    BY <2>10 DEF DeviceInfo, TextIn, OrEmpty
  <2>12. Encodes(BytesField(2, info), n) /\ n \in Seq(FieldSet)
    BY <1>2, <1>3, <2>1, MessageEncodes, AtBytes
  <2>13. BytesAt(n, 2) = <<info>> /\ VarintAt(n, 1) = <<>>
    BY <1>2, <1>3, AtBytes, ZenonT(30)
  <2> HIDE DEF n
  <2>14. Encodes(body, is \o n)
    BY <1>5, <2>12, EncodesBoth
  <2>15. VarintAt(is \o n, 1) = VarintAt(is, 1) /\ BytesAt(is \o n, 2) = <<info>>
    BY <1>4, <1>5, <2>12, <2>13, AtBoth DEF SaysInt
  <2> HIDE DEF body
  <2>16. FindVarint(s \o body, 1) = VarintAt(is, 1) /\ FindBytes(s \o body, 2) = <<info>>
    BY <1>2, <1>7, <2>14, <2>15, FoundInside
  <2>17. Values(m.kind, s \o body) = <<AsI32(FindVarint(s \o body, 1))>> \o DeviceInfo(TextIn(s \o body, 2))
    BY <1>1 DEF Values
  <2>18. TextIn(s \o body, 2) = info /\ AsI32(FindVarint(s \o body, 1)) = i
    BY <1>4, <2>16 DEF TextIn, OrEmpty, SaysInt
  <2>19. <<i>> \o <<x, y, z>> = <<i, x, y, z>>
    BY FourParts
  <2>20. QED
    BY <2>11, <2>17, <2>18, <2>19
<1> HIDE DEF m, body
<1>8. QED
  BY <1>1, <1>6, <1>7 DEF BodyMeans, m

LEMMA EmptyMeans ==
    ASSUME NEW k \in {"SetActive", "Error"}
    PROVE  BodyMeans(Meant(k, <<>>))
BY DEF BodyMeans, Meant, TvBody, KindNumbers, Values

LEMMA EveryBodyMeans == ASSUME NEW m \in Meanings PROVE BodyMeans(m)
<1>1. Ints \subseteq Signed /\ Texts \subseteq Seq(Bytes)
  BY FrameAssumption
<1>2. \A u \in UnsignedInts : u \in Unsigned
  <2>1. \A i \in Signed : ToUnsigned(i) \in Unsigned
    <3>1. \A i \in Signed : i \in Int
      BY DEF Signed
    <3>2. QED
      BY <3>1, UnsignedFits
  <2>2. QED
    BY <1>1, <2>1 DEF UnsignedInts
<1>3. ASSUME NEW i \in Ints, NEW s \in Texts, NEW t \in Texts, NEW u \in Texts
      PROVE  BodyMeans(Meant("Configure", <<i, s, t, u>>))
  BY <1>1, ConfigureMeans
<1>4. ASSUME NEW k \in {"Ping", "VoiceBegin"}, NEW i \in Ints PROVE BodyMeans(Meant(k, <<i>>))
  BY <1>1, IntMeans
<1>5. ASSUME NEW i \in Ints, NEW j \in Ints PROVE BodyMeans(Meant("ImeBatchEdit", <<i, j>>))
  BY <1>1, BatchEditMeans
<1>6. ASSUME NEW t \in Texts PROVE BodyMeans(Meant("ImeKeyInject", <<t>>))
  BY <1>1, KeyInjectMeans
<1>7. ASSUME NEW x \in UnsignedInts, NEW l \in UnsignedInts, NEW b \in BOOLEAN
      PROVE  BodyMeans(Meant("Volume", <<x, l, b>>))
  BY <1>2, VolumeMeans
<1> DEFINE A == {Meant("Configure", <<i, s, t, u>>) : i \in Ints, s, t, u \in Texts}
           B == {Meant(k, <<i>>) : k \in {"Ping", "VoiceBegin"}, i \in Ints}
           C == {Meant("ImeBatchEdit", <<i, j>>) : i, j \in Ints}
           D == {Meant("ImeKeyInject", <<t>>) : t \in Texts}
           E == {Meant("Start", <<b>>) : b \in BOOLEAN}
           F == {Meant("Volume", <<x, l, b>>) : x, l \in UnsignedInts, b \in BOOLEAN}
           G == {Meant(k, <<>>) : k \in {"SetActive", "Error"}}
<1>8. CASE m \in A
  <2>1. PICK i \in Ints, s \in Texts, t \in Texts, u \in Texts : m = Meant("Configure", <<i, s, t, u>>)
    BY <1>8, SMTT(30)
  <2>2. QED
    BY <1>3, <2>1
<1>9. CASE m \in B
  <2>1. PICK k \in {"Ping", "VoiceBegin"}, i \in Ints : m = Meant(k, <<i>>)
    BY <1>9
  <2>2. QED
    BY <1>4, <2>1
<1>10. CASE m \in C
  <2>1. PICK i \in Ints, j \in Ints : m = Meant("ImeBatchEdit", <<i, j>>)
    BY <1>10
  <2>2. QED
    BY <1>5, <2>1
<1>11. CASE m \in F
  <2>1. PICK x \in UnsignedInts, l \in UnsignedInts, b \in BOOLEAN : m = Meant("Volume", <<x, l, b>>)
    BY <1>11
  <2>2. QED
    BY <1>7, <2>1
<1>12. CASE m \in D
  BY <1>6, <1>12
<1>13. CASE m \in E
  BY <1>13, StartMeans
<1>14. CASE m \in G
  BY <1>14, EmptyMeans
<1>15. QED
  <2>1. Meanings = A \cup B \cup C \cup D \cup E \cup F \cup G
    BY DEF Meanings
  <2> HIDE DEF A, B, C, D, E, F, G
  <2>2. QED
    BY <1>8, <1>9, <1>10, <1>11, <1>12, <1>13, <1>14, <2>1

\* The fields parseRemote returns at.
Deciding == {f \in FieldSet : Decides(f)}

LEMMA ParsesFirst ==
    ASSUME NEW fs \in Seq(FieldSet)
    PROVE  ParseFields(fs) = Incoming(Finding(fs, Deciding))
<1>1. \A i \in DOMAIN fs : fs[i] \in FieldSet
  OBVIOUS
<1>2. {i \in DOMAIN fs : Decides(fs[i])} = {i \in DOMAIN fs : fs[i] \in Deciding}
  BY <1>1 DEF Deciding
<1>3. QED
  BY <1>2 DEF ParseFields, Finding

LEMMA KindsAre ==
    /\ DOMAIN KindNumbers = {"Configure", "SetActive", "Error", "Ping", "ImeKeyInject",
                             "ImeBatchEdit", "VoiceBegin", "Start", "Volume"}
    /\ \A k \in DOMAIN KindNumbers : KindNumbers[k] \in 1..50
    /\ \A j, k \in DOMAIN KindNumbers : KindNumbers[j] = KindNumbers[k] => j = k
BY DEF KindNumbers

LEMMA OutOfPlaceIgnored == \A f \in OutOfPlace : f \notin Deciding
<1> SUFFICES ASSUME NEW f \in OutOfPlace, f \in Deciding PROVE FALSE
  OBVIOUS
<1>1. Decides(f) /\ f.type = LengthDelimited /\ KindsOf(f) # {}
  BY DEF Deciding, Decides
<1>2. PICK k \in DOMAIN KindNumbers : KindNumbers[k] = f.number
  BY <1>1 DEF KindsOf
<1>3. f.number \in 1..50
  BY <1>2, KindsAre
<1>4. f # VarintIs(1, 5)
  BY <1>1 DEF VarintIs, VarintType, LengthDelimited
<1>5. f \in Foreign
  BY <1>4 DEF OutOfPlace
<1>6. QED
  BY <1>1, <1>3, <1>5 DEF Foreign, LengthDelimited, Fixed32, Fixed64

LEMMA KindIsDecided ==
    ASSUME NEW k \in DOMAIN KindNumbers, NEW b \in Seq(Bytes)
    PROVE  LET f == BytesAre(KindNumbers[k], LengthDelimited, b)
           IN  f \in Deciding /\ KindOf(f) = k /\ f.bytes = b /\ KindNumbers[k] \in Numbers
<1> DEFINE f == BytesAre(KindNumbers[k], LengthDelimited, b)
<1>1. KindNumbers[k] \in Numbers
  <2>1. KindNumbers[k] \in 1..50
    BY KindsAre
  <2>2. KindNumbers[k] \in 1..90
    BY <2>1
  <2>3. QED
    BY <2>2, SmallNumbers
<1>2. f \in FieldSet /\ f.number = KindNumbers[k] /\ f.type = LengthDelimited /\ f.bytes = b
  BY <1>1 DEF BytesAre, FieldSet, Numbers, LengthDelimited
<1> HIDE DEF f
<1>3. KindsOf(f) = {k}
  BY <1>2, KindsAre DEF KindsOf
<1>4. f \in Deciding
  BY <1>2, <1>3 DEF Deciding, Decides
<1>5. KindOf(f) = k
  <2>1. (CHOOSE x \in {k} : TRUE) \in {k}
    BY Zenon
  <2>2. QED
    BY <1>3, <2>1 DEF KindOf
<1>6. QED
  BY <1>1, <1>2, <1>4, <1>5 DEF f

\* parseRemote makes of an honest television's message what it means.
LEMMA RemoteMeans ==
    ASSUME NEW m \in Meanings, NEW p \in Placed
    PROVE  LET msg == RemoteMessage(m, p[1], p[2], p[3])
           IN  msg \in Seq(Bytes) /\ Len(msg) <= MaxFrame /\ ParseRemote(msg) = m
<1> DEFINE body == p[2] \o TvBody(m)
           n == KindNumbers[m.kind]
           field == BytesField(n, body)
           msg == RemoteMessage(m, p[1], p[2], p[3])
           f == BytesAre(n, LengthDelimited, body)
<1>1. BodyMeans(m)
  BY EveryBodyMeans
<1>2. PICK xs, ys, zs : Padding(p, xs, ys, zs)
  BY PlacedIsPadding
<1>3. p[1] \in Seq(Bytes) /\ p[2] \in Seq(Bytes) /\ p[3] \in Seq(Bytes) /\ TvBody(m) \in Seq(Bytes)
  BY <1>1, <1>2 DEF Padding, Encodes, BodyMeans
<1>4. body \in Seq(Bytes)
  BY <1>3, Concatenates
<1>5. m.kind \in DOMAIN KindNumbers
  BY <1>1 DEF BodyMeans
<1>6. msg = p[1] \o field \o p[3]
  BY DEF RemoteMessage
<1>7. Len(msg) <= MaxFrame
  BY HonestAssumption
<1> HIDE DEF body
<1>8. f \in Deciding /\ KindOf(f) = m.kind /\ f.bytes = body /\ n \in Numbers
  BY <1>4, <1>5, KindIsDecided
<1>9. field \in Seq(Bytes)
  <2>1. n \in Nat
    BY <1>8 DEF Numbers
  <2>2. QED
    BY <1>4, <2>1, BytesFieldBytes
<1> HIDE DEF field, n, msg
<1>10. msg \in Seq(Bytes)
  BY <1>3, <1>6, <1>9
<1>11. Fits(msg)
  <2>1. MaxFrame \in Nat /\ MaxFrame < Word /\ Word \in Nat /\ Len(msg) \in Nat
    BY <1>10, FrameAssumption, WidthFacts
  <2>2. QED
    BY <1>7, <1>10, <2>1 DEF Fits
<1>12. Fits(field)
  <2>1. p[1] \o field \in Seq(Bytes)
    BY <1>3, <1>9, Concatenates
  <2>2. Fits(p[1] \o field)
    BY <1>3, <1>6, <1>11, <2>1, FitParts
  <2>3. QED
    BY <1>3, <1>9, <2>2, FitParts
<1>13. Encodes(field, <<f>>) /\ Fits(body)
  BY <1>4, <1>8, <1>12, MessageEncodes, FitContents DEF field
<1>14. Fits(TvBody(m))
  BY <1>3, <1>13, FitParts DEF body
<1>15. Values(m.kind, body) = m.values
  <2>1. Encodes(p[2], ys) /\ AllIn(ys, Foreign)
    BY <1>2 DEF Padding
  <2>2. QED
    BY <1>1, <1>14, <2>1 DEF BodyMeans, body
<1> HIDE DEF f
<1>16. Encodes(msg, xs \o <<f>> \o zs)
  <2>1. Encodes(p[1], xs) /\ Encodes(p[3], zs)
    BY <1>2 DEF Padding
  <2>2. Encodes(p[1] \o field, xs \o <<f>>)
    BY <1>13, <2>1, EncodesBoth
  <2>3. QED
    BY <1>6, <2>1, <2>2, EncodesBoth
<1>17. Finding(xs \o <<f>> \o zs, Deciding) = <<f>>
  <2> DEFINE g == xs \o <<f>>
             one == <<f>>
  <2>1. xs \in Seq(FieldSet) /\ zs \in Seq(FieldSet) /\ AllIn(xs, OutOfPlace) /\ f \in FieldSet
    BY <1>2, <1>8 DEF Padding, Encodes, Deciding
  <2>2. Finding(xs, Deciding) = <<>>
    BY <2>1, OutOfPlaceIgnored, FindsNone
  <2>3. Finding(one, Deciding) = one /\ one \in Seq(FieldSet) /\ one # <<>>
    BY <1>8, <2>1, FindingOne
  <2> HIDE DEF one
  <2>4. Finding(xs \o one, Deciding) = one /\ xs \o one \in Seq(FieldSet)
    BY <2>1, <2>2, <2>3, FindingBoth
  <2>5. Finding((xs \o one) \o zs, Deciding) = one
    BY <2>1, <2>3, <2>4, FindingBoth
  <2>6. QED
    BY <2>5 DEF one
<1>18. ParseRemote(msg) = Incoming(<<f>>)
  <2> DEFINE fs == xs \o <<f>> \o zs
  <2>1. Fields(msg) = fs /\ fs \in Seq(FieldSet)
    BY <1>16, EncodesAll DEF Encodes
  <2> HIDE DEF fs
  <2>2. QED
    BY <1>17, <2>1, ParsesFirst DEF ParseRemote, fs
<1>19. Incoming(<<f>>) = [kind |-> m.kind, values |-> m.values]
  <2>1. <<f>> # <<>> /\ <<f>>[1] = f
    OBVIOUS
  <2>2. QED
    BY <1>8, <1>15, <2>1 DEF Incoming
<1>20. ParseRemote(msg) = m
  BY <1>1, <1>18, <1>19 DEF BodyMeans, Meant
<1>21. QED
  BY <1>7, <1>10, <1>20 DEF msg

LEMMA OccursBoth ==
    ASSUME NEW fs \in Seq(FieldSet), NEW gs \in Seq(FieldSet), NEW n
    PROVE  Occurs(fs \o gs, n) <=> Occurs(fs, n) \/ Occurs(gs, n)
<1> DEFINE a == Len(fs)
           c == Len(gs)
           all == fs \o gs
<1>1. /\ a \in Nat /\ c \in Nat /\ DOMAIN fs = 1..a /\ DOMAIN gs = 1..c /\ DOMAIN all = 1..(a + c)
      /\ \A i \in 1..a : all[i] = fs[i]
      /\ \A i \in 1..c : all[a + i] = gs[i]
  OBVIOUS
<1> HIDE DEF a, c, all
<1>2. ASSUME Occurs(all, n) PROVE Occurs(fs, n) \/ Occurs(gs, n)
  <2>1. PICK i \in DOMAIN all : all[i].number = n
    BY <1>2 DEF Occurs
  <2>2. CASE i \in 1..a
    BY <1>1, <2>1, <2>2 DEF Occurs
  <2>3. CASE i \notin 1..a
    <3>1. i - a \in 1..c /\ a + (i - a) = i
      BY <1>1, <2>3
    <3>2. gs[i - a].number = n /\ i - a \in DOMAIN gs
      BY <1>1, <2>1, <3>1
    <3>3. QED
      BY <3>2 DEF Occurs
  <2>4. QED
    BY <2>2, <2>3
<1>3. ASSUME Occurs(fs, n) PROVE Occurs(all, n)
  <2>1. PICK i \in DOMAIN fs : fs[i].number = n
    BY <1>3 DEF Occurs
  <2>2. i \in DOMAIN all /\ all[i].number = n
    BY <1>1, <2>1
  <2>3. QED
    BY <2>2 DEF Occurs
<1>4. ASSUME Occurs(gs, n) PROVE Occurs(all, n)
  <2>1. PICK i \in DOMAIN gs : gs[i].number = n
    BY <1>4 DEF Occurs
  <2>2. a + i \in DOMAIN all /\ all[a + i].number = n
    BY <1>1, <2>1
  <2>3. QED
    BY <2>2 DEF Occurs
<1>5. QED
  BY <1>2, <1>3, <1>4 DEF all

LEMMA OutOfPlaceNumbers ==
    ASSUME NEW fs, AllIn(fs, OutOfPlace)
    PROVE  /\ fs \in Seq(FieldSet) /\ VarintAt(fs, 2) = <<>>
           /\ \A n \in {11, 20, 31, 41} : ~Occurs(fs, n)
<1>1. fs \in Seq(FieldSet) /\ \A i \in DOMAIN fs : fs[i] \in OutOfPlace
  BY DEF AllIn
<1>2. \A f \in OutOfPlace : f.number \in {1, 8, 9, 60, 61}
  BY DEF OutOfPlace, Foreign, VarintIs
<1>3. \A f \in OutOfPlace : f \notin Matches(2, VarintType)
  BY <1>2 DEF Matches
<1>4. VarintAt(fs, 2) = <<>>
  BY <1>3, FindsNone DEF VarintAt, VarintIn
<1>5. ASSUME NEW n \in {11, 20, 31, 41}, NEW i \in DOMAIN fs PROVE fs[i].number # n
  BY <1>1, <1>2
<1>6. QED
  BY <1>1, <1>4, <1>5 DEF Occurs

\* requirePairingStatusOk and the has functions make of it what it means.
LEMMA PairingMeans ==
    ASSUME NEW m \in PairingMeanings, NEW p \in Placed
    PROVE  LET msg == PairingMessage(m, p[1], p[2], p[3])
           IN  msg \in Seq(Bytes) /\ Len(msg) <= MaxFrame /\ PairingReply(msg) = m
<1> DEFINE st == IF m.ok THEN 200 ELSE 400
           ack == IF m.has = {} THEN <<>> ELSE BytesField(PairingAcks[CHOOSE a \in m.has : TRUE], <<>>)
           msg == PairingMessage(m, p[1], p[2], p[3])
           v == <<VarintIs(1, 2)>>
           s == <<VarintIs(2, st)>>
<1>1. /\ m = [ok |-> m.ok, has |-> m.has] /\ m.ok \in BOOLEAN
      /\ m.has = {} \/ \E a \in DOMAIN PairingAcks : m.has = {a}
  BY DEF PairingMeanings
<1>2. PICK xs, ys, zs : Padding(p, xs, ys, zs)
  BY PlacedIsPadding
<1>3. /\ Encodes(p[1], xs) /\ Encodes(p[2], ys) /\ Encodes(p[3], zs)
      /\ AllIn(xs, OutOfPlace) /\ AllIn(ys, OutOfPlace) /\ AllIn(zs, OutOfPlace)
  BY <1>2 DEF Padding, AllIn, OutOfPlace
<1>4. 1 \in Numbers /\ 2 \in Numbers /\ 2 \in Nat /\ 2 < Word /\ st \in Nat /\ st < Word /\ 0 < Word
  BY SmallNumbers
<1>5. msg = p[1] \o VarintField(1, 2) \o p[2] \o VarintField(2, st) \o ack \o p[3]
  BY DEF PairingMessage
<1>6. Len(msg) <= MaxFrame
  BY HonestAssumption
<1>7. \A a, b \in DOMAIN PairingAcks : /\ PairingAcks[a] \in {11, 20, 31, 41}
                                       /\ PairingAcks[a] = PairingAcks[b] => a = b
  BY DEF PairingAcks
<1>8. \E ks : /\ Encodes(ack, ks)
              /\ \A a \in DOMAIN PairingAcks : Occurs(ks, PairingAcks[a]) <=> a \in m.has
  <2>1. CASE m.has = {}
    <3>1. ack = <<>>
      BY <2>1
    <3>2. \A n : ~Occurs(<<>>, n)
      BY DEF Occurs
    <3>3. QED
      BY <2>1, <3>1, <3>2, EncodesNone
  <2>2. ASSUME NEW a \in DOMAIN PairingAcks, m.has = {a}
        PROVE  \E ks : /\ Encodes(ack, ks)
                       /\ \A b \in DOMAIN PairingAcks : Occurs(ks, PairingAcks[b]) <=> b \in m.has
    <3> DEFINE n == PairingAcks[a]
               e == <<>>
               f == BytesAre(n, LengthDelimited, e)
    <3>1. (CHOOSE x \in {a} : TRUE) = a
      <4>1. (CHOOSE x \in {a} : TRUE) \in {a}
        BY Zenon
      <4>2. QED
        BY <4>1
    <3>2. ack = BytesField(n, e)
      BY <2>2, <3>1
    <3>3. n \in Numbers
      <4>1. n \in 1..90
        BY <1>7
      <4>2. QED
        BY <4>1, SmallNumbers
    <3>4. e \in Seq(Bytes) /\ Len(e) = 0
      OBVIOUS
    <3> HIDE DEF e, n
    <3>5. Encodes(ack, <<f>>)
      BY <1>4, <3>2, <3>3, <3>4, BytesFieldIsRead, EncodesOne
    <3>6. f.number = n
      BY DEF BytesAre
    <3> HIDE DEF f, ack
    <3>7. \A k : Occurs(<<f>>, k) <=> k = n
      BY <3>6 DEF Occurs
    <3>8. \A b \in DOMAIN PairingAcks : Occurs(<<f>>, PairingAcks[b]) <=> b \in m.has
      BY <1>7, <2>2, <3>7 DEF n
    <3>9. QED
      BY <3>5, <3>8
  <2>3. QED
    BY <1>1, <2>1, <2>2
<1>9. PICK ks : /\ Encodes(ack, ks)
                /\ \A a \in DOMAIN PairingAcks : Occurs(ks, PairingAcks[a]) <=> a \in m.has
  BY <1>8
<1>10. /\ Encodes(VarintField(1, 2), v) /\ Encodes(VarintField(2, st), s)
       /\ v \in Seq(FieldSet) /\ s \in Seq(FieldSet)
       /\ VarintAt(v, 2) = <<>> /\ VarintAt(s, 2) = <<st>>
  BY <1>4, VarintEncodes, AtVarint
<1>11. \A n \in {11, 20, 31, 41} : ~Occurs(v, n) /\ ~Occurs(s, n)
  BY DEF Occurs, VarintIs
<1>12. /\ xs \in Seq(FieldSet) /\ ys \in Seq(FieldSet) /\ zs \in Seq(FieldSet) /\ ks \in Seq(FieldSet)
       /\ VarintAt(xs, 2) = <<>> /\ VarintAt(ys, 2) = <<>>
       /\ \A n \in {11, 20, 31, 41} : ~Occurs(xs, n) /\ ~Occurs(ys, n) /\ ~Occurs(zs, n)
  BY <1>3, <1>9, OutOfPlaceNumbers DEF Encodes
<1> DEFINE f1 == xs \o v
           f2 == f1 \o ys
           f3 == f2 \o s
           f4 == f3 \o ks
           fs == f4 \o zs
<1> HIDE DEF v, s, st, ack
<1>13. Encodes(msg, fs)
  <2>1. Encodes(p[1] \o VarintField(1, 2), f1)
    BY <1>3, <1>10, EncodesBoth
  <2> HIDE DEF f1
  <2>2. Encodes(p[1] \o VarintField(1, 2) \o p[2], f2)
    BY <1>3, <2>1, EncodesBoth
  <2> HIDE DEF f2
  <2>3. Encodes(p[1] \o VarintField(1, 2) \o p[2] \o VarintField(2, st), f3)
    BY <1>10, <2>2, EncodesBoth
  <2> HIDE DEF f3
  <2>4. Encodes(p[1] \o VarintField(1, 2) \o p[2] \o VarintField(2, st) \o ack, f4)
    BY <1>9, <2>3, EncodesBoth
  <2> HIDE DEF f4
  <2>5. QED
    BY <1>3, <1>5, <2>4, EncodesBoth
<1>14. /\ f1 \in Seq(FieldSet) /\ VarintAt(f1, 2) = <<>>
       /\ \A n \in {11, 20, 31, 41} : ~Occurs(f1, n)
  BY <1>10, <1>11, <1>12, AtSecond, OccursBoth
<1> HIDE DEF f1
<1>15. /\ f2 \in Seq(FieldSet) /\ VarintAt(f2, 2) = <<>>
       /\ \A n \in {11, 20, 31, 41} : ~Occurs(f2, n)
  BY <1>12, <1>14, AtSecond, OccursBoth
<1> HIDE DEF f2
<1>16. /\ f3 \in Seq(FieldSet) /\ VarintAt(f3, 2) = <<st>>
       /\ \A n \in {11, 20, 31, 41} : ~Occurs(f3, n)
  BY <1>10, <1>11, <1>15, AtSecond, OccursBoth
<1> HIDE DEF f3
<1>17. /\ f4 \in Seq(FieldSet) /\ VarintAt(f4, 2) = <<st>>
       /\ \A n \in {11, 20, 31, 41} : Occurs(f4, n) <=> Occurs(ks, n)
  <2>1. f4 \in Seq(FieldSet) /\ VarintAt(f4, 2) = <<st>>
    <3>1. f3 \in Seq(FieldSet) /\ ks \in Seq(FieldSet) /\ VarintAt(f3, 2) = <<st>>
      BY <1>12, <1>16
    <3>2. f4 \in Seq(FieldSet)
      BY <3>1, ConcatProperties
    <3>3. QED
      BY <3>1, <3>2, AtFirst
  <2>2. ASSUME NEW n \in {11, 20, 31, 41} PROVE Occurs(f4, n) <=> Occurs(ks, n)
    BY <1>12, <1>16, OccursBoth
  <2>3. QED
    BY <2>1, <2>2
<1> HIDE DEF f4
<1>18. /\ VarintAt(fs, 2) = <<st>>
       /\ \A n \in {11, 20, 31, 41} : Occurs(fs, n) <=> Occurs(ks, n)
  <2>1. VarintAt(fs, 2) = <<st>>
    BY <1>12, <1>17, AtFirst
  <2>2. ASSUME NEW n \in {11, 20, 31, 41} PROVE Occurs(fs, n) <=> Occurs(ks, n)
    BY <1>12, <1>17, OccursBoth
  <2>3. QED
    BY <2>1, <2>2
<1> HIDE DEF fs, msg
<1>19. PairingStatus(msg) = <<st>> /\ Fields(msg) = fs /\ msg \in Seq(Bytes)
  <2>1. FindVarint(msg, 2) = VarintAt(fs, 2)
    BY <1>13, FoundAt
  <2>2. QED
    BY <1>13, <1>18, <2>1, EncodesAll DEF PairingStatus, Encodes
<1>20. (PairingStatus(msg) = <<200>>) = m.ok
  <2>1. <<st>> = <<200>> <=> st = 200
    OBVIOUS
  <2>2. st = 200 <=> m.ok = TRUE
    BY <1>1 DEF st
  <2>3. QED
    BY <1>1, <1>19, <2>1, <2>2
<1>21. {a \in DOMAIN PairingAcks : HasField(msg, PairingAcks[a])} = m.has
  <2>1. \A a \in DOMAIN PairingAcks : HasField(msg, PairingAcks[a]) <=> a \in m.has
    <3> SUFFICES ASSUME NEW a \in DOMAIN PairingAcks
                 PROVE  HasField(msg, PairingAcks[a]) <=> a \in m.has
      OBVIOUS
    <3>1. PairingAcks[a] \in {11, 20, 31, 41}
      BY <1>7
    <3>2. Occurs(fs, PairingAcks[a]) <=> Occurs(ks, PairingAcks[a])
      BY <1>18, <3>1
    <3>3. QED
      BY <1>9, <1>19, <3>2 DEF HasField
  <2>2. m.has \subseteq DOMAIN PairingAcks
    BY <1>1
  <2>3. QED
    BY <2>1, <2>2
<1>22. PairingReply(msg) = m
  BY <1>1, <1>20, <1>21 DEF PairingReply
<1>23. QED
  BY <1>6, <1>19, <1>22 DEF msg

\* Either kind of message, as TvSendsMessage sends it.
LEMMA TvMessageMeans ==
    ASSUME NEW m \in IF channel = "remote" THEN Meanings ELSE PairingMeanings, NEW p \in Placements
    PROVE  LET msg == TvMessage(m, p)
           IN  msg \in Seq(Bytes) /\ Len(msg) <= MaxFrame /\ Meaning(msg) = m
<1>1. p \in Placed
  BY DEF Placements, Placed
<1>2. CASE channel = "remote"
  BY <1>1, <1>2, RemoteMeans DEF TvMessage, Meaning
<1>3. CASE channel # "remote"
  BY <1>1, <1>3, PairingMeans DEF TvMessage, Meaning
<1>4. QED
  BY <1>2, <1>3

-----------------------------------------------------------------------------
(* The stream and its reader *)

StreamOK ==
    /\ stream \in Seq(Bytes) /\ delivered \in Seq(Seq(Bytes))
    /\ ReaderOK(rx) /\ (rx.phase = "body" => rx.length # 0)

LEMMA StreamOKInit == Init => StreamOK
<1> SUFFICES ASSUME Init PROVE StreamOK
  OBVIOUS
<1>1. rx = FrameStart(rx) /\ rx.phase = "length"
  BY DEF Init, FrameStart
<1>2. ReaderOK(rx)
  BY <1>1, StartsFrame
<1>3. QED
  BY <1>1, <1>2 DEF Init, StreamOK

LEMMA StartPhase == \A r : FrameStart(r).phase = "length"
BY DEF FrameStart

LEMMA StreamOKNext == StreamOK /\ [Next]_vars => StreamOK'
<1> SUFFICES ASSUME StreamOK, [Next]_vars PROVE StreamOK'
  OBVIOUS
<1>0. /\ stream \in Seq(Bytes) /\ delivered \in Seq(Seq(Bytes))
      /\ ReaderOK(rx) /\ (rx.phase = "body" => rx.length # 0)
  BY DEF StreamOK
<1>a. ASSUME NEW bytes \in Seq(Bytes), NEW what, TvSends(bytes, what) PROVE StreamOK'
  <2>1. stream' = stream \o bytes /\ rx' = rx /\ delivered' = delivered
    BY <1>a DEF TvSends
  <2>2. stream' \in Seq(Bytes)
    BY <1>0, <2>1
  <2>3. ReaderOK(rx')
    BY <1>0, <2>1
  <2>4. QED
    BY <1>0, <2>1, <2>2, <2>3 DEF StreamOK
<1>1. CASE TvSendsMessage
  <2>1. PICK m \in IF channel = "remote" THEN Meanings ELSE PairingMeanings, p \in Placements :
           TvSends(Frame(TvMessage(m, p)), m)
    BY <1>1 DEF TvSendsMessage
  <2>2. Frame(TvMessage(m, p)) \in Seq(Bytes)
    BY TvMessageMeans, FrameBytes
  <2>3. QED
    BY <1>a, <2>1, <2>2
<1>2. CASE TvSendsGarbled
  <2>1. PICK n \in 0..MaxGarbled : \E body \in [1..n -> Bytes] : TvSends(Frame(body), Unknown)
    BY <1>2 DEF TvSendsGarbled
  <2>2. PICK body \in [1..n -> Bytes] : TvSends(Frame(body), Unknown)
    BY <2>1
  <2>3. n \in Nat
    BY FrameAssumption
  <2>4. body \in Seq(Bytes)
    BY <2>3
  <2>5. Frame(body) \in Seq(Bytes)
    BY <2>4, FrameBytes
  <2>6. QED
    BY <1>a, <2>2, <2>5
<1>3. CASE TvSendsByte
  <2>1. PICK byte \in RawBytes : TvSends(<<byte>>, Unknown)
    BY <1>3 DEF TvSendsByte
  <2>2. <<byte>> \in Seq(Bytes)
    BY FrameAssumption
  <2>3. QED
    BY <1>a, <2>1, <2>2
<1>4. CASE LengthByteRead
  <2> DEFINE byte == Head(stream)
             next == LengthByte(rx, byte)
  <2>1. /\ rx.phase = "length" /\ stream # <<>> /\ stream' = Tail(stream)
        /\ \/ /\ next.phase = "body" /\ next.length = 0
              /\ rx' = FrameStart(next) /\ Deliver(<<>>)
           \/ /\ ~(next.phase = "body" /\ next.length = 0)
              /\ rx' = next /\ delivered' = delivered
    BY <1>4 DEF LengthByteRead
  <2>2. byte \in Bytes /\ stream' \in Seq(Bytes)
    BY <1>0, <2>1
  <2>3. ReaderOK(next)
    BY <1>0, <2>1, <2>2, ReadsLengthByte
  <2> HIDE DEF next
  <2>4. CASE rx' = FrameStart(next) /\ Deliver(<<>>)
    <3>1. delivered' = Append(delivered, <<>>)
      BY <2>4 DEF Deliver
    <3>2. delivered' \in Seq(Seq(Bytes))
      BY <1>0, <3>1
    <3>3. ReaderOK(rx') /\ rx'.phase = "length"
      BY <2>4, StartsFrame, StartPhase
    <3>4. QED
      BY <2>2, <3>2, <3>3 DEF StreamOK
  <2>5. CASE ~(next.phase = "body" /\ next.length = 0) /\ rx' = next /\ delivered' = delivered
    <3>1. ReaderOK(rx') /\ (rx'.phase = "body" => rx'.length # 0)
      BY <2>3, <2>5
    <3>2. QED
      BY <1>0, <2>2, <2>5, <3>1 DEF StreamOK
  <2>6. QED
    BY <2>1, <2>4, <2>5
<1>5. CASE BodyRead
  <2> DEFINE n == rx.length
             body == SubSeq(stream, 1, n)
  <2>1. /\ rx.phase = "body" /\ Len(stream) >= n
        /\ stream' = SubSeq(stream, n + 1, Len(stream))
        /\ rx' = FrameStart(rx) /\ Deliver(body)
    BY <1>5 DEF BodyRead
  <2>2. n \in Nat
    BY <1>0 DEF ReaderOK, RxSet
  <2> HIDE DEF n
  <2>3. stream' \in Seq(Bytes) /\ body \in Seq(Bytes)
    BY <1>0, <2>1, <2>2
  <2>4. delivered' = Append(delivered, body)
    BY <2>1 DEF Deliver
  <2>5. delivered' \in Seq(Seq(Bytes))
    BY <1>0, <2>3, <2>4
  <2>6. ReaderOK(rx') /\ rx'.phase = "length"
    BY <2>1, StartsFrame, StartPhase
  <2>7. QED
    BY <2>3, <2>5, <2>6 DEF StreamOK
<1>6. CASE NewStream
  <2>1. stream' = <<>> /\ delivered' = <<>> /\ rx' = FrameStart(CloseStream(rx))
    BY <1>6 DEF NewStream
  <2>2. ReaderOK(rx') /\ rx'.phase = "length"
    BY <2>1, StartsFrame, StartPhase
  <2>3. QED
    BY <2>1, <2>2 DEF StreamOK
<1>7. CASE Command \/ SendVoiceData \/ UNCHANGED vars
  <2>1. stream' = stream /\ delivered' = delivered /\ rx' = rx
    BY <1>7 DEF Command, SendVoiceData, vars
  <2>2. ReaderOK(rx')
    BY <1>0, <2>1
  <2>3. QED
    BY <1>0, <2>1, <2>2 DEF StreamOK
<1>8. QED
  BY <1>1, <1>2, <1>3, <1>4, <1>5, <1>6, <1>7 DEF Next

LEMMA StreamOKHolds == Spec => []StreamOK
<1>1. QED
  BY StreamOKInit, StreamOKNext, PTL DEF Spec

\* Whatever bytes the television sends, readOneLengthByte and receive give up
\* a frame exactly when its prefix is too long or stands for too much, and
\* agree with decodeVarintPrefix on every other length.
THEOREM LengthsExact == Spec => []LengthsAreExact
<1>1. StreamOK => LengthsAreExact
  <2> SUFFICES ASSUME StreamOK PROVE LengthsAreExact
    OBVIOUS
  <2>1. ReaderOK(rx) /\ rx \in RxSet /\ (rx.phase = "body" => rx.length # 0)
    BY DEF StreamOK, ReaderOK
  <2>2. CASE rx.phase = "length"
    BY <2>1, <2>2 DEF LengthsAreExact, ReaderOK, InLength
  <2>3. CASE rx.phase = "body"
    <3>1. rx.length \in Nat /\ rx.length # 0 /\ InBody(rx) /\ MaxFrame \in Nat
      BY <2>1, <2>3, FrameAssumption DEF ReaderOK, RxSet
    <3>2. rx.length \in 1..MaxFrame
      BY <3>1 DEF InBody
    <3>3. QED
      BY <2>3, <3>1, <3>2 DEF LengthsAreExact, InBody
  <2>4. CASE rx.phase = "closed"
    BY <2>1, <2>4 DEF LengthsAreExact, ReaderOK, IsClosed
  <2>5. QED
    BY <2>1, <2>2, <2>3, <2>4 DEF RxSet
<1>2. QED
  BY <1>1, StreamOKHolds, PTL

\* Reader stays inside every message it is given and always moves on, so that
\* the loops of parseRemote, findVarint, findBytes and hasField end.
THEOREM ReaderInside == Spec => []ReaderStaysInside
<1>1. StreamOK => ReaderStaysInside
  <2> SUFFICES ASSUME StreamOK, NEW i \in DOMAIN delivered PROVE StaysInside(delivered[i])
    BY DEF ReaderStaysInside
  <2>1. delivered[i] \in Seq(Bytes)
    BY DEF StreamOK
  <2>2. QED
    BY <2>1, ReaderIsBounded
<1>2. QED
  BY <1>1, StreamOKHolds, PTL

-----------------------------------------------------------------------------
(* What an honest television sends, as a whole *)

\* All bytes sent on a stream: the frames of msgs, of which the i-th ends at[i].
Laid(whole, msgs, at) ==
    /\ whole \in Seq(Bytes) /\ msgs \in Seq(Seq(Bytes)) /\ at \in [0..Len(msgs) -> Nat]
    /\ at[Len(msgs)] = Len(whole)
    /\ \A i \in 1..Len(msgs) :
          /\ Holds(whole, at[i - 1], Frame(msgs[i])) /\ at[i] = at[i - 1] + Len(Frame(msgs[i]))
          /\ Len(msgs[i]) <= MaxFrame

\* A reader that has read the first pos of these bytes and d whole messages.
Reading(r, d, whole, msgs, at, pos) ==
    /\ pos \in Nat /\ pos <= Len(whole) /\ d \in 0..Len(msgs)
    /\ r.phase # "closed"
    /\ r.phase = "length" => /\ pos = at[d] + Len(r.prefix) /\ Holds(whole, at[d], r.prefix)
                             /\ r.prefix # <<>> => /\ d < Len(msgs)
                                                   /\ Len(r.prefix) < Len(Varint(Len(msgs[d + 1])))
    /\ r.phase = "body" => /\ d < Len(msgs) /\ r.length = Len(msgs[d + 1])
                           /\ pos = at[d] + Len(Varint(Len(msgs[d + 1])))

\* What is not read yet.
Rest(s, whole, pos) ==
    s \in Seq(Bytes) /\ Len(s) = Len(whole) - pos /\ \A i \in 1..Len(s) : s[i] = whole[pos + i]

LEMMA FrameAt ==
    ASSUME NEW whole, NEW msgs, NEW at, Laid(whole, msgs, at), NEW d \in 0..Len(msgs), d < Len(msgs)
    PROVE  LET msg == msgs[d + 1]
               l   == Varint(Len(msg))
           IN  /\ msg \in Seq(Bytes) /\ l \in Seq(Bytes) /\ Len(l) \in Nat \ {0} /\ Len(l) <= Groups
               /\ Len(msg) \in Nat /\ Len(msg) <= MaxFrame /\ Len(msg) < Word
               /\ at[d] \in Nat /\ Holds(whole, at[d], l) /\ Holds(whole, at[d] + Len(l), msg)
               /\ at[d + 1] = at[d] + Len(l) + Len(msg) /\ at[d + 1] <= Len(whole) /\ at[d + 1] \in Nat
<1> DEFINE msg == msgs[d + 1]
           l == Varint(Len(msg))
           i == d + 1
<1>1. Len(msgs) \in Nat /\ i \in 1..Len(msgs) /\ i - 1 = d /\ i \in 0..Len(msgs) /\ msgs \in Seq(Seq(Bytes))
  BY DEF Laid
<1>2. msg \in Seq(Bytes) /\ Len(msg) \in Nat /\ at[d] \in Nat /\ at[i] \in Nat
  <2>1. msg \in Seq(Bytes)
    BY <1>1
  <2>2. at \in [0..Len(msgs) -> Nat]
    BY DEF Laid
  <2> HIDE DEF msg, i
  <2>3. QED
    BY <1>1, <2>1, <2>2
<1>3. Holds(whole, at[d], Frame(msg)) /\ at[i] = at[d] + Len(Frame(msg)) /\ Len(msg) <= MaxFrame
  <2>1. /\ Holds(whole, at[i - 1], Frame(msgs[i])) /\ at[i] = at[i - 1] + Len(Frame(msgs[i]))
        /\ Len(msgs[i]) <= MaxFrame
    BY <1>1 DEF Laid
  <2>2. QED
    BY <1>1, <2>1
<1> HIDE DEF msg, i
<1>4. Len(msg) < Word
  <2>1. MaxFrame \in Nat /\ MaxFrame < Word
    BY FrameAssumption
  <2>2. Word \in Nat
    BY WidthFacts
  <2>3. QED
    BY <1>2, <1>3, <2>1, <2>2
<1>5. /\ Frame(msg) = l \o msg /\ l \in Seq(Bytes) /\ Len(l) \in Nat /\ Len(l) # 0
      /\ Len(Frame(msg)) = Len(l) + Len(msg)
  BY <1>2, <1>4, FrameParts
<1>6. Len(l) \in 1..Groups
  BY <1>2, <1>4, VarintSize
<1> HIDE DEF l
<1>7. whole \in Seq(Bytes)
  BY DEF Laid
<1>8. Holds(whole, at[d], l) /\ Holds(whole, at[d] + Len(l), msg)
  BY <1>2, <1>3, <1>5, <1>7, HoldsParts
<1>9. at[i] <= Len(whole)
  BY <1>3 DEF Holds
<1>10. at[i] = at[d] + Len(l) + Len(msg) /\ Len(l) <= Groups
  BY <1>2, <1>3, <1>5, <1>6
<1>11. QED
  BY <1>2, <1>3, <1>4, <1>5, <1>8, <1>9, <1>10 DEF msg, i, l

LEMMA LaidMore ==
    ASSUME NEW whole, NEW msgs, NEW at, Laid(whole, msgs, at), NEW msg \in Seq(Bytes), Len(msg) <= MaxFrame
    PROVE  LET k == Len(msgs)
               f == Frame(msg)
           IN  Laid(whole \o f, Append(msgs, msg),
                    [i \in 0..(k + 1) |-> IF i <= k THEN at[i] ELSE at[k] + Len(f)])
<1> DEFINE k == Len(msgs)
           f == Frame(msg)
           w == whole \o f
           ms == Append(msgs, msg)
           a == [i \in 0..(k + 1) |-> IF i <= k THEN at[i] ELSE at[k] + Len(f)]
<1>1. /\ whole \in Seq(Bytes) /\ msgs \in Seq(Seq(Bytes)) /\ k \in Nat /\ at \in [0..k -> Nat]
      /\ at[k] = Len(whole) /\ Len(whole) \in Nat
  BY DEF Laid
<1>2. f \in Seq(Bytes) /\ Len(f) \in Nat
  BY FrameBytes
<1> HIDE DEF f
<1>3. /\ w \in Seq(Bytes) /\ Len(w) = Len(whole) + Len(f)
      /\ \A i \in 1..Len(whole) : w[i] = whole[i]
      /\ \A i \in 1..Len(f) : w[Len(whole) + i] = f[i]
  BY <1>1, <1>2
<1>4. /\ ms \in Seq(Seq(Bytes)) /\ Len(ms) = k + 1 /\ ms[k + 1] = msg
      /\ \A i \in 1..k : ms[i] = msgs[i]
  BY <1>1
<1>5. /\ \A i \in 0..k : a[i] = at[i]
      /\ a[k + 1] = at[k] + Len(f) /\ a \in [0..(k + 1) -> Nat]
  BY <1>1, <1>2
<1> HIDE DEF w, ms, a
<1>6. a[Len(ms)] = Len(w)
  BY <1>1, <1>3, <1>4, <1>5
<1>7. ASSUME NEW i \in 1..Len(ms)
      PROVE  /\ Holds(w, a[i - 1], Frame(ms[i])) /\ a[i] = a[i - 1] + Len(Frame(ms[i]))
             /\ Len(ms[i]) <= MaxFrame
  <2>1. CASE i \in 1..k
    <3>1. /\ Holds(whole, at[i - 1], Frame(msgs[i])) /\ at[i] = at[i - 1] + Len(Frame(msgs[i]))
          /\ Len(msgs[i]) <= MaxFrame
      BY <2>1 DEF Laid
    <3>2. i - 1 \in 0..k /\ i \in 0..k /\ ms[i] = msgs[i]
      BY <1>1, <1>4, <2>1
    <3>3. a[i - 1] = at[i - 1] /\ a[i] = at[i] /\ at[i - 1] \in Nat
      BY <1>1, <1>5, <3>2
    <3>4. Frame(msgs[i]) \in Seq(Bytes)
      BY <1>1, <2>1, FrameBytes
    <3> DEFINE g == Frame(msgs[i])
               o == at[i - 1]
    <3>5. o \in Nat /\ g \in Seq(Bytes) /\ Holds(whole, o, g)
      BY <3>1, <3>3, <3>4
    <3> HIDE DEF g, o
    <3>6. Holds(w, o, g)
      <4>1. Len(g) \in Nat /\ o + Len(g) <= Len(whole) /\ \A j \in 1..Len(g) : whole[o + j] = g[j]
        BY <3>5 DEF Holds
      <4>2. o + Len(g) <= Len(w)
        BY <1>1, <1>2, <1>3, <3>5, <4>1
      <4>3. ASSUME NEW j \in 1..Len(g) PROVE w[o + j] = g[j]
        <5>1. o + j \in 1..Len(whole)
          BY <1>1, <3>5, <4>1
        <5>2. QED
          BY <1>3, <4>1, <5>1
      <4>4. QED
        BY <4>2, <4>3 DEF Holds
    <3>7. QED
      BY <3>1, <3>2, <3>3, <3>6 DEF g, o
  <2>2. CASE i \notin 1..k
    <3>1. i = k + 1 /\ i - 1 = k /\ k \in 0..k
      BY <1>1, <1>4, <2>2
    <3>2. Frame(ms[i]) = f /\ ms[i] = msg /\ a[i - 1] = Len(whole)
      BY <1>1, <1>4, <1>5, <3>1 DEF f
    <3>3. Holds(w, Len(whole), f)
      BY <1>1, <1>2, <1>3 DEF Holds
    <3>4. QED
      BY <1>1, <1>5, <3>1, <3>2, <3>3
  <2>3. QED
    BY <2>1, <2>2
<1>8. a \in [0..Len(ms) -> Nat]
  BY <1>4, <1>5
<1>9. Laid(w, ms, a)
  BY <1>3, <1>4, <1>6, <1>7, <1>8 DEF Laid
<1>10. QED
  BY <1>9 DEF w, ms, a, f

\* One more byte of a length prefix.
LEMMA ReadsOn ==
    ASSUME NEW r, NEW d, NEW whole, NEW msgs, NEW at, NEW pos, Laid(whole, msgs, at), ReaderOK(r),
           Reading(r, d, whole, msgs, at, pos), r.phase = "length", pos < Len(whole)
    PROVE  LET next == ReadOneLengthByte(r, whole[pos + 1])
           IN  /\ Reading(next, d, whole, msgs, at, pos + 1)
               /\ next.phase = "body" /\ next.length = 0 =>
                     /\ d + 1 \in 0..Len(msgs) /\ msgs[d + 1] = <<>>
                     /\ Reading(FrameStart(next), d + 1, whole, msgs, at, pos + 1)
<1> DEFINE byte == whole[pos + 1]
           next == ReadOneLengthByte(r, byte)
           p == r.prefix
           j == Len(p)
           msg == msgs[d + 1]
           l == Varint(Len(msg))
<1>1. /\ pos \in Nat /\ d \in 0..Len(msgs) /\ pos = at[d] + j /\ Holds(whole, at[d], p)
      /\ p # <<>> => d < Len(msgs) /\ j < Len(l)
  BY DEF Reading
<1>2. p \in Seq(Bytes) /\ j \in Nat /\ whole \in Seq(Bytes) /\ Len(whole) \in Nat /\ Len(msgs) \in Nat
      /\ at \in [0..Len(msgs) -> Nat] /\ at[Len(msgs)] = Len(whole)
  BY DEF ReaderOK, RxSet, Laid
<1>3. d < Len(msgs)
  <2>1. CASE p = <<>>
    <3>1. j = 0
      BY <2>1
    <3>2. at[d] < at[Len(msgs)] /\ at[d] \in Nat
      BY <1>1, <1>2, <3>1
    <3>3. d # Len(msgs)
      BY <3>2
    <3>4. QED
      BY <1>1, <1>2, <3>3
  <2>2. CASE p # <<>>
    BY <1>1, <2>2
  <2>3. QED
    BY <2>1, <2>2
<1>4. /\ msg \in Seq(Bytes) /\ l \in Seq(Bytes) /\ Len(l) \in Nat \ {0} /\ Len(l) <= Groups
      /\ Len(msg) \in Nat /\ Len(msg) <= MaxFrame /\ Len(msg) < Word
      /\ at[d] \in Nat /\ Holds(whole, at[d], l) /\ Holds(whole, at[d] + Len(l), msg)
      /\ at[d + 1] = at[d] + Len(l) + Len(msg) /\ at[d + 1] <= Len(whole) /\ at[d + 1] \in Nat
  BY <1>1, <1>3, FrameAt
<1>5. Shaped(l, Len(msg))
  BY <1>4, VarintIsShaped
<1> DEFINE n == Len(msg)
           o == at[d]
           e == at[d + 1]
<1> HIDE DEF l, n, msg, o, e
<1>6. j < Len(l)
  <2>1. CASE p = <<>>
    <3>1. j = 0
      BY <2>1
    <3>2. QED
      BY <1>4, <3>1
  <2>2. CASE p # <<>>
    BY <1>1, <2>2 DEF msg, l
  <2>3. QED
    BY <2>1, <2>2
<1>7. byte = l[j + 1] /\ byte \in Bytes
  <2>1. j + 1 \in 1..Len(l) /\ pos + 1 = o + (j + 1) /\ o \in Nat
    BY <1>1, <1>2, <1>4, <1>6, SMTT(30) DEF o
  <2>2. \A i \in 1..Len(l) : whole[o + i] = l[i]
    BY <1>4 DEF Holds, o
  <2>3. byte = l[j + 1]
    BY <2>1, <2>2
  <2>4. l[j + 1] \in Bytes
    BY <1>4, <2>1
  <2>5. QED
    BY <2>3, <2>4
<1> HIDE DEF byte, j, p
<1>8. ReaderOK(next) /\ next.prefix = Append(p, byte)
  BY <1>7, ReadsByte DEF p
<1>9. /\ Len(Append(p, byte)) = j + 1 /\ Append(p, byte) \in Seq(Bytes)
      /\ \A i \in 1..(j + 1) : Append(p, byte)[i] = l[i]
  <2>1. \A i \in 1..j : p[i] = l[i]
    <3>1. /\ \A i \in 1..j : whole[o + i] = p[i]
          /\ \A i \in 1..Len(l) : whole[o + i] = l[i]
      BY <1>1, <1>4 DEF Holds, o, j
    <3>2. \A i \in 1..j : i \in 1..Len(l)
      BY <1>2, <1>4, <1>6
    <3>3. QED
      BY <3>1, <3>2
  <2>2. Len(p) = j
    BY DEF j
  <2> DEFINE s == Append(p, byte)
  <2>3. s \in Seq(Bytes) /\ Len(s) = j + 1 /\ s[j + 1] = byte /\ \A i \in 1..j : s[i] = p[i]
    BY <1>2, <1>7, <2>2
  <2> HIDE DEF s
  <2>4. ASSUME NEW i \in 1..(j + 1) PROVE s[i] = l[i]
    <3>1. CASE i = j + 1
      BY <1>7, <2>3, <3>1
    <3>2. CASE i # j + 1
      <4>1. i \in 1..j
        BY <1>2, <3>2
      <4>2. QED
        BY <2>1, <2>3, <4>1
    <3>3. QED
      BY <3>1, <3>2
  <2>5. QED
    BY <2>3, <2>4 DEF s
<1> DEFINE s == Append(p, byte)
<1> HIDE DEF s
<1>10. Holds(whole, o, s) /\ Len(s) = j + 1
  <2>1. Len(s) = j + 1 /\ \A i \in 1..(j + 1) : s[i] = l[i]
    BY <1>9 DEF s
  <2>2. o + Len(l) <= Len(whole) /\ \A i \in 1..Len(l) : whole[o + i] = l[i]
    BY <1>4 DEF Holds, o
  <2>3. o + (j + 1) <= Len(whole) /\ \A i \in 1..(j + 1) : i \in 1..Len(l)
    BY <1>2, <1>4, <1>6, <2>2 DEF o
  <2>4. QED
    BY <2>1, <2>2, <2>3 DEF Holds
<1>11. pos + 1 \in Nat /\ pos + 1 <= Len(whole) /\ pos + 1 = o + (j + 1)
  BY <1>1, <1>2, <1>4, SMTT(30) DEF o
<1>12. next.prefix = s
  BY <1>8 DEF s
<1>13. CASE j + 1 < Len(l)
  <2>1. byte >= Base
    <3>1. j + 1 \in 1..(Len(l) - 1)
      BY <1>2, <1>4, <1>13
    <3>2. QED
      BY <1>5, <1>7, <3>1 DEF Shaped
  <2>2. r.shift = GroupBits * j
    BY DEF ReaderOK, InLength, j, p
  <2>3. r.shift + GroupBits <= MaxShift /\ r.shift + GroupBits \in Nat /\ MaxShift \in Nat
    <3>1. j + 1 \in Nat /\ (j + 1) + 1 <= Groups
      BY <1>2, <1>4, <1>13, WidthFacts
    <3>2. GroupBits * (j + 1) <= MaxShift
      BY <3>1, GroupsFit
    <3>3. GroupBits * (j + 1) = (GroupBits * j) + GroupBits /\ GroupBits * j \in Nat /\ GroupBits \in Nat
      BY <1>2, WidthAssumption
    <3>4. QED
      BY <2>2, <3>2, <3>3, WidthFacts
  <2>4. ~(r.shift + GroupBits > MaxShift)
    BY <2>3
  <2>5. next.phase = "length"
    BY <2>1, <2>4 DEF ReadOneLengthByte
  <2>6. s # <<>> /\ Len(s) < Len(l)
    <3>1. Len(s) # 0 /\ Len(s) < Len(l)
      BY <1>2, <1>10, <1>13
    <3>2. Len(<<>>) = 0
      OBVIOUS
    <3>3. QED
      BY <3>1, <3>2
  <2>7. Reading(next, d, whole, msgs, at, pos + 1)
    BY <1>1, <1>3, <1>10, <1>11, <1>12, <2>5, <2>6 DEF Reading, o, l, msg
  <2>8. next.phase # "body"
    BY <2>5
  <2>9. QED
    BY <2>7, <2>8 DEF byte
<1>14. CASE ~(j + 1 < Len(l))
  <2>1. j + 1 = Len(l)
    BY <1>2, <1>4, <1>6, <1>14
  <2>2. byte < Base
    BY <1>5, <1>7, <2>1 DEF Shaped
  <2>3. s = l
    <3>1. s \in Seq(Bytes) /\ Len(s) = Len(l) /\ \A i \in 1..Len(s) : s[i] = l[i]
      BY <1>9, <2>1 DEF s
    <3>2. QED
      BY <1>4, <3>1, SeqEqual
  <2>4. TrueLength(l) = n /\ n % Word = n
    <3>1. TrueLength(l) = n
      BY <1>4, <1>5, TrueLengthIs DEF Shaped, n
    <3>2. n \in 0..(Word - 1) /\ n \in Int /\ Word \in Nat \ {0}
      BY <1>4, WidthFacts DEF n
    <3>3. QED
      BY <3>1, <3>2, DivMod
  <2>5. ~Continues(l)
    <3>1. Len(l) \in DOMAIN l /\ l[Len(l)] = byte
      BY <1>4, <1>7, <2>1
    <3>2. byte \in Int /\ Base \in Int
      BY <1>7, WidthFacts
    <3>3. QED
      BY <2>2, <3>1, <3>2 DEF Continues
  <2>6. n <= MaxFrame /\ n \in Nat /\ MaxFrame \in Nat
    BY <1>4, FrameAssumption DEF n
  <2>7. ~(n > MaxFrame)
    BY <2>6
  <2>8. next.phase # "closed"
    BY <1>8, <1>12, <2>3, <2>4, <2>5, <2>7 DEF ReaderOK, IsClosed
  <2>9. next.phase \in {"closed", "body"}
    <3>1. ~(byte >= Base)
      BY <1>7, <2>2, WidthFacts
    <3>2. QED
      BY <3>1 DEF ReadOneLengthByte
  <2>10. next.phase = "body" /\ next.length = n
    BY <1>8, <1>12, <2>3, <2>4, <2>8, <2>9 DEF ReaderOK, InBody
  <2>11. Reading(next, d, whole, msgs, at, pos + 1)
    BY <1>1, <1>3, <1>11, <2>1, <2>10 DEF Reading, o, l, msg, n
  <2>12. ASSUME next.length = 0
         PROVE  /\ d + 1 \in 0..Len(msgs) /\ msg = <<>>
                /\ Reading(FrameStart(next), d + 1, whole, msgs, at, pos + 1)
    <3>1. n = 0
      BY <2>10, <2>12
    <3>2. msg = <<>>
      BY <1>4, <3>1 DEF n
    <3>3. e = pos + 1 /\ e \in Nat /\ e <= Len(whole)
      <4>1. e = o + Len(l) + n /\ e <= Len(whole) /\ e \in Nat /\ o \in Nat /\ Len(l) \in Nat
        BY <1>4 DEF e, o, n
      <4>2. QED
        BY <1>11, <2>1, <3>1, <4>1
    <3>4. d + 1 \in 0..Len(msgs)
      BY <1>1, <1>2, <1>3
    <3>5. FrameStart(next).phase = "length" /\ FrameStart(next).prefix = <<>>
      BY DEF FrameStart
    <3>6. Holds(whole, e, <<>>) /\ Len(<<>>) = 0
      BY <1>2, <3>3 DEF Holds
    <3>7. Reading(FrameStart(next), d + 1, whole, msgs, at, pos + 1)
      BY <1>11, <3>3, <3>4, <3>5, <3>6 DEF Reading, e
    <3>8. QED
      BY <3>2, <3>4, <3>7
  <2>13. QED
    BY <2>11, <2>12 DEF byte, msg
<1>15. QED
  BY <1>13, <1>14

\* The whole of a body.
LEMMA ReadsWhole ==
    ASSUME NEW r, NEW d, NEW whole, NEW msgs, NEW at, NEW pos, Laid(whole, msgs, at),
           Reading(r, d, whole, msgs, at, pos), r.phase = "body",
           NEW s, Rest(s, whole, pos)
    PROVE  /\ r.length \in Nat /\ d + 1 \in 0..Len(msgs) /\ r.length <= Len(s)
           /\ SubSeq(s, 1, r.length) = msgs[d + 1]
           /\ Reading(FrameStart(r), d + 1, whole, msgs, at, pos + r.length)
<1> DEFINE msg == msgs[d + 1]
           l == Varint(Len(msg))
           n == Len(msg)
           o == at[d]
           e == at[d + 1]
<1>1. /\ pos \in Nat /\ d \in 0..Len(msgs) /\ d < Len(msgs) /\ r.length = n /\ pos = o + Len(l)
  BY DEF Reading
<1>2. /\ msg \in Seq(Bytes) /\ Len(l) \in Nat /\ n \in Nat /\ o \in Nat
      /\ Holds(whole, o + Len(l), msg) /\ e = o + Len(l) + n /\ e <= Len(whole) /\ e \in Nat
  BY <1>1, FrameAt
<1>3. /\ s \in Seq(Bytes) /\ Len(s) \in Nat /\ Len(s) = Len(whole) - pos
      /\ \A i \in 1..Len(s) : s[i] = whole[pos + i]
      /\ Len(whole) \in Nat /\ Len(msgs) \in Nat
  <2>1. whole \in Seq(Bytes) /\ msgs \in Seq(Seq(Bytes))
    BY DEF Laid
  <2>2. s \in Seq(Bytes) /\ Len(s) = Len(whole) - pos /\ \A i \in 1..Len(s) : s[i] = whole[pos + i]
    BY DEF Rest
  <2>3. QED
    BY <2>1, <2>2
<1> HIDE DEF l, n, o, e
<1>4. n <= Len(s) /\ e = pos + n
  BY <1>1, <1>2, <1>3
<1>5. SubSeq(s, 1, n) = msg
  <2> DEFINE b == SubSeq(s, 1, n)
  <2>1. b \in Seq(Bytes) /\ Len(b) = n /\ \A i \in 1..n : b[i] = s[i]
    BY <1>2, <1>3, <1>4
  <2>2. \A i \in 1..n : whole[pos + i] = msg[i]
    BY <1>1, <1>2 DEF Holds, n
  <2>3. \A i \in 1..n : i \in 1..Len(s)
    BY <1>2, <1>3, <1>4
  <2> HIDE DEF b
  <2>4. \A i \in 1..Len(b) : b[i] = msg[i]
    BY <1>3, <2>1, <2>2, <2>3
  <2>5. Len(b) = Len(msg)
    BY <2>1 DEF n
  <2>6. b = msg
    BY <1>2, <2>1, <2>4, <2>5, SeqEqual
  <2>7. QED
    BY <2>6 DEF b
<1>6. d + 1 \in 0..Len(msgs)
  BY <1>1, <1>3
<1>7. FrameStart(r).phase = "length" /\ FrameStart(r).prefix = <<>>
  BY DEF FrameStart
<1>8. Holds(whole, e, <<>>) /\ Len(<<>>) = 0
  BY <1>2, <1>3 DEF Holds
<1>9. Reading(FrameStart(r), d + 1, whole, msgs, at, pos + n)
  BY <1>2, <1>4, <1>6, <1>7, <1>8 DEF Reading, e
<1>10. QED
  BY <1>1, <1>2, <1>4, <1>5, <1>6, <1>9

-----------------------------------------------------------------------------
(* Meaning arrives *)

\* What is in transit from an honest television: whole is all it sent on this
\* stream, pos how much of it has been read.
Carried(whole, msgs, at, pos) ==
    /\ Laid(whole, msgs, at) /\ Rest(stream, whole, pos)
    /\ Reading(rx, Len(delivered), whole, msgs, at, pos)
    /\ sent \in Seq({Meaning(m) : m \in Seq(Bytes)}) /\ Len(msgs) = Len(sent)
    /\ \A i \in 1..Len(msgs) : Meaning(msgs[i]) = sent[i]
    /\ \A i \in 1..Len(delivered) : delivered[i] = msgs[i]

InTransit == \E whole, msgs, at, pos : Carried(whole, msgs, at, pos)
Transit == tv = "honest" => InTransit

Blank == stream = <<>> /\ sent = <<>> /\ delivered = <<>> /\ \E r : rx = FrameStart(r)

LEMMA NothingCarried == Blank => InTransit
<1> SUFFICES ASSUME Blank PROVE InTransit
  OBVIOUS
<1> DEFINE e == <<>>
           at == [i \in {0} |-> 0]
           z == 0
<1>1. e \in Seq(Bytes) /\ e \in Seq(Seq(Bytes)) /\ Len(e) = z /\ z \in Nat /\ z = 0 /\ 1..z = {} /\ 0..z = {0}
  OBVIOUS
<1>2. at \in [0..z -> Nat] /\ at[z] = z
  BY <1>1
<1>3. rx.phase = "length" /\ rx.prefix = e
  BY DEF FrameStart, Blank
<1> HIDE DEF e, z, at
<1>4. Laid(e, e, at)
  BY <1>1, <1>2 DEF Laid
<1>5. Rest(e, e, z)
  BY <1>1 DEF Rest
<1>6. Holds(e, z, e) /\ z = at[z] + Len(e)
  BY <1>1, <1>2 DEF Holds
<1>7. Reading(rx, z, e, e, at, z)
  BY <1>1, <1>2, <1>3, <1>6 DEF Reading, e
<1>8. stream = e /\ sent = e /\ delivered = e /\ e \in Seq({Meaning(m) : m \in Seq(Bytes)})
  BY DEF e, Blank
<1>9. Carried(e, e, at, z)
  BY <1>1, <1>4, <1>5, <1>7, <1>8 DEF Carried
<1>10. QED
  BY <1>9 DEF InTransit

LEMMA TransitInit == Init => Transit
<1> SUFFICES ASSUME Init PROVE Transit
  OBVIOUS
<1>1. Blank
  BY DEF Init, FrameStart, Blank
<1>2. QED
  BY <1>1, NothingCarried DEF Transit

LEMMA SendsOn ==
    ASSUME NEW whole, NEW msgs, NEW at, NEW pos, Carried(whole, msgs, at, pos), StreamOK,
           NEW msg \in Seq(Bytes), Len(msg) <= MaxFrame, TvSends(Frame(msg), Meaning(msg))
    PROVE  \E w, ms, a : Carried(w, ms, a, pos)'
<1> DEFINE k == Len(msgs)
           f == Frame(msg)
           w == whole \o f
           ms == Append(msgs, msg)
           a == [i \in 0..(k + 1) |-> IF i <= k THEN at[i] ELSE at[k] + Len(f)]
           d == Len(delivered)
           M == {Meaning(m) : m \in Seq(Bytes)}
<1>1. /\ Laid(whole, msgs, at) /\ Rest(stream, whole, pos) /\ Reading(rx, d, whole, msgs, at, pos)
      /\ sent \in Seq(M) /\ k = Len(sent)
      /\ \A i \in 1..k : Meaning(msgs[i]) = sent[i]
      /\ \A i \in 1..d : delivered[i] = msgs[i]
  BY DEF Carried
<1>2. Laid(w, ms, a)
  BY <1>1, LaidMore
<1>3. /\ stream' = stream \o f /\ sent' = Append(sent, Meaning(msg))
      /\ channel' = channel /\ rx' = rx /\ delivered' = delivered
  BY DEF TvSends
<1>4. /\ whole \in Seq(Bytes) /\ Len(whole) \in Nat /\ msgs \in Seq(Seq(Bytes)) /\ k \in Nat
      /\ at \in [0..k -> Nat]
  BY <1>1 DEF Laid
<1>5. f \in Seq(Bytes) /\ Len(f) \in Nat
  BY FrameBytes
<1> HIDE DEF f
<1>6. /\ w \in Seq(Bytes) /\ Len(w) = Len(whole) + Len(f)
      /\ \A i \in 1..Len(whole) : w[i] = whole[i]
      /\ \A i \in 1..Len(f) : w[Len(whole) + i] = f[i]
  BY <1>4, <1>5
<1>7. ms \in Seq(Seq(Bytes)) /\ Len(ms) = k + 1 /\ ms[k + 1] = msg /\ \A i \in 1..k : ms[i] = msgs[i]
  BY <1>4
<1>8. \A i \in 0..k : a[i] = at[i]
  BY <1>4
<1> HIDE DEF w, ms, a, k
<1>9. pos \in Nat /\ pos <= Len(whole) /\ d \in 0..k
  BY <1>1 DEF Reading, k
<1>10. Rest(stream', w, pos)
  <2>1. stream \in Seq(Bytes) /\ Len(stream) = Len(whole) - pos /\ \A i \in 1..Len(stream) : stream[i] = whole[pos + i]
    BY <1>1 DEF Rest
  <2> DEFINE q == Len(stream)
             t == stream \o f
  <2>2. /\ t \in Seq(Bytes) /\ Len(t) = q + Len(f) /\ q \in Nat
        /\ \A i \in 1..q : t[i] = stream[i]
        /\ \A i \in 1..Len(f) : t[q + i] = f[i]
    <3>1. stream \in Seq(Bytes)
      BY <2>1
    <3>2. QED
      BY <1>5, <3>1
  <2> HIDE DEF t, q
  <2>3. q = Len(whole) - pos
    BY <2>1 DEF q
  <2>4. ASSUME NEW i \in 1..Len(t) PROVE t[i] = w[pos + i]
    <3>1. CASE i \in 1..q
      <4>1. pos + i \in 1..Len(whole)
        BY <1>4, <1>9, <2>3, <3>1
      <4>2. t[i] = stream[i] /\ stream[i] = whole[pos + i] /\ w[pos + i] = whole[pos + i]
        BY <1>6, <2>1, <2>2, <3>1, <4>1 DEF q
      <4>3. QED
        BY <4>2
    <3>2. CASE i \notin 1..q
      <4>1. i - q \in 1..Len(f) /\ q + (i - q) = i /\ Len(whole) + (i - q) = pos + i
        BY <1>4, <1>5, <1>9, <2>2, <2>3, <3>2
      <4>2. t[q + (i - q)] = f[i - q] /\ w[Len(whole) + (i - q)] = f[i - q]
        BY <1>6, <2>2, <4>1
      <4>3. QED
        BY <4>1, <4>2
    <3>3. QED
      BY <3>1, <3>2
  <2>5. Len(t) = Len(w) - pos
    BY <1>4, <1>5, <1>6, <1>9, <2>2, <2>3
  <2>6. Rest(t, w, pos)
    BY <2>2, <2>4, <2>5 DEF Rest
  <2>7. QED
    BY <1>3, <2>6 DEF t
<1>11. Reading(rx, d, w, ms, a, pos)
  <2>1. pos <= Len(w) /\ d \in 0..Len(ms) /\ a[d] = at[d] /\ at[d] \in Nat
    BY <1>4, <1>5, <1>6, <1>7, <1>8, <1>9
  <2>2. d < k => d < Len(ms) /\ ms[d + 1] = msgs[d + 1]
    BY <1>4, <1>7, <1>9
  <2>3. ASSUME NEW o \in Nat, NEW p \in Seq(Bytes), Holds(whole, o, p) PROVE Holds(w, o, p)
    <3>1. o + Len(p) <= Len(whole) /\ Len(p) \in Nat /\ \A i \in 1..Len(p) : whole[o + i] = p[i]
      BY <2>3 DEF Holds
    <3>2. o + Len(p) <= Len(w) /\ \A i \in 1..Len(p) : o + i \in 1..Len(whole)
      BY <1>4, <1>5, <1>6, <2>3, <3>1
    <3>3. QED
      BY <1>6, <3>1, <3>2 DEF Holds
  <2>4. rx.prefix \in Seq(Bytes)
    BY DEF StreamOK, ReaderOK, RxSet
  <2>5. CASE rx.phase = "length"
    <3>1. /\ pos = at[d] + Len(rx.prefix) /\ Holds(whole, at[d], rx.prefix)
          /\ rx.prefix # <<>> => d < k /\ Len(rx.prefix) < Len(Varint(Len(msgs[d + 1])))
      BY <1>1, <2>5 DEF Reading, k
    <3>2. Holds(w, at[d], rx.prefix)
      BY <2>1, <2>3, <2>4, <3>1
    <3>3. QED
      BY <1>9, <2>1, <2>2, <2>5, <3>1, <3>2 DEF Reading
  <2>6. CASE rx.phase # "length"
    <3>1. rx.phase # "closed" /\ (rx.phase = "body" => d < k /\ rx.length = Len(msgs[d + 1])
                                   /\ pos = at[d] + Len(Varint(Len(msgs[d + 1]))))
      BY <1>1 DEF Reading, k
    <3>2. QED
      BY <1>9, <2>1, <2>2, <2>6, <3>1 DEF Reading
  <2>7. QED
    BY <2>5, <2>6
<1>12. /\ sent' \in Seq(M) /\ Len(sent') = k + 1
       /\ \A i \in 1..(k + 1) : Meaning(ms[i]) = sent'[i]
  <2> DEFINE v == Meaning(msg)
             ss == Append(sent, v)
  <2>1. v \in M
    OBVIOUS
  <2>2. k = Len(sent) /\ sent \in Seq(M)
    BY <1>1 DEF k
  <2> HIDE DEF v, M
  <2>3. ss \in Seq(M) /\ Len(ss) = k + 1 /\ ss[k + 1] = v /\ \A i \in 1..k : ss[i] = sent[i]
    BY <2>1, <2>2
  <2> HIDE DEF ss
  <2>4. ASSUME NEW i \in 1..(k + 1) PROVE Meaning(ms[i]) = ss[i]
    <3>1. CASE i = k + 1
      BY <1>7, <2>3, <3>1 DEF v
    <3>2. CASE i # k + 1
      <4>1. i \in 1..k
        BY <1>4, <3>2
      <4>2. QED
        BY <1>1, <1>7, <2>3, <4>1 DEF k
    <3>3. QED
      BY <3>1, <3>2
  <2>5. QED
    BY <1>3, <2>3, <2>4 DEF ss, v
<1>13. \A i \in 1..d : delivered[i] = ms[i]
  <2>1. \A i \in 1..d : i \in 1..k
    BY <1>4, <1>9
  <2>2. QED
    BY <1>1, <1>7, <2>1
<1>14. \A m : Meaning(m)' = Meaning(m)
  BY <1>3 DEF Meaning
<1>15. Carried(w, ms, a, pos)'
  BY <1>2, <1>3, <1>7, <1>10, <1>11, <1>12, <1>13, <1>14 DEF Carried
<1>16. QED
  BY <1>15

LEMMA TailIs ==
    ASSUME NEW s \in Seq(Bytes), s # <<>>
    PROVE  Tail(s) = SubSeq(s, 1 + 1, Len(s))
<1> DEFINE t == Tail(s)
           u == SubSeq(s, 1 + 1, Len(s))
<1>1. t \in Seq(Bytes) /\ Len(t) = Len(s) - 1 /\ Len(s) \in Nat /\ \A i \in 1..Len(t) : t[i] = s[i + 1]
  OBVIOUS
<1>2. u \in Seq(Bytes)
  OBVIOUS
<1>3. Len(u) = Len(s) - 1 /\ \A i \in 1..Len(u) : u[i] = s[i + 1]
  BY <1>1
<1> HIDE DEF t, u
<1>4. t = u
  BY <1>1, <1>2, <1>3, SeqEqual
<1>5. QED
  BY <1>4 DEF t, u

LEMMA RestOn ==
    ASSUME NEW s, NEW whole, NEW pos \in Nat, Rest(s, whole, pos), NEW n \in Nat, n <= Len(s), Len(whole) \in Nat
    PROVE  Rest(SubSeq(s, n + 1, Len(s)), whole, pos + n)
<1> DEFINE t == SubSeq(s, n + 1, Len(s))
           q == Len(s)
<1>1. s \in Seq(Bytes) /\ q \in Nat /\ q = Len(whole) - pos /\ \A i \in 1..q : s[i] = whole[pos + i]
  BY DEF Rest
<1>2. t \in Seq(Bytes) /\ Len(t) = q - n /\ \A i \in 1..(q - n) : t[i] = s[n + i]
  <2>1. t \in Seq(Bytes)
    BY <1>1
  <2>2. QED
    BY <1>1, <2>1
<1> HIDE DEF t, q
<1>3. n <= q
  BY DEF q
<1>4. ASSUME NEW i \in 1..Len(t) PROVE t[i] = whole[(pos + n) + i]
  <2>1. n + i \in 1..q /\ i \in 1..(q - n) /\ pos + (n + i) = (pos + n) + i
    BY <1>1, <1>2, <1>3
  <2>2. QED
    BY <1>1, <1>2, <2>1
<1>5. Len(t) = Len(whole) - (pos + n)
  BY <1>1, <1>2
<1>6. QED
  BY <1>2, <1>4, <1>5 DEF Rest, t, q

\* The histories, when a message has been read.
Delivers(d, whole, msgs, at, next) ==
    /\ d = Len(delivered) /\ UNCHANGED <<channel, sent>>
    /\ d + 1 \in 0..Len(msgs) /\ delivered' = Append(delivered, msgs[d + 1])
    /\ Rest(stream', whole, next) /\ Reading(rx', d + 1, whole, msgs, at, next)

LEMMA DeliversNext ==
    ASSUME NEW whole, NEW msgs, NEW at, NEW pos, Carried(whole, msgs, at, pos), StreamOK,
           NEW d, NEW next, Delivers(d, whole, msgs, at, next)
    PROVE  Carried(whole, msgs, at, next)'
<1>0. /\ d = Len(delivered) /\ UNCHANGED <<channel, sent>>
      /\ d + 1 \in 0..Len(msgs) /\ delivered' = Append(delivered, msgs[d + 1])
      /\ Rest(stream', whole, next) /\ Reading(rx', d + 1, whole, msgs, at, next)
  BY DEF Delivers
<1> DEFINE M == {Meaning(m) : m \in Seq(Bytes)}
<1>1. /\ Laid(whole, msgs, at) /\ sent \in Seq(M) /\ Len(msgs) = Len(sent)
      /\ \A i \in 1..Len(msgs) : Meaning(msgs[i]) = sent[i]
      /\ \A i \in 1..d : delivered[i] = msgs[i]
  BY <1>0 DEF Carried
<1>2. delivered \in Seq(Seq(Bytes)) /\ d \in Nat
  BY <1>0 DEF StreamOK
<1>3. /\ msgs \in Seq(Seq(Bytes)) /\ Len(msgs) \in Nat
  BY <1>1 DEF Laid
<1> DEFINE b == msgs[d + 1]
           ds == Append(delivered, b)
<1>4. b \in Seq(Bytes)
  <2>1. d + 1 \in 1..Len(msgs)
    BY <1>0, <1>2, <1>3
  <2>2. QED
    BY <1>3, <2>1
<1> HIDE DEF b
<1>5. Len(ds) = d + 1 /\ ds[d + 1] = b /\ \A i \in 1..d : ds[i] = delivered[i]
  BY <1>0, <1>2, <1>4
<1> HIDE DEF ds
<1>6. ASSUME NEW i \in 1..(d + 1) PROVE ds[i] = msgs[i]
  <2>1. CASE i = d + 1
    BY <1>5, <2>1 DEF b
  <2>2. CASE i # d + 1
    <3>1. i \in 1..d
      BY <1>2, <2>2
    <3>2. QED
      BY <1>1, <1>5, <3>1
  <2>3. QED
    BY <2>1, <2>2
<1>7. delivered' = ds
  BY <1>0 DEF ds, b
<1>8. \A m : Meaning(m)' = Meaning(m)
  BY <1>0 DEF Meaning
<1>9. Len(delivered') = d + 1 /\ \A i \in 1..Len(delivered') : delivered'[i] = msgs[i]
  BY <1>5, <1>6, <1>7
<1>10. Reading(rx', Len(delivered'), whole, msgs, at, next) /\ Rest(stream', whole, next)
  BY <1>0, <1>9
<1>11. QED
  BY <1>0, <1>1, <1>8, <1>9, <1>10 DEF Carried

LEMMA TransitNext == StreamOK /\ Transit /\ [Next]_vars => Transit'
<1> SUFFICES ASSUME StreamOK, Transit, [Next]_vars, tv' = "honest"
             PROVE  InTransit'
  BY DEF Transit
<1>1. tv' = tv
  BY DEF Next, TvSendsMessage, TvSendsGarbled, TvSendsByte, TvSends, LengthByteRead, BodyRead,
         NewStream, Command, SendVoiceData, vars
<1>2. PICK whole, msgs, at, pos : Carried(whole, msgs, at, pos)
  BY <1>1 DEF Transit, InTransit
<1> DEFINE d == Len(delivered)
<1>3. /\ Laid(whole, msgs, at) /\ Rest(stream, whole, pos) /\ Reading(rx, d, whole, msgs, at, pos)
  BY <1>2 DEF Carried
<1>4. /\ stream \in Seq(Bytes) /\ Len(stream) \in Nat /\ whole \in Seq(Bytes) /\ Len(whole) \in Nat
      /\ pos \in Nat /\ Len(stream) = Len(whole) - pos /\ ReaderOK(rx)
      /\ \A i \in 1..Len(stream) : stream[i] = whole[pos + i]
  <2>1. stream \in Seq(Bytes) /\ ReaderOK(rx)
    BY DEF StreamOK
  <2>2. whole \in Seq(Bytes) /\ pos \in Nat
    BY <1>3 DEF Laid, Reading
  <2>3. Len(stream) = Len(whole) - pos /\ \A i \in 1..Len(stream) : stream[i] = whole[pos + i]
    BY <1>3 DEF Rest
  <2>4. QED
    BY <2>1, <2>2, <2>3
<1>5. CASE TvSendsMessage
  <2>1. PICK m \in IF channel = "remote" THEN Meanings ELSE PairingMeanings, p \in Placements :
           TvSends(Frame(TvMessage(m, p)), m)
    BY <1>5 DEF TvSendsMessage
  <2> DEFINE msg == TvMessage(m, p)
  <2>2. msg \in Seq(Bytes) /\ Len(msg) <= MaxFrame /\ Meaning(msg) = m
    BY TvMessageMeans
  <2>3. TvSends(Frame(msg), Meaning(msg))
    BY <2>1, <2>2
  <2> HIDE DEF msg
  <2>4. \E w, ms, a : Carried(w, ms, a, pos)'
    BY <1>2, <2>2, <2>3, SendsOn
  <2>5. QED
    BY <2>4 DEF InTransit
<1>6. CASE TvSendsGarbled \/ TvSendsByte
  BY <1>1, <1>6 DEF TvSendsGarbled, TvSendsByte
<1>7. CASE LengthByteRead
  <2> DEFINE byte == whole[pos + 1]
             next == ReadOneLengthByte(rx, byte)
  <2>1. rx.phase = "length" /\ stream # <<>> /\ stream' = Tail(stream) /\ UNCHANGED <<channel, sent>>
    BY <1>7 DEF LengthByteRead
  <2>2. Len(stream) # 0 /\ Head(stream) = stream[1] /\ 1 \in 1..Len(stream)
    BY <1>4, <2>1
  <2>3. Head(stream) = byte /\ pos < Len(whole)
    BY <1>4, <2>2
  <2>4. byte \in Bytes
    BY <1>4, <2>2, <2>3
  <2>5. LengthByte(rx, byte) = next
    BY <1>4, <2>1, <2>4, ReadsLengthByte
  <2>6. /\ Reading(next, d, whole, msgs, at, pos + 1)
        /\ next.phase = "body" /\ next.length = 0 =>
              /\ d + 1 \in 0..Len(msgs) /\ msgs[d + 1] = <<>>
              /\ Reading(FrameStart(next), d + 1, whole, msgs, at, pos + 1)
    BY <1>3, <1>4, <2>1, <2>3, ReadsOn
  <2>7. Rest(stream', whole, pos + 1)
    <3>1. Tail(stream) = SubSeq(stream, 1 + 1, Len(stream))
      BY <1>4, <2>1, TailIs
    <3>2. 1 \in Nat /\ 1 <= Len(stream)
      BY <1>4, <2>2
    <3>3. Rest(SubSeq(stream, 1 + 1, Len(stream)), whole, pos + 1)
      BY <1>3, <1>4, <3>2, RestOn
    <3>4. QED
      BY <2>1, <3>1, <3>3
  <2>8. \/ next.phase = "body" /\ next.length = 0 /\ rx' = FrameStart(next) /\ Deliver(<<>>)
        \/ rx' = next /\ delivered' = delivered
    BY <1>7, <2>3, <2>5 DEF LengthByteRead
  <2> HIDE DEF next, byte, d
  <2>10. CASE next.phase = "body" /\ next.length = 0 /\ rx' = FrameStart(next) /\ Deliver(<<>>)
    <3>1. delivered' = Append(delivered, msgs[d + 1])
      BY <2>6, <2>10 DEF Deliver
    <3>2. Delivers(d, whole, msgs, at, pos + 1)
      BY <2>1, <2>6, <2>7, <2>10, <3>1 DEF Delivers, d
    <3>3. Carried(whole, msgs, at, pos + 1)'
      BY <1>2, <3>2, DeliversNext
    <3>4. QED
      BY <3>3 DEF InTransit
  <2>11. CASE rx' = next /\ delivered' = delivered
    <3>1. \A m : Meaning(m)' = Meaning(m)
      BY <2>1 DEF Meaning
    <3>2. Carried(whole, msgs, at, pos + 1)'
      BY <1>2, <2>1, <2>6, <2>7, <2>11, <3>1 DEF Carried, d
    <3>3. QED
      BY <3>2 DEF InTransit
  <2>12. QED
    BY <2>8, <2>10, <2>11
<1>8. CASE BodyRead
  <2> DEFINE n == rx.length
  <2>1. /\ rx.phase = "body" /\ Len(stream) >= n /\ UNCHANGED <<channel, sent>>
        /\ stream' = SubSeq(stream, n + 1, Len(stream))
        /\ rx' = FrameStart(rx) /\ delivered' = Append(delivered, SubSeq(stream, 1, n))
    BY <1>8 DEF BodyRead, Deliver
  <2>2. /\ n \in Nat /\ d + 1 \in 0..Len(msgs) /\ n <= Len(stream)
        /\ SubSeq(stream, 1, n) = msgs[d + 1]
        /\ Reading(FrameStart(rx), d + 1, whole, msgs, at, pos + n)
    BY <1>3, <2>1, ReadsWhole
  <2> HIDE DEF n
  <2>3. Rest(stream', whole, pos + n)
    BY <1>3, <1>4, <2>1, <2>2, RestOn
  <2>4. delivered' = Append(delivered, msgs[d + 1]) /\ Reading(rx', d + 1, whole, msgs, at, pos + n)
    BY <2>1, <2>2
  <2>5. PICK q : q = pos + n
    OBVIOUS
  <2>a. Delivers(d, whole, msgs, at, q)
    BY <2>1, <2>2, <2>3, <2>4, <2>5 DEF Delivers
  <2> HIDE DEF d
  <2>6. Carried(whole, msgs, at, q)'
    BY <1>2, <2>a, DeliversNext
  <2>7. QED
    BY <2>6 DEF InTransit
<1>9. CASE NewStream
  <2>1. stream' = <<>> /\ sent' = <<>> /\ delivered' = <<>> /\ rx' = FrameStart(CloseStream(rx))
    BY <1>9 DEF NewStream
  <2>2. Blank'
    BY <2>1 DEF Blank
  <2>3. Blank' => InTransit'
    BY NothingCarried, PTL
  <2>4. QED
    BY <2>2, <2>3
<1>10. CASE Command \/ SendVoiceData \/ UNCHANGED vars
  <2>1. UNCHANGED <<stream, rx, sent, delivered, channel>>
    BY <1>10 DEF Command, SendVoiceData, vars
  <2>2. \A m : Meaning(m)' = Meaning(m)
    BY <2>1 DEF Meaning
  <2>3. Carried(whole, msgs, at, pos)'
    BY <1>2, <2>1, <2>2 DEF Carried
  <2>4. QED
    BY <2>3 DEF InTransit
<1>11. QED
  BY <1>5, <1>6, <1>7, <1>8, <1>9, <1>10 DEF Next

LEMMA TransitArrives == StreamOK /\ Transit => MeaningArrives
<1> SUFFICES ASSUME StreamOK, Transit, tv = "honest"
             PROVE  /\ rx.phase # "closed" /\ Len(delivered) <= Len(sent)
                    /\ \A i \in DOMAIN delivered : Meaning(delivered[i]) = sent[i]
                    /\ stream = <<>> => Len(delivered) = Len(sent) /\ rx.prefix = <<>>
  BY DEF MeaningArrives
<1>1. PICK whole, msgs, at, pos : Carried(whole, msgs, at, pos)
  BY DEF Transit, InTransit
<1> DEFINE d == Len(delivered)
           k == Len(msgs)
           w == Len(whole)
<1>2. /\ Laid(whole, msgs, at) /\ Rest(stream, whole, pos) /\ Reading(rx, d, whole, msgs, at, pos)
      /\ k = Len(sent)
      /\ \A i \in 1..k : Meaning(msgs[i]) = sent[i]
      /\ \A i \in 1..d : delivered[i] = msgs[i]
  BY <1>1 DEF Carried
<1>3. /\ DOMAIN delivered = 1..d /\ d \in Nat /\ k \in Nat /\ w \in Nat /\ at \in [0..k -> Nat] /\ at[k] = w
  BY <1>2 DEF StreamOK, Laid
<1>4. pos \in Nat /\ d \in 0..k /\ rx.phase # "closed"
  BY <1>2 DEF Reading
<1>5. Len(stream) = w - pos
  BY <1>2 DEF Rest
<1>6. rx \in RxSet /\ (rx.phase = "body" => rx.length \in Nat \ {0})
  BY DEF StreamOK, ReaderOK, RxSet
<1>7. rx.phase = "length" \/ rx.phase = "body"
  BY <1>4, <1>6 DEF RxSet
<1> HIDE DEF d, k, w
<1>8. \A i \in 1..d : Meaning(delivered[i]) = sent[i]
  <2>1. \A i \in 1..d : i \in 1..k
    BY <1>3, <1>4
  <2>2. QED
    BY <1>2, <2>1
<1>9. ASSUME stream = <<>> PROVE d = k /\ rx.prefix = <<>>
  <2>1. pos = w
    BY <1>3, <1>4, <1>5, <1>9
  <2>2. d = k
    <3> SUFFICES ASSUME d # k PROVE FALSE
      OBVIOUS
    <3> DEFINE l == Len(Varint(Len(msgs[d + 1])))
               n == Len(msgs[d + 1])
               o == at[d]
               e == at[d + 1]
    <3>1. d < k
      BY <1>3, <1>4
    <3>2. l \in Nat \ {0} /\ n \in Nat /\ o \in Nat /\ e = o + l + n /\ e <= w
      BY <1>2, <1>4, <3>1, FrameAt DEF k, w
    <3>3. CASE rx.phase = "length"
      <4>1. pos = o + Len(rx.prefix) /\ Len(rx.prefix) \in Nat /\ (rx.prefix # <<>> => Len(rx.prefix) < l)
        BY <1>2, <1>6, <3>3 DEF Reading, RxSet
      <4>2. Len(rx.prefix) < l
        <5>1. CASE rx.prefix = <<>>
          <6>1. Len(rx.prefix) = 0
            BY <5>1
          <6>2. QED
            BY <3>2, <6>1
        <5>2. QED
          BY <4>1, <5>1
      <4> HIDE DEF l, n, o, e
      <4>3. QED
        BY <1>3, <2>1, <3>2, <4>1, <4>2
    <3>4. CASE rx.phase = "body"
      <4>1. pos = o + l /\ rx.length = n
        BY <1>2, <3>4 DEF Reading
      <4>2. n # 0
        BY <1>6, <3>4, <4>1
      <4> HIDE DEF l, n, o, e
      <4>3. QED
        BY <1>3, <2>1, <3>2, <4>1, <4>2
    <3>5. QED
      BY <1>7, <3>3, <3>4
  <2>3. rx.phase # "body"
    BY <1>2, <1>3, <2>2 DEF Reading, k
  <2>4. rx.prefix = <<>>
    BY <1>2, <1>3, <1>7, <2>2, <2>3 DEF Reading, k
  <2>5. QED
    BY <2>2, <2>4
<1>10. Len(delivered) <= Len(sent)
  BY <1>2, <1>3, <1>4 DEF d
<1>11. QED
  BY <1>2, <1>3, <1>4, <1>8, <1>9, <1>10 DEF d

\* What an honest television means is what the client takes its messages to
\* mean, in order and with none lost, through frames, readOneLengthByte or
\* receive, Reader, parseRemote and the pairing predicates, with any of Extras in
\* any place of a first message, and wherever an earlier stream broke off.
THEOREM MeaningIsKept == Spec => []MeaningArrives
<1>1. Init => StreamOK /\ Transit
  BY StreamOKInit, TransitInit
<1>2. StreamOK /\ Transit /\ [Next]_vars => StreamOK' /\ Transit'
  BY StreamOKNext, TransitNext
<1>3. QED
  BY <1>1, <1>2, TransitArrives, PTL DEF Spec

-----------------------------------------------------------------------------
(* What a Protocol Buffers library finds in a message *)

LastVarintAt(fs, n) == VarintIn(FindingLast(fs, Matches(n, VarintType)))
LastBytesAt(fs, n)  == BytesIn(FindingLast(fs, Matches(n, LengthDelimited)))

LEMMA LastFound ==
    ASSUME NEW t, NEW fs, Encodes(t, fs)
    PROVE  \A n : IntOf(t, n) = AsI32(LastVarintAt(fs, n)) /\ BytesOf(t, n) = OrEmpty(LastBytesAt(fs, n))
<1>1. fs \in Seq(FieldSet) /\ Fields(t) = fs
  BY EncodesAll DEF Encodes
<1>2. SUFFICES ASSUME NEW n
               PROVE  IntOf(t, n) = AsI32(LastVarintAt(fs, n)) /\ BytesOf(t, n) = OrEmpty(LastBytesAt(fs, n))
  OBVIOUS
<1>3. /\ Places(fs, n, VarintType) = {i \in DOMAIN fs : fs[i] \in Matches(n, VarintType)}
      /\ Places(fs, n, LengthDelimited) = {i \in DOMAIN fs : fs[i] \in Matches(n, LengthDelimited)}
  BY <1>1, PlacesAre
<1> DEFINE P == Places(fs, n, VarintType)
           Q == Places(fs, n, LengthDelimited)
           x == fs[Max(P)]
           y == fs[Max(Q)]
<1>4. /\ LastVarintAt(fs, n) = VarintIn(IF P = {} THEN <<>> ELSE <<x>>)
      /\ LastBytesAt(fs, n) = BytesIn(IF Q = {} THEN <<>> ELSE <<y>>)
  BY <1>3 DEF LastVarintAt, LastBytesAt, FindingLast
<1>5. /\ IntOf(t, n) = IF P = {} THEN 0 ELSE ToSigned(x.varint)
      /\ BytesOf(t, n) = IF Q = {} THEN <<>> ELSE y.bytes
  BY <1>1 DEF IntOf, IntIn, LastInt, BytesOf, BytesOfIn, LastBytes
<1> HIDE DEF P, Q, x, y
<1>6. QED
  BY <1>4, <1>5 DEF VarintIn, BytesIn, AsI32, OrEmpty

LEMMA LastAtVarint ==
    ASSUME NEW n \in Numbers, NEW v \in Nat
    PROVE  /\ LastVarintAt(<<VarintIs(n, v)>>, n) = <<v>>
           /\ \A k : k # n => LastVarintAt(<<VarintIs(n, v)>>, k) = <<>>
           /\ \A k : LastBytesAt(<<VarintIs(n, v)>>, k) = <<>>
<1> DEFINE f == VarintIs(n, v)
<1>1. FindingLast(<<f>>, Matches(n, VarintType)) = <<f>>
  BY FindsVarint
<1>2. ASSUME NEW k, k # n PROVE FindingLast(<<f>>, Matches(k, VarintType)) = <<>>
  BY <1>2, FindsVarint
<1>3. ASSUME NEW k PROVE FindingLast(<<f>>, Matches(k, LengthDelimited)) = <<>>
  <2>1. LengthDelimited # VarintType
    BY DEF LengthDelimited, VarintType
  <2>2. QED
    BY <2>1, FindsVarint
<1>4. f.varint = v /\ <<f>> # <<>> /\ <<f>>[1] = f
  BY DEF VarintIs
<1> HIDE DEF f
<1>5. QED
  BY <1>1, <1>2, <1>3, <1>4 DEF LastVarintAt, LastBytesAt, VarintIn, BytesIn, f

LEMMA LastAtBytes ==
    ASSUME NEW n \in Numbers, NEW b \in Seq(Bytes)
    PROVE  LET fs == <<BytesAre(n, LengthDelimited, b)>>
           IN  /\ LastBytesAt(fs, n) = <<b>>
               /\ \A k : k # n => LastBytesAt(fs, k) = <<>>
               /\ \A k : LastVarintAt(fs, k) = <<>>
<1> DEFINE f == BytesAre(n, LengthDelimited, b)
<1>1. FindingLast(<<f>>, Matches(n, LengthDelimited)) = <<f>>
  BY FindsBytes
<1>2. ASSUME NEW k, k # n PROVE FindingLast(<<f>>, Matches(k, LengthDelimited)) = <<>>
  BY <1>2, FindsBytes
<1>3. ASSUME NEW k PROVE FindingLast(<<f>>, Matches(k, VarintType)) = <<>>
  <2>1. LengthDelimited # VarintType
    BY DEF LengthDelimited, VarintType
  <2>2. QED
    BY <2>1, FindsBytes
<1>4. f.bytes = b /\ <<f>> # <<>> /\ <<f>>[1] = f
  BY DEF BytesAre
<1> HIDE DEF f
<1>5. QED
  BY <1>1, <1>2, <1>3, <1>4 DEF LastVarintAt, LastBytesAt, VarintIn, BytesIn, f

LEMMA LastAtBoth ==
    ASSUME NEW fs \in Seq(FieldSet), NEW gs \in Seq(FieldSet), NEW n
    PROVE  /\ LastVarintAt(gs, n) = <<>> => LastVarintAt(fs \o gs, n) = LastVarintAt(fs, n)
           /\ LastVarintAt(gs, n) # <<>> => LastVarintAt(fs \o gs, n) = LastVarintAt(gs, n)
           /\ LastBytesAt(gs, n) = <<>> => LastBytesAt(fs \o gs, n) = LastBytesAt(fs, n)
           /\ LastBytesAt(gs, n) # <<>> => LastBytesAt(fs \o gs, n) = LastBytesAt(gs, n)
<1>1. \A x : (VarintIn(x) = <<>> <=> x = <<>>) /\ (BytesIn(x) = <<>> <=> x = <<>>)
  BY DEF VarintIn, BytesIn
<1>2. \A M : FindingLast(fs \o gs, M) = IF FindingLast(gs, M) = <<>> THEN FindingLast(fs, M) ELSE FindingLast(gs, M)
  BY FindingBoth
<1>3. QED
  BY <1>1, <1>2 DEF LastVarintAt, LastBytesAt

-----------------------------------------------------------------------------
(* The client's messages *)

Chunks == {b \in Seq(Bytes) : Len(b) \in VoiceMinimum..VoiceChunk}

Directions == 0..3

PlainRequests ==
    {<<k, i>> : k \in {"Configure", "SetActive", "Ping", "VoiceBegin", "VoiceEnd"}, i \in Signed}
    \cup {<<"Key", i, d>> : i \in Signed, d \in Directions}
    \cup {<<"Text", t, i, j>> : t \in Texts, i \in Signed, j \in Signed}
    \cup {<<"AppLink", t>> : t \in Texts}
Payloads == {<<"VoicePayload", i, b>> : i \in Signed, b \in Chunks}
PairingRequests ==
    {<<k, t>> : k \in {"Request", "Secret"}, t \in Texts} \cup {<<"Options">>, <<"Configuration">>}

Room(n) == n \in Nat /\ 3 * n + 20 * Groups < Word

LEMMA RoomFor == \A t \in Texts \cup {Text} \cup Chunks : t \in Seq(Bytes) /\ Room(Len(t))
<1>1. ASSUME NEW t \in Texts \cup {Text} PROVE t \in Seq(Bytes) /\ Room(Len(t))
  <2>1. t \in Seq(Bytes)
    BY FrameAssumption, IntAssumption
  <2>2. 3 * Len(t) + 20 * Groups < Word
    BY RoomAssumption
  <2>3. QED
    BY <2>1, <2>2 DEF Room
<1>2. ASSUME NEW t \in Chunks PROVE t \in Seq(Bytes) /\ Room(Len(t))
  <2>1. t \in Seq(Bytes) /\ Len(t) \in VoiceMinimum..VoiceChunk /\ VoiceChunk \in Nat
    BY FrameAssumption DEF Chunks
  <2>2. 3 * VoiceChunk + 20 * Groups < Word
    BY RoomAssumption
  <2>3. Groups \in Nat /\ Word \in Nat /\ Len(t) \in Nat /\ Len(t) <= VoiceChunk
    BY <2>1, WidthFacts, FrameAssumption
  <2>4. 3 * Len(t) + 20 * Groups < Word
    BY <2>1, <2>2, <2>3
  <2>5. QED
    BY <2>1, <2>3, <2>4 DEF Room
<1>3. QED
  BY <1>1, <1>2

\* One message, in which a library finds the request.
Clear(c) ==
    \E n \in Numbers, b \in Seq(Bytes) :
        /\ Build(c) = BytesField(n, b) /\ Fits(Build(c))
        /\ Fields(Build(c)) = <<BytesAre(n, LengthDelimited, b)>> /\ Understood(n, b) = c

LEMMA IsClear ==
    ASSUME NEW c, NEW n \in Numbers, NEW b, NEW fs, NEW size, Build(c) = BytesField(n, b),
           Writes(b, fs, size), size + 2 * Groups < Word, Understood(n, b) = c
    PROVE  Clear(c)
<1>1. b \in Seq(Bytes) /\ Len(b) \in Nat /\ size \in Nat /\ Len(b) <= size
  BY WritesBytes
<1>2. Groups \in Nat /\ Word \in Nat
  BY WidthFacts
<1>3. size < Word /\ size + 2 * Groups \in Nat
  BY <1>1, <1>2
<1>4. Writes(BytesField(n, b), <<BytesAre(n, LengthDelimited, b)>>, size + 2 * Groups)
  BY <1>1, <1>3, WritesMessage
<1> DEFINE m == BytesField(n, b)
           g == <<BytesAre(n, LengthDelimited, b)>>
           q == size + 2 * Groups
<1>5. m \in Seq(Bytes) /\ Len(m) <= q /\ Fields(m) = g
  <2> HIDE DEF m, g, q
  <2>1. Writes(m, g, q)
    BY <1>4 DEF m, g, q
  <2>2. QED
    BY <2>1, WritesBytes
<1> HIDE DEF m
<1>6. Fits(m)
  <2>1. Len(m) \in Nat
    BY <1>5
  <2>2. QED
    BY <1>2, <1>3, <1>5, <2>1 DEF Fits
<1>7. QED
  BY <1>1, <1>5, <1>6 DEF Clear, m


-----------------------------------------------------------------------------
(* Messages put together from fields *)

Wrote(s, size) == \E fs : Writes(s, fs, size)
HasInt(s, n)   == LastVarintAt(Fields(s), n) # <<>>
HasBytes(s, n) == LastBytesAt(Fields(s), n) # <<>>

\* s is one field of number n and no more.
OnlyInt(s, n)   == HasInt(s, n) /\ (\A k : k # n => ~HasInt(s, k)) /\ (\A k : ~HasBytes(s, k))
OnlyBytes(s, n) == HasBytes(s, n) /\ (\A k : k # n => ~HasBytes(s, k)) /\ (\A k : ~HasInt(s, k))

LEMMA IntPart ==
    ASSUME NEW n \in Numbers, NEW v \in Nat, v < Word
    PROVE  LET s == VarintField(n, v)
           IN  Wrote(s, 2 * Groups) /\ OnlyInt(s, n) /\ IntOf(s, n) = ToSigned(v)
<1> DEFINE s == VarintField(n, v)
           fs == <<VarintIs(n, v)>>
<1>1. Writes(s, fs, 2 * Groups)
  BY WritesVarint
<1>2. /\ LastVarintAt(fs, n) = <<v>> /\ \A k : k # n => LastVarintAt(fs, k) = <<>>
      /\ \A k : LastBytesAt(fs, k) = <<>>
  BY LastAtVarint
<1> HIDE DEF s, fs
<1>3. Fields(s) = fs /\ Encodes(s, fs)
  BY <1>1, WritesBytes DEF Writes
<1>4. <<v>> # <<>> /\ <<v>>[1] = v
  OBVIOUS
<1>5. IntOf(s, n) = AsI32(<<v>>)
  BY <1>2, <1>3, LastFound
<1>6. AsI32(<<v>>) = ToSigned(v)
  BY <1>4 DEF AsI32
<1>7. OnlyInt(s, n)
  BY <1>2, <1>3, <1>4 DEF OnlyInt, HasInt, HasBytes
<1>8. Wrote(s, 2 * Groups)
  BY <1>1 DEF Wrote
<1>9. QED
  BY <1>5, <1>6, <1>7, <1>8 DEF s

LEMMA BytesPart ==
    ASSUME NEW n \in Numbers, NEW b \in Seq(Bytes), NEW size \in Nat, Len(b) <= size, size < Word
    PROVE  LET s == BytesField(n, b)
           IN  Wrote(s, size + 2 * Groups) /\ OnlyBytes(s, n) /\ BytesOf(s, n) = b
<1> DEFINE s == BytesField(n, b)
           fs == <<BytesAre(n, LengthDelimited, b)>>
<1>1. Writes(s, fs, size + 2 * Groups)
  BY WritesMessage
<1>2. /\ LastBytesAt(fs, n) = <<b>> /\ \A k : k # n => LastBytesAt(fs, k) = <<>>
      /\ \A k : LastVarintAt(fs, k) = <<>>
  BY LastAtBytes
<1> HIDE DEF s, fs
<1>3. Fields(s) = fs /\ Encodes(s, fs)
  <2> DEFINE q == size + 2 * Groups
  <2>1. Writes(s, fs, q)
    BY <1>1
  <2> HIDE DEF q
  <2>2. QED
    BY <2>1, WritesBytes DEF Writes
<1>4. <<b>> # <<>> /\ <<b>>[1] = b
  OBVIOUS
<1>5. BytesOf(s, n) = OrEmpty(<<b>>)
  BY <1>2, <1>3, LastFound
<1>6. OrEmpty(<<b>>) = b
  BY <1>4 DEF OrEmpty
<1>7. OnlyBytes(s, n)
  BY <1>2, <1>3, <1>4 DEF OnlyBytes, HasInt, HasBytes
<1>8. Wrote(s, size + 2 * Groups)
  BY <1>1 DEF Wrote
<1>9. QED
  BY <1>5, <1>6, <1>7, <1>8 DEF s

LEMMA WroteBytes ==
    ASSUME NEW s, NEW size, Wrote(s, size)
    PROVE  s \in Seq(Bytes) /\ Len(s) \in Nat /\ size \in Nat /\ Len(s) <= size
<1>1. PICK fs : Writes(s, fs, size)
  BY DEF Wrote
<1>2. QED
  BY <1>1, WritesBytes

\* A field that only one of two parts has is found in both together.
LEMMA BothParts ==
    ASSUME NEW s, NEW t, NEW p, NEW q, Wrote(s, p), Wrote(t, q)
    PROVE  /\ Wrote(s \o t, p + q)
           /\ \A k : HasInt(t, k) => HasInt(s \o t, k) /\ IntOf(s \o t, k) = IntOf(t, k)
           /\ \A k : ~HasInt(t, k) => /\ HasInt(s \o t, k) <=> HasInt(s, k)
                                      /\ IntOf(s \o t, k) = IntOf(s, k)
           /\ \A k : HasBytes(t, k) => HasBytes(s \o t, k) /\ BytesOf(s \o t, k) = BytesOf(t, k)
           /\ \A k : ~HasBytes(t, k) => /\ HasBytes(s \o t, k) <=> HasBytes(s, k)
                                        /\ BytesOf(s \o t, k) = BytesOf(s, k)
<1>1. PICK fs, gs : Writes(s, fs, p) /\ Writes(t, gs, q)
  BY DEF Wrote
<1> DEFINE st == s \o t
           fg == fs \o gs
           pq == p + q
<1>2. Writes(st, fg, pq)
  BY <1>1, WritesBoth
<1>3. fs \in Seq(FieldSet) /\ gs \in Seq(FieldSet) /\ Fields(s) = fs /\ Fields(t) = gs
  BY <1>1, WritesBytes
<1>4. \A k : /\ LastVarintAt(gs, k) = <<>> => LastVarintAt(fg, k) = LastVarintAt(fs, k)
             /\ LastVarintAt(gs, k) # <<>> => LastVarintAt(fg, k) = LastVarintAt(gs, k)
             /\ LastBytesAt(gs, k) = <<>> => LastBytesAt(fg, k) = LastBytesAt(fs, k)
             /\ LastBytesAt(gs, k) # <<>> => LastBytesAt(fg, k) = LastBytesAt(gs, k)
  BY <1>3, LastAtBoth
<1> HIDE DEF st, fg, pq
<1>5. Fields(st) = fg
  BY <1>2, WritesBytes
<1>6. Encodes(s, fs) /\ Encodes(t, gs) /\ Encodes(st, fg)
  BY <1>1, <1>2 DEF Writes
<1>7. /\ \A k : IntOf(s, k) = AsI32(LastVarintAt(fs, k)) /\ BytesOf(s, k) = OrEmpty(LastBytesAt(fs, k))
      /\ \A k : IntOf(t, k) = AsI32(LastVarintAt(gs, k)) /\ BytesOf(t, k) = OrEmpty(LastBytesAt(gs, k))
      /\ \A k : IntOf(st, k) = AsI32(LastVarintAt(fg, k)) /\ BytesOf(st, k) = OrEmpty(LastBytesAt(fg, k))
  BY <1>6, LastFound
<1>8. Wrote(st, pq)
  BY <1>2 DEF Wrote
<1>9. /\ \A k : HasInt(t, k) => HasInt(st, k) /\ IntOf(st, k) = IntOf(t, k)
      /\ \A k : ~HasInt(t, k) => /\ HasInt(st, k) <=> HasInt(s, k)
                                 /\ IntOf(st, k) = IntOf(s, k)
  BY <1>3, <1>4, <1>5, <1>7 DEF HasInt
<1>10. /\ \A k : HasBytes(t, k) => HasBytes(st, k) /\ BytesOf(st, k) = BytesOf(t, k)
       /\ \A k : ~HasBytes(t, k) => /\ HasBytes(st, k) <=> HasBytes(s, k)
                                    /\ BytesOf(st, k) = BytesOf(s, k)
  BY <1>3, <1>4, <1>5, <1>7 DEF HasBytes
<1>11. QED
  BY <1>8, <1>9, <1>10 DEF st, pq

LEMMA ClearIfWrote ==
    ASSUME NEW c, NEW n \in Numbers, NEW b, NEW size, Build(c) = BytesField(n, b),
           Wrote(b, size), size + 2 * Groups < Word, Understood(n, b) = c
    PROVE  Clear(c)
<1>1. PICK fs : Writes(b, fs, size)
  BY DEF Wrote
<1>2. QED
  BY <1>1, IsClear


-----------------------------------------------------------------------------
(* Each message of the remote connection *)

LEMMA WordRoom ==
    /\ Groups \in Nat /\ Word \in Nat /\ 20 * Groups < Word
    /\ \A n : Room(n) => 3 * n + 20 * Groups < Word
<1>1. Room(Len(Text))
  BY RoomFor
<1>2. Groups \in Nat /\ Word \in Nat
  BY WidthFacts
<1>3. QED
  BY <1>1, <1>2 DEF Room

\* An answer with one number; the number of the message is that of its name.
OneNumber(c, n, v) ==
    /\ n \in Numbers /\ v \in Nat /\ v < Word
    /\ Build(c) = BytesField(n, VarintField(1, v))
    /\ \A b : IntOf(b, 1) = ToSigned(v) => Understood(n, b) = c

LEMMA OneNumberClear == ASSUME NEW c, NEW n, NEW v, OneNumber(c, n, v) PROVE Clear(c)
<1> DEFINE b == VarintField(1, v)
           size == 2 * Groups
<1>1. 1 \in Numbers
  BY SmallNumbers
<1>2. n \in Numbers /\ v \in Nat /\ v < Word /\ Build(c) = BytesField(n, b)
  BY DEF OneNumber
<1>3. Wrote(b, size) /\ IntOf(b, 1) = ToSigned(v)
  BY <1>1, <1>2, IntPart
<1>4. Understood(n, b) = c
  BY <1>3 DEF OneNumber
<1>5. size + 2 * Groups < Word
  BY WordRoom
<1> HIDE DEF b, size
<1>6. QED
  BY <1>2, <1>3, <1>4, <1>5, ClearIfWrote

LEMMA NumbersClear ==
    ASSUME NEW k \in {"SetActive", "Ping", "VoiceBegin", "VoiceEnd"}, NEW i \in Signed
    PROVE  Clear(<<k, i>>)
<1> DEFINE c == <<k, i>>
           u == ToUnsigned(i)
           x == SignExtended(i)
<1>1. c[1] = k /\ c[2] = i
  OBVIOUS
<1>2. u \in Nat /\ u < Word /\ ToSigned(u) = i /\ x \in Nat /\ x < Word /\ ToSigned(x) = i
  BY UnsignedSignedBack, SignExtendedBack
<1>3. 2 \in Numbers /\ 9 \in Numbers /\ 30 \in Numbers /\ 32 \in Numbers
  BY SmallNumbers
<1> HIDE DEF c
<1>4. CASE k = "SetActive"
  <2>1. Build(c) = BytesField(2, VarintField(1, x))
    BY <1>1, <1>4 DEF Build, RemoteSetActiveResponse
  <2>2. \A b : Understood(2, b) = <<k, IntOf(b, 1)>>
    BY <1>4 DEF Understood
  <2> HIDE DEF u, x
  <2>3. OneNumber(c, 2, x)
    BY <1>2, <1>3, <2>1, <2>2 DEF OneNumber, c
  <2>4. QED
    BY <2>3, OneNumberClear DEF c
<1>5. CASE k = "Ping"
  <2>1. Build(c) = BytesField(9, VarintField(1, u))
    BY <1>1, <1>5 DEF Build, RemotePingResponse
  <2>2. \A b : Understood(9, b) = <<k, IntOf(b, 1)>>
    BY <1>5 DEF Understood
  <2> HIDE DEF u, x
  <2>3. OneNumber(c, 9, u)
    BY <1>2, <1>3, <2>1, <2>2 DEF OneNumber, c
  <2>4. QED
    BY <2>3, OneNumberClear DEF c
<1>6. CASE k = "VoiceBegin"
  <2>1. Build(c) = BytesField(30, VarintField(1, u))
    BY <1>1, <1>6 DEF Build, RemoteVoiceBegin
  <2>2. \A b : Understood(30, b) = <<k, IntOf(b, 1)>>
    BY <1>6 DEF Understood
  <2> HIDE DEF u, x
  <2>3. OneNumber(c, 30, u)
    BY <1>2, <1>3, <2>1, <2>2 DEF OneNumber, c
  <2>4. QED
    BY <2>3, OneNumberClear DEF c
<1>7. CASE k = "VoiceEnd"
  <2>1. Build(c) = BytesField(32, VarintField(1, u))
    BY <1>1, <1>7 DEF Build, RemoteVoiceEnd
  <2>2. \A b : Understood(32, b) = <<k, IntOf(b, 1)>>
    BY <1>7 DEF Understood
  <2> HIDE DEF u, x
  <2>3. OneNumber(c, 32, u)
    BY <1>2, <1>3, <2>1, <2>2 DEF OneNumber, c
  <2>4. QED
    BY <2>3, OneNumberClear DEF c
<1>8. QED
  BY <1>4, <1>5, <1>6, <1>7 DEF c

LEMMA KeyClear == ASSUME NEW i \in Signed, NEW d \in Directions PROVE Clear(<<"Key", i, d>>)
<1> DEFINE c == <<"Key", i, d>>
           u == ToUnsigned(i)
           s == VarintField(1, u)
           t == VarintField(2, d)
           b == s \o t
           g == 2 * Groups
           size == g + g
<1>1. u \in Nat /\ u < Word /\ ToSigned(u) = i
  BY UnsignedSignedBack
<1>2. 1 \in Numbers /\ 2 \in Numbers /\ 10 \in Numbers /\ d \in Nat /\ d < Word
  BY SmallNumbers DEF Directions
<1>3. ToSigned(d) = d
  <2>1. d \in Signed /\ d \in Int
    BY FrameAssumption DEF Directions
  <2>2. QED
    BY <2>1, SignedBack
<1>4. Wrote(s, g) /\ OnlyInt(s, 1) /\ IntOf(s, 1) = i
  BY <1>1, <1>2, IntPart
<1>5. Wrote(t, g) /\ OnlyInt(t, 2) /\ IntOf(t, 2) = d
  BY <1>2, <1>3, IntPart
<1>6. Build(c) = BytesField(10, b)
  BY DEF Build, RemoteKey
<1>7. size + 2 * Groups < Word
  BY WordRoom
<1>8. Understood(10, b) = <<"Key", IntOf(b, 1), IntOf(b, 2)>>
  BY DEF Understood
<1> HIDE DEF s, t, g, c
<1>9. Wrote(b, size) /\ IntOf(b, 1) = i /\ IntOf(b, 2) = d
  <2>1. HasInt(t, 2) /\ ~HasInt(t, 1)
    BY <1>5 DEF OnlyInt
  <2>2. QED
    BY <1>4, <1>5, <2>1, BothParts
<1> HIDE DEF b, size
<1>10. Understood(10, b) = c
  BY <1>8, <1>9 DEF c
<1>11. QED
  BY <1>2, <1>6, <1>7, <1>9, <1>10, ClearIfWrote DEF c

LEMMA AppLinkClear == ASSUME NEW t \in Texts PROVE Clear(<<"AppLink", t>>)
<1> DEFINE c == <<"AppLink", t>>
           b == BytesField(1, t)
           n == Len(t)
           size == n + 2 * Groups
<1>1. t \in Seq(Bytes) /\ n \in Nat /\ 3 * n + 20 * Groups < Word
  BY RoomFor, WordRoom
<1>2. 1 \in Numbers /\ 90 \in Numbers
  BY SmallNumbers
<1>3. Build(c) = BytesField(90, b)
  BY DEF Build, RemoteAppLink
<1>4. Understood(90, b) = <<"AppLink", BytesOf(b, 1)>>
  BY DEF Understood
<1>5. n <= n /\ n < Word /\ size + 2 * Groups < Word
  BY <1>1, WordRoom
<1>6. Wrote(b, size) /\ BytesOf(b, 1) = t
  <2> HIDE DEF n
  <2>1. Len(t) <= n
    BY <1>5 DEF n
  <2>2. QED
    BY <1>1, <1>2, <1>5, <2>1, BytesPart
<1> HIDE DEF b, size, c
<1>7. QED
  BY <1>2, <1>3, <1>4, <1>5, <1>6, ClearIfWrote DEF c

LEMMA PayloadClear == ASSUME NEW i \in Signed, NEW a \in Chunks PROVE Clear(<<"VoicePayload", i, a>>)
<1> DEFINE c == <<"VoicePayload", i, a>>
           u == ToUnsigned(i)
           n == Len(a)
           s == VarintField(1, u)
           t == BytesField(2, a)
           b == s \o t
           g == 2 * Groups
           h == n + 2 * Groups
           size == g + h
<1>1. u \in Nat /\ u < Word /\ ToSigned(u) = i
  BY UnsignedSignedBack
<1>2. 1 \in Numbers /\ 2 \in Numbers /\ 31 \in Numbers
  BY SmallNumbers
<1>3. a \in Seq(Bytes) /\ n \in Nat /\ 3 * n + 20 * Groups < Word
  BY RoomFor, WordRoom
<1>4. Wrote(s, g) /\ OnlyInt(s, 1) /\ IntOf(s, 1) = i
  BY <1>1, <1>2, IntPart
<1>5. Len(a) <= n /\ n < Word /\ size + 2 * Groups < Word
  BY <1>3, WordRoom
<1>6. Build(c) = BytesField(31, b)
  BY DEF Build, RemoteVoicePayload
<1>7. Understood(31, b) = <<"VoicePayload", IntOf(b, 1), BytesOf(b, 2)>>
  BY DEF Understood
<1> HIDE DEF n
<1>8. Wrote(t, h) /\ OnlyBytes(t, 2) /\ BytesOf(t, 2) = a
  BY <1>2, <1>3, <1>5, BytesPart
<1> HIDE DEF s, t, g, h, c
<1>9. Wrote(b, size) /\ IntOf(b, 1) = i /\ BytesOf(b, 2) = a
  <2>1. HasBytes(t, 2) /\ ~HasInt(t, 1)
    BY <1>8 DEF OnlyBytes
  <2>2. QED
    BY <1>4, <1>8, <2>1, BothParts
<1> HIDE DEF b, size
<1>10. Understood(31, b) = c
  BY <1>7, <1>9 DEF c
<1>11. QED
  BY <1>2, <1>5, <1>6, <1>9, <1>10, ClearIfWrote DEF c


LEMMA ConfigureClear == ASSUME NEW i \in Signed PROVE Clear(<<"Configure", i>>)
<1> DEFINE c == <<"Configure", i>>
           x == SignExtended(i)
           n == Len(Text)
           g == 2 * Groups
           h == n + 2 * Groups
           v == VarintField(3, 1)
           p == BytesField(4, Text)
           q == BytesField(5, Text)
           r == BytesField(6, Text)
           info == v \o p \o q \o r
           room == ((g + h) + h) + h
           s == VarintField(1, x)
           t == BytesField(2, info)
           b == s \o t
           full == room + 2 * Groups
           size == g + full
<1>1. x \in Nat /\ x < Word /\ ToSigned(x) = i
  BY SignExtendedBack
<1>2. /\ 1 \in Numbers /\ 2 \in Numbers /\ 3 \in Numbers /\ 4 \in Numbers /\ 5 \in Numbers /\ 6 \in Numbers
      /\ 1 \in Nat /\ 1 < Word
  BY SmallNumbers
<1>3. Text \in Seq(Bytes) /\ n \in Nat /\ 3 * n + 20 * Groups < Word
  BY RoomFor, WordRoom
<1>4. /\ Len(Text) <= n /\ n < Word /\ room \in Nat /\ room < Word /\ size + 2 * Groups < Word
  BY <1>3, WordRoom
<1>5. Build(c) = BytesField(1, b)
  BY DEF Build, RemoteConfigureResponse
<1>6. Understood(1, b) = <<"Configure", IntOf(b, 1)>>
  BY DEF Understood
<1> HIDE DEF n
<1>7. Wrote(v, g) /\ Wrote(s, g) /\ IntOf(s, 1) = i
  BY <1>1, <1>2, IntPart
<1>8. Wrote(p, h) /\ Wrote(q, h) /\ Wrote(r, h)
  BY <1>2, <1>3, <1>4, BytesPart
<1> HIDE DEF v, p, q, r, s, g, h, c
<1>9. Wrote(info, room)
  <2>1. Wrote(v \o p, g + h)
    BY <1>7, <1>8, BothParts
  <2>2. Wrote((v \o p) \o q, (g + h) + h)
    BY <1>8, <2>1, BothParts
  <2>3. QED
    BY <1>8, <2>2, BothParts
<1> HIDE DEF info, room
<1>10. info \in Seq(Bytes) /\ Len(info) <= room
  BY <1>9, WroteBytes
<1>11. Wrote(t, full) /\ OnlyBytes(t, 2)
  BY <1>2, <1>4, <1>10, BytesPart
<1> HIDE DEF t, full
<1>12. Wrote(b, size) /\ IntOf(b, 1) = i
  <2>1. ~HasInt(t, 1)
    BY <1>11 DEF OnlyBytes
  <2>2. QED
    BY <1>7, <1>11, <2>1, BothParts
<1> HIDE DEF b, size
<1>13. QED
  BY <1>2, <1>4, <1>5, <1>6, <1>12, ClearIfWrote DEF c

LEMMA TextClear ==
    ASSUME NEW a \in Texts, NEW i \in Signed, NEW j \in Signed
    PROVE  Clear(<<"Text", a, i, j>>)
<1> DEFINE c == <<"Text", a, i, j>>
           n == Len(a)
           pos == ToUnsigned(n - 1)
           g == 2 * Groups
           h == n + 2 * Groups
           s == VarintField(1, pos)
           t == VarintField(2, pos)
           w == BytesField(3, a)
           status == s \o t \o w
           room == (g + g) + h
           one == VarintField(1, 1)
           object == BytesField(2, status)
           edit == one \o object
           more == room + 2 * Groups
           wide == g + more
           x == VarintField(1, ToUnsigned(i))
           y == VarintField(2, ToUnsigned(j))
           z == BytesField(3, edit)
           b == x \o y \o z
           full == wide + 2 * Groups
           size == (g + g) + full
<1>1. /\ ToUnsigned(i) \in Nat /\ ToUnsigned(i) < Word /\ ToSigned(ToUnsigned(i)) = i
      /\ ToUnsigned(j) \in Nat /\ ToUnsigned(j) < Word /\ ToSigned(ToUnsigned(j)) = j
  BY UnsignedSignedBack
<1>2. /\ 1 \in Numbers /\ 2 \in Numbers /\ 3 \in Numbers /\ 21 \in Numbers /\ 1 \in Nat /\ 1 < Word
  BY SmallNumbers
<1>3. a \in Seq(Bytes) /\ n \in Nat /\ 3 * n + 20 * Groups < Word
  BY RoomFor, WordRoom
<1>4. pos \in Nat /\ pos < Word
  <2>1. n - 1 \in Int
    BY <1>3
  <2>2. QED
    BY <2>1, UnsignedFits
<1>5. /\ Len(a) <= n /\ n < Word /\ room \in Nat /\ room < Word /\ wide \in Nat /\ wide < Word
      /\ size + 2 * Groups < Word
  BY <1>3, WordRoom
<1>6. Build(c) = BytesField(21, b)
  BY DEF Build, RemoteText
<1>7. Understood(21, b) = <<"Text", BytesOf(BytesOf(BytesOf(b, 3), 2), 3), IntOf(b, 1), IntOf(b, 2)>>
  BY DEF Understood
<1> HIDE DEF n, pos
<1>8. Wrote(s, g) /\ Wrote(t, g) /\ Wrote(one, g)
  BY <1>2, <1>4, IntPart
<1>9. Wrote(w, h) /\ OnlyBytes(w, 3) /\ BytesOf(w, 3) = a
  BY <1>2, <1>3, <1>5, BytesPart
<1>10. Wrote(x, g) /\ OnlyInt(x, 1) /\ IntOf(x, 1) = i /\ Wrote(y, g) /\ OnlyInt(y, 2) /\ IntOf(y, 2) = j
  BY <1>1, <1>2, IntPart
<1> HIDE DEF s, t, w, one, g, h, x, y, c
<1>11. Wrote(status, room) /\ BytesOf(status, 3) = a
  <2> DEFINE u == s \o t
             k == g + g
  <2>1. Wrote(u, k)
    BY <1>8, BothParts
  <2>2. HasBytes(w, 3)
    BY <1>9 DEF OnlyBytes
  <2> HIDE DEF u, k
  <2>3. Wrote(u \o w, k + h) /\ BytesOf(u \o w, 3) = a
    BY <1>9, <2>1, <2>2, BothParts
  <2>4. QED
    BY <2>3 DEF u, k
<1> HIDE DEF status, room
<1>12. status \in Seq(Bytes) /\ Len(status) <= room
  BY <1>11, WroteBytes
<1>13. Wrote(object, more) /\ OnlyBytes(object, 2) /\ BytesOf(object, 2) = status
  BY <1>2, <1>5, <1>12, BytesPart
<1> HIDE DEF object, more
<1>14. Wrote(edit, wide) /\ BytesOf(edit, 2) = status
  <2>1. HasBytes(object, 2)
    BY <1>13 DEF OnlyBytes
  <2>2. QED
    BY <1>8, <1>13, <2>1, BothParts
<1> HIDE DEF edit, wide
<1>15. edit \in Seq(Bytes) /\ Len(edit) <= wide
  BY <1>14, WroteBytes
<1>16. Wrote(z, full) /\ OnlyBytes(z, 3) /\ BytesOf(z, 3) = edit
  BY <1>2, <1>5, <1>15, BytesPart
<1> HIDE DEF z, full
<1>17. Wrote(b, size) /\ IntOf(b, 1) = i /\ IntOf(b, 2) = j /\ BytesOf(b, 3) = edit
  <2> DEFINE u == x \o y
             k == g + g
  <2>1. HasInt(y, 2) /\ ~HasInt(y, 1)
    BY <1>10 DEF OnlyInt
  <2>2. Wrote(u, k) /\ IntOf(u, 1) = i /\ IntOf(u, 2) = j
    BY <1>10, <2>1, BothParts
  <2>3. HasBytes(z, 3) /\ ~HasInt(z, 1) /\ ~HasInt(z, 2)
    BY <1>16 DEF OnlyBytes
  <2> HIDE DEF u, k
  <2>4. Wrote(u \o z, k + full) /\ IntOf(u \o z, 1) = i /\ IntOf(u \o z, 2) = j /\ BytesOf(u \o z, 3) = edit
    BY <1>16, <2>2, <2>3, BothParts
  <2>5. QED
    BY <2>4 DEF u, k
<1> HIDE DEF b, size
<1>18. Understood(21, b) = c
  BY <1>7, <1>11, <1>14, <1>17 DEF c
<1>19. QED
  BY <1>2, <1>5, <1>6, <1>17, <1>18, ClearIfWrote DEF c

LEMMA RequestsClear == \A c \in PlainRequests \cup Payloads : Clear(c)
<1> DEFINE A == {<<k, i>> : k \in {"Configure", "SetActive", "Ping", "VoiceBegin", "VoiceEnd"}, i \in Signed}
           B == {<<"Key", i, d>> : i \in Signed, d \in Directions}
           C == {<<"Text", t, i, j>> : t \in Texts, i \in Signed, j \in Signed}
           D == {<<"AppLink", t>> : t \in Texts}
<1>1. PlainRequests = A \cup B \cup C \cup D
  BY DEF PlainRequests
<1>2. ASSUME NEW c \in A PROVE Clear(c)
  <2>1. PICK k \in {"Configure", "SetActive", "Ping", "VoiceBegin", "VoiceEnd"}, i \in Signed : c = <<k, i>>
    BY <1>2
  <2>2. CASE k = "Configure"
    BY <2>1, <2>2, ConfigureClear
  <2>3. CASE k # "Configure"
    <3>1. k \in {"SetActive", "Ping", "VoiceBegin", "VoiceEnd"}
      BY <2>3
    <3>2. QED
      BY <2>1, <3>1, NumbersClear
  <2>4. QED
    BY <2>2, <2>3
<1>3. ASSUME NEW c \in B PROVE Clear(c)
  <2>1. PICK i \in Signed, d \in Directions : c = <<"Key", i, d>>
    BY <1>3
  <2>2. Clear(<<"Key", i, d>>)
    BY <2>1, KeyClear
  <2>3. QED
    BY <2>1, <2>2
<1>4. ASSUME NEW c \in C PROVE Clear(c)
  <2>1. PICK t \in Texts, i \in Signed, j \in Signed : c = <<"Text", t, i, j>>
    BY <1>4, SMTT(30)
  <2>2. QED
    BY <2>1, TextClear
<1>5. ASSUME NEW c \in D PROVE Clear(c)
  <2>1. PICK t \in Texts : c = <<"AppLink", t>>
    BY <1>5
  <2>2. QED
    BY <2>1, AppLinkClear
<1>6. ASSUME NEW c \in Payloads PROVE Clear(c)
  <2>1. PICK i \in Signed, b \in Chunks : c = <<"VoicePayload", i, b>>
    BY <1>6 DEF Payloads
  <2>2. QED
    BY <2>1, PayloadClear
<1> HIDE DEF A, B, C, D
<1>7. QED
  BY <1>1, <1>2, <1>3, <1>4, <1>5, <1>6


-----------------------------------------------------------------------------
(* Each message of a pairing *)

PairingClear(c) ==
    /\ Fits(Build(c))
    /\ \E n \in Numbers, b \in Seq(Bytes) :
          /\ Fields(Build(c)) = <<VarintIs(1, 2), VarintIs(2, 200), BytesAre(n, LengthDelimited, b)>>
          /\ UnderstoodPairing(n, b) = c

LEMMA ThreeParts == \A x, y, z : (<<x>> \o <<y>>) \o <<z>> = <<x, y, z>>
<1> SUFFICES ASSUME NEW x, NEW y, NEW z PROVE (<<x>> \o <<y>>) \o <<z>> = <<x, y, z>>
  OBVIOUS
<1> DEFINE S == {x, y, z}
           s == <<x>> \o <<y>>
           t == <<z>>
           u == s \o t
           w == <<x, y, z>>
<1>1. <<x>> \in Seq(S) /\ <<y>> \in Seq(S) /\ t \in Seq(S) /\ Len(t) = 1 /\ t[1] = z
  OBVIOUS
<1>2. s \in Seq(S) /\ Len(s) = 2 /\ s[1] = x /\ s[2] = y
  BY <1>1
<1> HIDE DEF s, t, S
<1>3. u \in Seq(S) /\ Len(u) = 3 /\ u[1] = x /\ u[2] = y /\ u[3] = z
  <2>1. u \in Seq(S) /\ Len(u) = Len(s) + Len(t)
    BY <1>1, <1>2, ConcatProperties
  <2>2. \A i \in 1..(Len(s) + Len(t)) : u[i] = IF i <= Len(s) THEN s[i] ELSE t[i - Len(s)]
    BY <1>1, <1>2, ConcatProperties
  <2> HIDE DEF u
  <2>3. QED
    BY <1>1, <1>2, <2>1, <2>2
<1>4. w \in Seq(S) /\ Len(w) = 3 /\ w[1] = x /\ w[2] = y /\ w[3] = z
  BY DEF S
<1> HIDE DEF u, w
<1>5. \A k \in 1..3 : u[k] = w[k]
  BY <1>3, <1>4
<1>6. u = w
  BY <1>3, <1>4, <1>5, SeqEqual
<1>7. QED
  BY <1>6 DEF u, w, s, t

LEMMA OuterIsClear ==
    ASSUME NEW c, NEW n \in Numbers, NEW b, NEW size, Build(c) = PairingOuter(n, b),
           Wrote(b, size), size + 6 * Groups < Word, UnderstoodPairing(n, b) = c
    PROVE  PairingClear(c)
<1> DEFINE s == VarintField(1, 2)
           t == VarintField(2, 200)
           m == BytesField(n, b)
           f == VarintIs(1, 2)
           g == VarintIs(2, 200)
           h == BytesAre(n, LengthDelimited, b)
           k == 2 * Groups
           l == size + 2 * Groups
           q == (k + k) + l
           all == s \o t \o m
           fs == <<f, g, h>>
<1>1. 1 \in Numbers /\ 2 \in Numbers /\ 2 \in Nat /\ 2 < Word /\ 200 \in Nat /\ 200 < Word
  BY SmallNumbers
<1>2. b \in Seq(Bytes) /\ size \in Nat /\ Len(b) <= size
  BY WroteBytes
<1>3. size < Word /\ q < Word /\ Groups \in Nat /\ Word \in Nat
  BY <1>2, WordRoom
<1>4. Writes(s, <<f>>, k) /\ Writes(t, <<g>>, k)
  BY <1>1, WritesVarint
<1>5. Writes(m, <<h>>, l)
  BY <1>2, <1>3, WritesMessage
<1>6. Build(c) = all
  BY DEF PairingOuter
<1> HIDE DEF s, t, m, f, g, h, k, l
<1>7. Writes(all, (<<f>> \o <<g>>) \o <<h>>, q)
  <2> DEFINE st == s \o t
             fg == <<f>> \o <<g>>
             kk == k + k
  <2>1. Writes(st, fg, kk)
    BY <1>4, WritesBoth
  <2> HIDE DEF st, fg, kk
  <2>2. Writes(st \o m, fg \o <<h>>, kk + l)
    BY <1>5, <2>1, WritesBoth
  <2>3. QED
    BY <2>2 DEF st, fg, kk
<1>8. (<<f>> \o <<g>>) \o <<h>> = fs
  BY ThreeParts DEF fs
<1>9. Writes(all, fs, q)
  BY <1>7, <1>8
<1> HIDE DEF all, fs, q
<1>10. all \in Seq(Bytes) /\ Len(all) <= q /\ Fields(all) = fs
  BY <1>9, WritesBytes
<1>11. Fits(all)
  <2>1. Len(all) \in Nat /\ q \in Nat
    BY <1>9, <1>10, WritesBytes
  <2>2. QED
    BY <1>3, <1>10, <2>1 DEF Fits
<1>12. QED
  BY <1>2, <1>6, <1>10, <1>11 DEF PairingClear, fs, f, g, h

LEMMA RequestClear == ASSUME NEW t \in Texts PROVE PairingClear(<<"Request", t>>)
<1> DEFINE c == <<"Request", t>>
           n == Len(Text)
           m == Len(t)
           x == BytesField(1, Text)
           y == BytesField(2, t)
           b == x \o y
           k == n + 2 * Groups
           l == m + 2 * Groups
           size == k + l
<1>1. Text \in Seq(Bytes) /\ n \in Nat /\ 3 * n + 20 * Groups < Word
  BY RoomFor, WordRoom
<1>2. t \in Seq(Bytes) /\ m \in Nat /\ 3 * m + 20 * Groups < Word
  BY RoomFor, WordRoom
<1>3. /\ Len(Text) <= n /\ n < Word /\ Len(t) <= m /\ m < Word /\ size + 6 * Groups < Word
  BY <1>1, <1>2, WordRoom
<1>4. 1 \in Numbers /\ 2 \in Numbers /\ 10 \in Numbers
  BY SmallNumbers
<1>5. Build(c) = PairingOuter(10, b)
  BY DEF Build, PairingRequest
<1>6. UnderstoodPairing(10, b) = <<"Request", BytesOf(b, 2)>>
  BY DEF UnderstoodPairing
<1> HIDE DEF n, m
<1>7. Wrote(x, k)
  BY <1>1, <1>3, <1>4, BytesPart
<1>8. Wrote(y, l) /\ OnlyBytes(y, 2) /\ BytesOf(y, 2) = t
  BY <1>2, <1>3, <1>4, BytesPart
<1> HIDE DEF x, y, k, l, c
<1>9. Wrote(b, size) /\ BytesOf(b, 2) = t
  <2>1. HasBytes(y, 2)
    BY <1>8 DEF OnlyBytes
  <2>2. QED
    BY <1>7, <1>8, <2>1, BothParts
<1> HIDE DEF b, size
<1>10. UnderstoodPairing(10, b) = c
  BY <1>6, <1>9 DEF c
<1>11. QED
  BY <1>3, <1>4, <1>5, <1>9, <1>10, OuterIsClear DEF c

LEMMA SecretClear == ASSUME NEW t \in Texts PROVE PairingClear(<<"Secret", t>>)
<1> DEFINE c == <<"Secret", t>>
           m == Len(t)
           b == BytesField(1, t)
           size == m + 2 * Groups
<1>1. t \in Seq(Bytes) /\ m \in Nat /\ 3 * m + 20 * Groups < Word
  BY RoomFor, WordRoom
<1>2. Len(t) <= m /\ m < Word /\ size + 6 * Groups < Word
  BY <1>1, WordRoom
<1>3. 1 \in Numbers /\ 40 \in Numbers
  BY SmallNumbers
<1>4. Build(c) = PairingOuter(40, b)
  BY DEF Build, PairingSecret
<1>5. UnderstoodPairing(40, b) = <<"Secret", BytesOf(b, 1)>>
  BY DEF UnderstoodPairing
<1> HIDE DEF m
<1>6. Wrote(b, size) /\ BytesOf(b, 1) = t
  BY <1>1, <1>2, <1>3, BytesPart
<1> HIDE DEF b, size, c
<1>7. UnderstoodPairing(40, b) = c
  BY <1>5, <1>6 DEF c
<1>8. QED
  BY <1>2, <1>3, <1>4, <1>6, <1>7, OuterIsClear DEF c

LEMMA EncodingWrote == Wrote(Encoding, 2 * Groups + 2 * Groups)
<1> DEFINE s == VarintField(1, 3)
           t == VarintField(2, 6)
           g == 2 * Groups
<1>1. 1 \in Numbers /\ 2 \in Numbers /\ 3 \in Nat /\ 3 < Word /\ 6 \in Nat /\ 6 < Word
  BY SmallNumbers
<1>2. Wrote(s, g) /\ Wrote(t, g)
  BY <1>1, IntPart
<1> HIDE DEF s, t, g
<1>3. Wrote(s \o t, g + g)
  BY <1>2, BothParts
<1>4. QED
  BY <1>3 DEF Encoding, s, t, g

\* An encoding in field 1, and a number.
LEMMA EncodingAndNumber ==
    ASSUME NEW k \in Numbers
    PROVE  LET b == BytesField(1, Encoding) \o VarintField(k, 1)
           IN  \E size : Wrote(b, size) /\ size + 6 * Groups < Word
<1> DEFINE e == Encoding
           g == 2 * Groups
           r == 2 * Groups + 2 * Groups
           x == BytesField(1, e)
           y == VarintField(k, 1)
           f == r + 2 * Groups
<1>1. 1 \in Numbers /\ 1 \in Nat /\ 1 < Word
  BY SmallNumbers
<1>2. Wrote(e, r)
  BY EncodingWrote
<1>3. r \in Nat /\ r < Word /\ (f + g) + 6 * Groups < Word
  BY WordRoom
<1> HIDE DEF e, r
<1>4. e \in Seq(Bytes) /\ Len(e) <= r
  BY <1>2, WroteBytes
<1>5. Wrote(x, f)
  BY <1>1, <1>3, <1>4, BytesPart
<1>6. Wrote(y, g)
  BY <1>1, IntPart
<1> HIDE DEF x, y, f, g
<1>7. Wrote(x \o y, f + g)
  BY <1>5, <1>6, BothParts
<1>8. QED
  BY <1>3, <1>7 DEF x, y, e

LEMMA PairingRequestsClear == \A c \in PairingRequests : PairingClear(c)
<1> DEFINE A == {<<k, t>> : k \in {"Request", "Secret"}, t \in Texts}
<1>1. PairingRequests = A \cup {<<"Options">>, <<"Configuration">>}
  BY DEF PairingRequests
<1>2. ASSUME NEW c \in A PROVE PairingClear(c)
  <2>1. PICK k \in {"Request", "Secret"}, t \in Texts : c = <<k, t>>
    BY <1>2
  <2>2. CASE k = "Request"
    BY <2>1, <2>2, RequestClear
  <2>3. CASE k = "Secret"
    BY <2>1, <2>3, SecretClear
  <2>4. QED
    BY <2>2, <2>3
<1>3. PairingClear(<<"Options">>)
  <2> DEFINE c == <<"Options">>
             b == BytesField(1, Encoding) \o VarintField(3, 1)
  <2>1. 3 \in Numbers /\ 20 \in Numbers
    BY SmallNumbers
  <2>2. PICK size : Wrote(b, size) /\ size + 6 * Groups < Word
    BY <2>1, EncodingAndNumber
  <2>3. Build(c) = PairingOuter(20, b)
    BY DEF Build, PairingOptions
  <2>4. UnderstoodPairing(20, b) = c
    BY DEF UnderstoodPairing
  <2> HIDE DEF b, c
  <2>5. PairingClear(c)
    BY <2>1, <2>2, <2>3, <2>4, OuterIsClear
  <2>6. QED
    BY <2>5 DEF c
<1>4. PairingClear(<<"Configuration">>)
  <2> DEFINE c == <<"Configuration">>
             b == BytesField(1, Encoding) \o VarintField(2, 1)
  <2>1. 2 \in Numbers /\ 30 \in Numbers
    BY SmallNumbers
  <2>2. PICK size : Wrote(b, size) /\ size + 6 * Groups < Word
    BY <2>1, EncodingAndNumber
  <2>3. Build(c) = PairingOuter(30, b)
    BY DEF Build, PairingConfiguration
  <2>4. UnderstoodPairing(30, b) = c
    BY DEF UnderstoodPairing
  <2> HIDE DEF b, c
  <2>5. PairingClear(c)
    BY <2>1, <2>2, <2>3, <2>4, OuterIsClear
  <2>6. QED
    BY <2>5 DEF c
<1> HIDE DEF A
<1>5. QED
  BY <1>1, <1>2, <1>3, <1>4


-----------------------------------------------------------------------------
(* What the client asks and answers, and the frames it writes *)

LEMMA FieldsAre == ASSUME NEW b \in Seq(Bytes) PROVE Fields(b) \in Seq(FieldSet)
<1>1. Fields(b) = FieldsFrom(b, 0) /\ 0 \in Nat
  BY DEF Fields, Walk, FieldsFrom
<1>2. QED
  BY <1>1, FieldsFromDef

LEMMA SignedRange == ASSUME NEW v \in Int PROVE ToSigned(v) \in Signed
<1> DEFINE P == Pow2[IntBits]
           H == Pow2[IntBits - 1]
           u == ToUnsigned(v)
<1>1. P \in Nat \ {0} /\ H \in Nat \ {0} /\ P = 2 * H
  BY IntWidth
<1>2. u \in Unsigned
  BY UnsignedFits
<1>3. /\ Signed = (-H)..(H - 1) /\ Unsigned = 0..(P - 1)
      /\ ToSigned(v) = IF u \in Signed THEN u ELSE u - P
  BY DEF Signed, Unsigned, ToSigned
<1> HIDE DEF P, H, u
<1>4. QED
  BY <1>1, <1>2, <1>3

\* An int32_t found in any message, or 0.
LEMMA FindsInt == ASSUME NEW b \in Seq(Bytes), NEW n PROVE AsI32(FindVarint(b, n)) \in Signed
<1> DEFINE fs == Fields(b)
           P == Places(fs, n, VarintType)
<1>1. fs \in Seq(FieldSet)
  BY FieldsAre
<1>2. FindVarint(b, n) = VarintIn(IF P = {} THEN <<>> ELSE <<fs[Min(P)]>>)
  BY DEF FindVarint, FirstOf, First
<1>3. P \subseteq DOMAIN fs
  BY DEF Places
<1> HIDE DEF fs, P
<1>4. DOMAIN fs \subseteq Nat /\ \A j \in DOMAIN fs : fs[j] \in FieldSet
  BY <1>1
<1>5. 0 \in Signed
  BY FrameAssumption
<1>6. CASE P = {}
  BY <1>2, <1>5, <1>6 DEF VarintIn, AsI32
<1>7. CASE P # {}
  <2> DEFINE f == fs[Min(P)]
  <2>1. P \subseteq Nat
    BY <1>3, <1>4
  <2>2. Min(P) \in DOMAIN fs
    BY <1>3, <1>7, <2>1, MinFacts
  <2>3. f.varint \in Int
    BY <1>4, <2>2 DEF FieldSet
  <2>4. FindVarint(b, n) = VarintIn(<<f>>)
    BY <1>2, <1>7
  <2> HIDE DEF f
  <2>5. <<f>> # <<>> /\ <<f>>[1] = f /\ <<f.varint>> # <<>> /\ <<f.varint>>[1] = f.varint
    OBVIOUS
  <2>6. AsI32(VarintIn(<<f>>)) = ToSigned(f.varint)
    BY <2>5 DEF VarintIn, AsI32
  <2>7. QED
    BY <2>3, <2>4, <2>6, SignedRange
<1>8. QED
  BY <1>6, <1>7

LEMMA IncomingInt ==
    ASSUME NEW b \in Seq(Bytes), ParseRemote(b).kind \in {"Ping", "VoiceBegin"}
    PROVE  ParseRemote(b).values[1] \in Signed
<1> DEFINE fs == Fields(b)
           P == {i \in DOMAIN fs : Decides(fs[i])}
           f == fs[Min(P)]
           k == KindOf(f)
<1>1. fs \in Seq(FieldSet)
  BY FieldsAre
<1>2. ParseRemote(b) = Incoming(IF P = {} THEN <<>> ELSE <<f>>)
  BY DEF ParseRemote, ParseFields, First
<1>3. P \subseteq DOMAIN fs
  OBVIOUS
<1> HIDE DEF fs, P
<1>4. DOMAIN fs \subseteq Nat /\ \A j \in DOMAIN fs : fs[j] \in FieldSet
  BY <1>1
<1>5. P # {}
  <2> SUFFICES ASSUME P = {} PROVE FALSE
    OBVIOUS
  <2>1. ParseRemote(b) = Unknown
    BY <1>2 DEF Incoming
  <2>2. QED
    BY <2>1 DEF Unknown
<1>6. Min(P) \in DOMAIN fs
  <2>1. P \subseteq Nat
    BY <1>3, <1>4
  <2>2. QED
    BY <1>3, <1>5, <2>1, MinFacts
<1>7. f.bytes \in Seq(Bytes)
  BY <1>4, <1>6 DEF FieldSet
<1> HIDE DEF f
<1>8. <<f>> # <<>> /\ <<f>>[1] = f
  OBVIOUS
<1>9. ParseRemote(b) = [kind |-> k, values |-> Values(k, f.bytes)]
  BY <1>2, <1>5, <1>8 DEF Incoming
<1> HIDE DEF k
<1>10. k \in {"Ping", "VoiceBegin"}
  BY <1>9
<1>11. Values(k, f.bytes) = <<AsI32(FindVarint(f.bytes, 1))>>
  BY <1>10 DEF Values
<1>12. AsI32(FindVarint(f.bytes, 1)) \in Signed
  BY <1>7, FindsInt
<1>13. QED
  BY <1>9, <1>11, <1>12

Answerable == IF channel = "remote" THEN PlainRequests ELSE PairingRequests
Askable    == IF channel = "remote" THEN PlainRequests \cup Payloads ELSE PairingRequests

AtMostOne(cs) == cs = <<>> \/ \E c \in Answerable : cs = <<c>>

LEMMA PlainNumbers ==
    ASSUME NEW k \in {"Configure", "SetActive", "Ping", "VoiceBegin", "VoiceEnd"}, NEW i \in Signed
    PROVE  <<k, i>> \in PlainRequests
BY DEF PlainRequests

LEMMA AnswersAre ==
    ASSUME NEW b \in Seq(Bytes), NEW cs \in Answers(b)
    PROVE  AtMostOne(cs)
<1>1. CASE channel = "remote"
  <2> DEFINE m == ParseRemote(b)
  <2>1. cs \in RemoteAnswers(m) /\ Answerable = PlainRequests
    BY <1>1 DEF Answers, Answerable
  <2>2. m.kind \in {"Ping", "VoiceBegin"} => m.values[1] \in Signed
    BY IncomingInt
  <2> HIDE DEF m
  <2>3. CASE m.kind \in {"Configure", "SetActive"}
    <3>1. cs \in {<<<<m.kind, i>>>> : i \in Ints}
      BY <2>1, <2>3 DEF RemoteAnswers
    <3>2. PICK i \in Ints : cs = <<<<m.kind, i>>>>
      BY <3>1
    <3>3. i \in Signed
      BY FrameAssumption
    <3>4. <<m.kind, i>> \in PlainRequests
      BY <2>3, <3>3, PlainNumbers
    <3>5. QED
      BY <2>1, <3>2, <3>4 DEF AtMostOne
  <2>4. CASE m.kind = "Ping"
    <3>1. cs = <<<<"Ping", m.values[1]>>>>
      BY <2>1, <2>4 DEF RemoteAnswers
    <3>2. <<"Ping", m.values[1]>> \in PlainRequests
      BY <2>2, <2>4, PlainNumbers
    <3>3. QED
      BY <2>1, <3>1, <3>2 DEF AtMostOne
  <2>5. CASE m.kind = "VoiceBegin"
    <3>1. cs = <<>> \/ cs = <<<<"VoiceBegin", m.values[1]>>>>
      BY <2>1, <2>5 DEF RemoteAnswers
    <3>2. <<"VoiceBegin", m.values[1]>> \in PlainRequests
      BY <2>2, <2>5, PlainNumbers
    <3>3. QED
      BY <2>1, <3>1, <3>2 DEF AtMostOne
  <2>6. CASE m.kind \notin {"Configure", "SetActive", "Ping", "VoiceBegin"}
    BY <2>1, <2>6 DEF RemoteAnswers, AtMostOne
  <2>7. QED
    BY <2>3, <2>4, <2>5, <2>6
<1>2. CASE channel # "remote"
  <2> DEFINE r == PairingReply(b)
  <2>1. cs \in PairingAnswers(r) /\ Answerable = PairingRequests
    BY <1>2 DEF Answers, Answerable
  <2> HIDE DEF r
  <2>2. cs = <<>> \/ cs = <<<<"Options">>>> \/ cs = <<<<"Configuration">>>>
    BY <2>1 DEF PairingAnswers
  <2>3. <<"Options">> \in PairingRequests /\ <<"Configuration">> \in PairingRequests
    BY DEF PairingRequests
  <2>4. QED
    BY <2>1, <2>2, <2>3 DEF AtMostOne
<1>3. QED
  BY <1>1, <1>2

LEMMA CommandsAre == ASSUME NEW c \in Commands PROVE c \in Answerable
<1>1. Ints \subseteq Signed
  BY FrameAssumption
<1>2. CASE channel = "remote"
  <2> DEFINE A == {<<"Key", i, d>> : i \in Ints, d \in 0..3}
             B == {<<"Text", t, i, j>> : t \in Texts \ {<<>>}, i, j \in Ints}
             C == {<<"AppLink", t>> : t \in Texts}
             D == {<<"VoiceEnd", i>> : i \in Ints}
  <2>1. Commands = A \cup B \cup C \cup D /\ Answerable = PlainRequests
    BY <1>2 DEF Commands, Answerable
  <2>2. ASSUME c \in A PROVE c \in PlainRequests
    <3>1. PICK i \in Ints, d \in Directions : c = <<"Key", i, d>>
      BY <2>2 DEF Directions
    <3>2. i \in Signed
      BY <1>1
    <3>3. QED
      BY <3>1, <3>2 DEF PlainRequests
  <2>3. ASSUME c \in B PROVE c \in PlainRequests
    <3>1. PICK t \in Texts, i \in Ints, j \in Ints : c = <<"Text", t, i, j>>
      BY <2>3, SMTT(30)
    <3>2. i \in Signed /\ j \in Signed
      BY <1>1
    <3>3. QED
      BY <3>1, <3>2 DEF PlainRequests
  <2>4. ASSUME c \in C PROVE c \in PlainRequests
    BY <2>4 DEF PlainRequests
  <2>5. ASSUME c \in D PROVE c \in PlainRequests
    <3>1. PICK i \in Ints : c = <<"VoiceEnd", i>>
      BY <2>5
    <3>2. i \in Signed
      BY <1>1
    <3>3. QED
      BY <3>1, <3>2, PlainNumbers
  <2> HIDE DEF A, B, C, D
  <2>6. QED
    BY <2>1, <2>2, <2>3, <2>4, <2>5
<1>3. CASE channel # "remote"
  <2> DEFINE A == {<<"Request", t>> : t \in Texts}
             B == {<<"Secret", t>> : t \in Texts}
  <2>1. Commands = A \cup B /\ Answerable = PairingRequests
    BY <1>3 DEF Commands, Answerable
  <2>2. \A x \in A : x \in PairingRequests
    BY DEF PairingRequests
  <2>3. \A x \in B : x \in PairingRequests
    BY DEF PairingRequests
  <2> HIDE DEF A, B
  <2>4. QED
    BY <2>1, <2>2, <2>3
<1>4. QED
  BY <1>2, <1>3


-----------------------------------------------------------------------------
(* The chunks of sendVoiceData *)

LEMMA Smaller ==
    ASSUME NEW a \in Nat, NEW b \in Nat
    PROVE  Min({a, b}) = IF a <= b THEN a ELSE b
<1>1. {a, b} \subseteq Nat /\ {a, b} # {}
  OBVIOUS
<1>2. Min({a, b}) \in {a, b} /\ \A y \in {a, b} : Min({a, b}) <= y
  BY <1>1, MinFacts
<1>3. QED
  BY <1>2

LEMMA Larger ==
    ASSUME NEW a \in Int
    PROVE  Max({a, 0}) = IF a >= 0 THEN a ELSE 0
<1> DEFINE T == {a, 0}
           x == IF a >= 0 THEN a ELSE 0
<1>1. x \in T /\ \A y \in T : x >= y
  OBVIOUS
<1>2. Max(T) \in T /\ \A y \in T : Max(T) >= y
  <2>1. \E z \in T : \A y \in T : z >= y
    BY <1>1
  <2>2. QED
    BY <2>1, Zenon DEF Max
<1>3. QED
  BY <1>1, <1>2

\* How many chunks there are of l samples, and the sample the kth ends with.
ChunkCount(l) == (l + VoiceChunk - 1) \div VoiceChunk
ChunkEnd(k, l) == IF VoiceChunk * k <= l THEN VoiceChunk * k ELSE l

LEMMA ChunkCounts ==
    ASSUME NEW l \in Nat \ {0}
    PROVE  LET m == ChunkCount(l)
           IN  /\ m \in Nat /\ l <= VoiceChunk * m
               /\ \A k \in Nat : k < m => VoiceChunk * k < l
<1> DEFINE C == VoiceChunk
           m == ChunkCount(l)
           x == l + C - 1
           r == x % C
<1>1. C \in Nat \ {0} /\ x \in Int /\ x \in Nat
  BY FrameAssumption
<1>2. m = x \div C
  BY DEF ChunkCount
<1> HIDE DEF C
<1>3. x = (C * m) + r /\ r \in 0..(C - 1) /\ m \in Nat
  <2> HIDE DEF x
  <2>1. QED
    BY <1>1, <1>2, DivMod
<1> HIDE DEF r
<1>4. C * m \in Int
  BY <1>1, <1>3
<1>5. l <= C * m /\ (C * m) - C < l
  <2> DEFINE p == C * m
  <2>1. l + C - 1 = p + r /\ p \in Int
    BY <1>3, <1>4
  <2> HIDE DEF p
  <2>2. l <= p /\ p - C < l
    BY <1>1, <1>3, <2>1
  <2>3. QED
    BY <2>2 DEF p
<1>6. ASSUME NEW k \in Nat, k < m PROVE C * k < l
  <2>1. k + 1 <= m /\ k + 1 \in Int /\ m \in Int
    BY <1>3, <1>6
  <2>2. C * (k + 1) <= C * m
    BY <1>1, <2>1, TimesLess
  <2>3. C * (k + 1) = (C * k) + C /\ C * k \in Int
    BY <1>1
  <2> DEFINE p == C * m
             q == C * k
  <2>4. q + C <= p /\ p - C < l /\ p \in Int /\ q \in Int
    BY <1>4, <1>5, <2>2, <2>3
  <2> HIDE DEF p, q
  <2>5. q < l
    BY <1>1, <2>4
  <2>6. QED
    BY <2>5 DEF q
<1>7. QED
  BY <1>3, <1>5, <1>6 DEF C

\* The samples from the one after `from' to the one at `to', and silence.
IsChunk(a, data, from, to) ==
    /\ a \in Chunks /\ to - from <= Len(a)
    /\ \A j \in 1..Len(a) : a[j] = IF j <= to - from THEN data[from + j] ELSE 0
    /\ to - from = VoiceChunk => Len(a) = VoiceChunk

LEMMA Pads ==
    ASSUME NEW data \in Seq(Bytes), NEW from \in Nat, NEW to \in Nat, from < to, to <= Len(data),
           to - from <= VoiceChunk
    PROVE  LET s == SubSeq(data, from + 1, to)
           IN  IsChunk(s \o Zeros(Max({VoiceMinimum - Len(s), 0})), data, from, to)
<1> DEFINE s == SubSeq(data, from + 1, to)
           n == to - from
           d == VoiceMinimum - Len(s)
           p == Max({d, 0})
           z == Zeros(p)
           a == s \o z
<1>1. VoiceChunk \in Nat /\ VoiceMinimum \in 0..VoiceChunk /\ n \in Nat /\ n <= VoiceChunk
  BY FrameAssumption
<1>2. \A i \in (from + 1)..to : data[i] \in Bytes
  OBVIOUS
<1>3. s \in Seq(Bytes) /\ Len(s) = n /\ \A j \in 1..n : s[j] = data[from + j]
  <2>1. from + 1 \in Int /\ to \in Int
    OBVIOUS
  <2>2. /\ s \in Seq(Bytes) /\ Len(s) = IF from + 1 <= to THEN to - (from + 1) + 1 ELSE 0
        /\ \A j \in 1..(to - (from + 1) + 1) : s[j] = data[from + 1 + j - 1]
    BY <1>2, <2>1, SubSeqProperties
  <2>3. to - (from + 1) + 1 = n /\ \A j \in 1..n : from + 1 + j - 1 = from + j
    OBVIOUS
  <2>4. QED
    BY <2>2, <2>3
<1> HIDE DEF s
<1>4. p = (IF d >= 0 THEN d ELSE 0) /\ d = VoiceMinimum - n
  BY <1>1, <1>3, Larger
<1>5. p \in Nat /\ n + p \in VoiceMinimum..VoiceChunk /\ (n = VoiceChunk => p = 0)
  BY <1>1, <1>4
<1> HIDE DEF d, p
<1>6. z \in Seq(Bytes) /\ Len(z) = p /\ \A j \in 1..p : z[j] = 0
  BY <1>5, ZerosAre DEF Zeros
<1> HIDE DEF z, n
<1>7. /\ a \in Seq(Bytes) /\ Len(a) = n + p
      /\ \A j \in 1..(n + p) : a[j] = IF j <= n THEN s[j] ELSE z[j - n]
  BY <1>1, <1>3, <1>5, <1>6, ConcatProperties, ZenonT(30)
<1> HIDE DEF a
<1>8. ASSUME NEW j \in 1..Len(a) PROVE a[j] = IF j <= n THEN data[from + j] ELSE 0
  <2>1. j \in 1..(n + p) /\ j \in Nat
    BY <1>7
  <2>2. CASE j <= n
    <3>1. j \in 1..n
      BY <1>1, <2>1, <2>2
    <3>2. QED
      BY <1>3, <1>7, <2>1, <2>2, <3>1
  <2>3. CASE ~(j <= n)
    <3>1. j - n \in 1..p
      BY <1>1, <1>5, <2>1, <2>3
    <3>2. QED
      BY <1>6, <1>7, <2>1, <2>3, <3>1
  <2>4. QED
    BY <2>2, <2>3
<1>9. a \in Chunks /\ n <= Len(a) /\ (n = VoiceChunk => Len(a) = VoiceChunk)
  BY <1>1, <1>5, <1>7 DEF Chunks
<1>10. IsChunk(a, data, from, to)
  BY <1>8, <1>9 DEF IsChunk, n
<1>11. QED
  BY <1>10 DEF a, z, p, d, s

LEMMA ChunksAre ==
    ASSUME NEW data \in Seq(Bytes), Len(data) # 0
    PROVE  LET m == ChunkCount(Len(data))
           IN  /\ DOMAIN VoiceChunks(data) = 1..m
               /\ \A i \in 1..m : IsChunk(VoiceChunks(data)[i], data, VoiceChunk * (i - 1), ChunkEnd(i, Len(data)))
<1> DEFINE l == Len(data)
           m == ChunkCount(l)
           C == VoiceChunk
           P(i) == SubSeq(data, (i - 1) * C + 1, Min({i * C, l}))
           Q(i) == P(i) \o Zeros(Max({VoiceMinimum - Len(P(i)), 0}))
<1>1. VoiceChunks(data) = [i \in 1..m |-> Q(i)]
  BY DEF VoiceChunks, ChunkCount
<1>2. l \in Nat \ {0} /\ C \in Nat \ {0}
  BY FrameAssumption
<1>3. m \in Nat /\ \A k \in Nat : k < m => C * k < l
  BY <1>2, ChunkCounts
<1> HIDE DEF m
<1>4. ASSUME NEW i \in 1..m PROVE IsChunk(Q(i), data, C * (i - 1), ChunkEnd(i, l))
  <2> DEFINE p == C * (i - 1)
             q == C * i
             to == ChunkEnd(i, l)
             s == SubSeq(data, p + 1, to)
  <2>1. i - 1 \in Nat /\ i - 1 < m /\ i \in Nat
    BY <1>3
  <2>2. p < l
    BY <1>3, <2>1
  <2>3. (i - 1) * C = p /\ i * C = q /\ q = p + C /\ p \in Nat /\ q \in Nat
    BY <1>2, <2>1
  <2>4. to = IF q <= l THEN q ELSE l
    BY DEF ChunkEnd
  <2> HIDE DEF p, q, to, l, C
  <2>5. Min({q, l}) = to /\ to \in Nat /\ p < to /\ to <= l /\ to - p <= C
    BY <1>2, <2>2, <2>3, <2>4, Smaller
  <2>6. P(i) = s
    BY <2>3, <2>5
  <2> HIDE DEF P
  <2>7. IsChunk(s \o Zeros(Max({VoiceMinimum - Len(s), 0})), data, p, to)
    BY <2>3, <2>5, Pads DEF l, C
  <2> HIDE DEF s
  <2>8. IsChunk(Q(i), data, p, to)
    BY <2>6, <2>7
  <2>9. QED
    BY <2>8 DEF p, to, l, C
<1> HIDE DEF Q
<1>5. QED
  BY <1>1, <1>4 DEF m, l, C


-----------------------------------------------------------------------------
(* Every frame is understood *)

Framed(a) == [i \in DOMAIN a |-> Frame(Build(a[i]))]

LEMMA FramedBoth ==
    ASSUME NEW R, NEW a \in Seq(R), NEW b \in Seq(R)
    PROVE  Framed(a \o b) = Framed(a) \o Framed(b)
<1> DEFINE T == {Frame(Build(c)) : c \in R}
           m == Len(a)
           n == Len(b)
           ab == a \o b
           x == Framed(a)
           y == Framed(b)
           z == Framed(ab)
           w == x \o y
<1>1. /\ ab \in Seq(R) /\ Len(ab) = m + n /\ m \in Nat /\ n \in Nat
      /\ DOMAIN a = 1..m /\ DOMAIN b = 1..n /\ DOMAIN ab = 1..(m + n)
  BY ConcatProperties
<1>2. \A i \in 1..(m + n) : ab[i] = IF i <= m THEN a[i] ELSE b[i - m]
  BY ConcatProperties
<1>3. /\ \A i \in 1..m : a[i] \in R
      /\ \A i \in 1..n : b[i] \in R
      /\ \A i \in 1..(m + n) : ab[i] \in R
  BY <1>1
<1> HIDE DEF ab, m, n
<1>4. /\ x = [i \in 1..m |-> Frame(Build(a[i]))]
      /\ y = [i \in 1..n |-> Frame(Build(b[i]))]
      /\ z = [i \in 1..(m + n) |-> Frame(Build(ab[i]))]
  BY <1>1 DEF Framed
<1>5. x \in [1..m -> T] /\ y \in [1..n -> T] /\ z \in [1..(m + n) -> T]
  BY <1>3, <1>4
<1>6. /\ \A i \in 1..m : x[i] = Frame(Build(a[i]))
      /\ \A i \in 1..n : y[i] = Frame(Build(b[i]))
      /\ \A i \in 1..(m + n) : z[i] = Frame(Build(ab[i]))
  BY <1>4
<1> HIDE DEF x, y, z, T
<1>7. m + n \in Nat /\ x \in Seq(T) /\ Len(x) = m /\ y \in Seq(T) /\ Len(y) = n /\ z \in Seq(T) /\ Len(z) = m + n
  BY <1>1, <1>5
<1>8. /\ w \in Seq(T) /\ Len(w) = m + n
      /\ \A i \in 1..(m + n) : w[i] = IF i <= m THEN x[i] ELSE y[i - m]
  BY <1>7, ConcatProperties
<1> HIDE DEF w
<1>9. ASSUME NEW i \in 1..(m + n) PROVE w[i] = z[i]
  <2>1. CASE i <= m
    <3>1. i \in 1..m
      BY <1>1, <2>1
    <3>2. QED
      BY <1>2, <1>6, <1>8, <2>1, <3>1
  <2>2. CASE ~(i <= m)
    <3>1. i - m \in 1..n
      BY <1>1, <2>2
    <3>2. QED
      BY <1>2, <1>6, <1>8, <2>2, <3>1
  <2>3. QED
    BY <2>1, <2>2
<1>10. w = z
  BY <1>7, <1>8, <1>9, SeqEqual
<1>11. QED
  BY <1>10 DEF w, x, y, z, ab

\* What is written is what was asked, each in a frame of its own.
Said == asked \in Seq(Askable) /\ written = Framed(asked)

LEMMA SaidInit == Init => Said
<1> SUFFICES ASSUME Init PROVE Said
  OBVIOUS
<1>1. asked = <<>> /\ written = <<>>
  BY DEF Init
<1>2. Framed(<<>>) = <<>>
  BY DEF Framed
<1>3. QED
  BY <1>1, <1>2 DEF Said

LEMMA SaysMore ==
    ASSUME Said, NEW cs \in Seq(Askable), Write(cs), channel' = channel
    PROVE  Said'
<1> DEFINE R == Askable
<1>1. asked \in Seq(R) /\ written = Framed(asked) /\ asked' = asked \o cs /\ written' = written \o Framed(cs)
  BY DEF Said, Write, Framed
<1>2. Askable' = R
  BY DEF Askable
<1>3. Framed(asked \o cs) = Framed(asked) \o Framed(cs)
  BY <1>1, FramedBoth
<1>4. asked' \in Seq(R)
  BY <1>1, ConcatProperties
<1> HIDE DEF R
<1>5. asked' \in Seq(Askable')
  BY <1>2, <1>4
<1>6. written' = Framed(asked')
  BY <1>1, <1>3
<1>7. QED
  BY <1>5, <1>6 DEF Said

LEMMA AtMostOneAskable == ASSUME NEW cs, AtMostOne(cs) PROVE cs \in Seq(Askable)
<1>1. Answerable \subseteq Askable
  BY DEF Answerable, Askable
<1>2. CASE cs = <<>>
  BY <1>2
<1>3. CASE cs # <<>>
  <2>1. PICK c \in Answerable : cs = <<c>>
    BY <1>3 DEF AtMostOne
  <2>2. c \in Askable
    BY <1>1, <2>1
  <2>3. QED
    BY <2>1, <2>2
<1>4. QED
  BY <1>2, <1>3

\* What handling a message or giving a command adds to what was asked.
SaysAtMostOne == \E cs : AtMostOne(cs) /\ Write(cs)

LEMMA DeliverSays == ASSUME NEW b \in Seq(Bytes), Deliver(b) PROVE SaysAtMostOne
<1>1. PICK cs \in Answers(b) : Write(cs)
  BY DEF Deliver
<1>2. AtMostOne(cs)
  BY AnswersAre
<1>3. QED
  BY <1>1, <1>2 DEF SaysAtMostOne

\* The samples given to sendVoiceData, and what it asks for them.
Sound(n) == [k \in 1..n |-> k % Base]
Spoken(data, i) == [k \in DOMAIN VoiceChunks(data) |-> <<"VoicePayload", i, VoiceChunks(data)[k]>>]

LEMMA SoundIs == ASSUME NEW n \in Nat PROVE Sound(n) \in Seq(Bytes) /\ Len(Sound(n)) = n
<1>1. Base \in Nat /\ Base # 0 /\ Bytes = 0..(2 * Base - 1)
  BY WidthFacts
<1>2. ASSUME NEW k \in 1..n PROVE k % Base \in 0..(Base - 1)
  <2>1. k \in Int
    OBVIOUS
  <2>2. QED
    BY <1>1, <2>1, ModType
<1>3. \A k \in 1..n : k % Base \in Bytes
  BY <1>1, <1>2
<1>4. Sound(n) \in [1..n -> Bytes]
  BY <1>3 DEF Sound
<1>5. QED
  BY <1>4

LEMMA SpokenAre ==
    ASSUME NEW data \in Seq(Bytes), Len(data) # 0, NEW i \in Ints
    PROVE  /\ Spoken(data, i) \in Seq(Payloads) /\ Len(Spoken(data, i)) = ChunkCount(Len(data))
           /\ \A k \in 1..ChunkCount(Len(data)) : Spoken(data, i)[k] = <<"VoicePayload", i, VoiceChunks(data)[k]>>
<1> DEFINE m == ChunkCount(Len(data))
           v == VoiceChunks(data)
           s == Spoken(data, i)
<1>1. DOMAIN v = 1..m /\ \A k \in 1..m : v[k] \in Chunks
  BY ChunksAre DEF IsChunk
<1>2. m \in Nat
  <2>1. Len(data) \in Nat \ {0}
    OBVIOUS
  <2>2. QED
    BY <2>1, ChunkCounts
<1>3. s = [k \in 1..m |-> <<"VoicePayload", i, v[k]>>]
  BY <1>1 DEF Spoken
<1>4. i \in Signed
  BY FrameAssumption
<1> HIDE DEF v, m, s
<1>5. \A k \in 1..m : <<"VoicePayload", i, v[k]>> \in Payloads
  BY <1>1, <1>4 DEF Payloads
<1>6. s \in [1..m -> Payloads]
  BY <1>3, <1>5
<1>7. s \in Seq(Payloads) /\ Len(s) = m
  BY <1>2, <1>6
<1>8. \A k \in 1..m : s[k] = <<"VoicePayload", i, v[k]>>
  BY <1>3
<1>9. QED
  BY <1>7, <1>8 DEF v, m, s

\* sendVoiceData, whose samples are the voice from then on.
Speaks(n, i) ==
    /\ n \in Nat /\ n # 0 /\ i \in Ints /\ channel = "remote" /\ tv = "quiet" /\ voice = <<>>
    /\ voice' = Sound(n) /\ Write(Spoken(Sound(n), i))

LEMMA VoiceSpeaks == ASSUME SendVoiceData PROVE \E n, i : Speaks(n, i)
<1>1. PICK n \in 1..MaxVoice, i \in Ints :
          LET chunks == VoiceChunks([k \in 1..n |-> k % Base])
          IN  /\ voice' = [k \in 1..n |-> k % Base]
              /\ Write([k \in DOMAIN chunks |-> <<"VoicePayload", i, chunks[k]>>])
  BY DEF SendVoiceData
<1>2. n \in Nat /\ n # 0
  BY FrameAssumption
<1>3. voice' = Sound(n) /\ Write(Spoken(Sound(n), i))
  BY <1>1 DEF Sound, Spoken
<1>4. channel = "remote" /\ tv = "quiet" /\ voice = <<>>
  BY DEF SendVoiceData
<1>5. QED
  BY <1>2, <1>3, <1>4 DEF Speaks

\* The four things a step may do to what was asked.
SaysOn ==
    \/ UNCHANGED <<asked, written, voice>>
    \/ SaysAtMostOne /\ UNCHANGED voice
    \/ asked' = <<>> /\ written' = <<>> /\ tv = "honest" /\ UNCHANGED voice
    \/ \E n, i : Speaks(n, i)

LEMMA StepSays ==
    ASSUME StreamOK, [Next]_vars
    PROVE  SaysOn /\ UNCHANGED <<channel, tv>>
<1>0. UNCHANGED <<channel, tv>>
  BY DEF Next, TvSendsMessage, TvSendsGarbled, TvSendsByte, TvSends, LengthByteRead, BodyRead,
         NewStream, Command, SendVoiceData, vars
<1>1. CASE TvSendsMessage \/ TvSendsGarbled \/ TvSendsByte \/ UNCHANGED vars
  BY <1>1 DEF TvSendsMessage, TvSendsGarbled, TvSendsByte, TvSends, vars, SaysOn
<1>2. CASE LengthByteRead
  <2>1. voice' = voice /\ (Deliver(<<>>) \/ UNCHANGED <<asked, written>>)
    BY <1>2 DEF LengthByteRead
  <2>2. <<>> \in Seq(Bytes)
    OBVIOUS
  <2>3. QED
    BY <1>0, <2>1, <2>2, DeliverSays DEF SaysOn
<1>3. CASE BodyRead
  <2>1. voice' = voice /\ Deliver(SubSeq(stream, 1, rx.length)) /\ Len(stream) >= rx.length
    BY <1>3 DEF BodyRead
  <2>2. rx.length \in Nat /\ stream \in Seq(Bytes)
    BY DEF StreamOK, ReaderOK, RxSet
  <2>3. SubSeq(stream, 1, rx.length) \in Seq(Bytes)
    BY <2>1, <2>2
  <2>4. SaysAtMostOne
    BY <2>1, <2>3, DeliverSays
  <2>5. QED
    BY <1>0, <2>1, <2>4 DEF SaysOn
<1>4. CASE NewStream
  BY <1>0, <1>4 DEF NewStream, SaysOn
<1>5. CASE Command
  <2>1. PICK c \in Commands : Write(<<c>>)
    BY <1>5 DEF Command
  <2>2. AtMostOne(<<c>>)
    BY <2>1, CommandsAre DEF AtMostOne
  <2>3. SaysAtMostOne /\ voice' = voice
    BY <1>5, <2>1, <2>2 DEF SaysAtMostOne, Command
  <2>4. QED
    BY <1>0, <2>3 DEF SaysOn
<1>6. CASE SendVoiceData
  BY <1>0, <1>6, VoiceSpeaks DEF SaysOn
<1>7. QED
  BY <1>1, <1>2, <1>3, <1>4, <1>5, <1>6 DEF Next

LEMMA SaidNext == StreamOK /\ Said /\ [Next]_vars => Said'
<1> SUFFICES ASSUME StreamOK, Said, [Next]_vars PROVE Said'
  OBVIOUS
<1>1. SaysOn /\ channel' = channel
  BY StepSays
<1>2. CASE UNCHANGED <<asked, written, voice>>
  BY <1>1, <1>2 DEF Said, Askable, Framed
<1>3. CASE SaysAtMostOne
  <2>1. PICK cs : AtMostOne(cs) /\ Write(cs)
    BY <1>3 DEF SaysAtMostOne
  <2>2. cs \in Seq(Askable)
    BY <2>1, AtMostOneAskable
  <2>3. QED
    BY <1>1, <2>1, <2>2, SaysMore
<1>4. CASE asked' = <<>> /\ written' = <<>>
  <2>1. Framed(<<>>) = <<>>
    BY DEF Framed
  <2>2. QED
    BY <1>4, <2>1 DEF Said
<1>5. CASE \E n, i : Speaks(n, i)
  <2>1. PICK n, i : Speaks(n, i)
    BY <1>5
  <2> DEFINE data == Sound(n)
             cs == Spoken(data, i)
  <2>2. n \in Nat /\ n # 0 /\ i \in Ints /\ channel = "remote" /\ Write(cs)
    BY <2>1 DEF Speaks
  <2>3. data \in Seq(Bytes) /\ Len(data) # 0
    BY <2>2, SoundIs
  <2> HIDE DEF data
  <2>4. cs \in Seq(Payloads)
    BY <2>2, <2>3, SpokenAre
  <2> HIDE DEF cs
  <2>5. Payloads \subseteq Askable
    BY <2>2 DEF Askable
  <2>6. cs \in Seq(Askable)
    BY <2>4, <2>5
  <2>7. QED
    BY <1>1, <2>2, <2>6, SaysMore
<1>6. QED
  BY <1>1, <1>2, <1>3, <1>4, <1>5 DEF SaysOn


LEMMA FrameConveys ==
    ASSUME NEW c \in Askable
    PROVE  FrameReads(Build(c)) /\ Conveys(Fields(Build(c)), c)
<1>1. CASE channel = "remote"
  <2>1. Clear(c)
    BY <1>1, RequestsClear DEF Askable
  <2>2. PICK n \in Numbers, b \in Seq(Bytes) :
           /\ Fits(Build(c))
           /\ Fields(Build(c)) = <<BytesAre(n, LengthDelimited, b)>> /\ Understood(n, b) = c
    BY <2>1 DEF Clear
  <2> DEFINE f == BytesAre(n, LengthDelimited, b)
             fs == <<f>>
  <2>3. f.number = n /\ f.bytes = b
    BY DEF BytesAre
  <2> HIDE DEF f
  <2>4. Len(fs) = 1 /\ fs[1] = f
    OBVIOUS
  <2>5. Conveys(fs, c)
    BY <1>1, <2>2, <2>3, <2>4 DEF Conveys
  <2>6. FrameReads(Build(c))
    BY <2>2, FramesReadBack DEF Fits
  <2>7. QED
    BY <2>2, <2>5, <2>6 DEF f
<1>2. CASE channel # "remote"
  <2>1. PairingClear(c)
    BY <1>2, PairingRequestsClear DEF Askable
  <2>2. PICK n \in Numbers, b \in Seq(Bytes) :
           /\ Fields(Build(c)) = <<VarintIs(1, 2), VarintIs(2, 200), BytesAre(n, LengthDelimited, b)>>
           /\ UnderstoodPairing(n, b) = c
    BY <2>1 DEF PairingClear
  <2> DEFINE f == BytesAre(n, LengthDelimited, b)
             g == VarintIs(2, 200)
             h == VarintIs(1, 2)
             fs == <<h, g, f>>
  <2>3. f.number = n /\ f.bytes = b /\ g.varint = 200
    BY DEF BytesAre, VarintIs
  <2> HIDE DEF f, g, h
  <2>4. Len(fs) = 3 /\ fs[3] = f /\ fs[2] = g
    OBVIOUS
  <2> HIDE DEF fs
  <2>5. Conveys(fs, c)
    BY <1>2, <2>2, <2>3, <2>4 DEF Conveys
  <2>6. FrameReads(Build(c))
    BY <2>1, FramesReadBack DEF Fits, PairingClear
  <2>7. QED
    BY <2>2, <2>5, <2>6 DEF f, g, h, fs
<1>3. QED
  BY <1>1, <1>2

LEMMA SaidUnderstood == Said => ClientIsUnderstood
<1> SUFFICES ASSUME Said, NEW i \in DOMAIN written
             PROVE  LET n == VarintLength(written[i], 0)
                    IN  /\ n # 0 /\ VarintValue(written[i], 0, n) = Len(written[i]) - n
                        /\ Conveys(Fields(SubSeq(written[i], n + 1, Len(written[i]))), asked[i])
  BY DEF ClientIsUnderstood
<1> DEFINE c == asked[i]
<1>1. i \in DOMAIN asked /\ written[i] = Frame(Build(c))
  BY DEF Said, Framed
<1>2. c \in Askable
  BY <1>1 DEF Said
<1> HIDE DEF c
<1>3. FrameReads(Build(c)) /\ Conveys(Fields(Build(c)), c)
  BY <1>2, FrameConveys
<1>4. QED
  BY <1>1, <1>3 DEF FrameReads, c

\* Every frame the client writes is one frame with one message, in which a
\* Protocol Buffers library finds what the client was asked to send or answers,
\* for every builder of protocol_messages.cpp and every argument of its type.
THEOREM ClientUnderstood == Spec => []ClientIsUnderstood
<1>1. Init => StreamOK /\ Said
  BY StreamOKInit, SaidInit
<1>2. StreamOK /\ Said /\ [Next]_vars => StreamOK' /\ Said'
  BY StreamOKNext, SaidNext
<1>3. QED
  BY <1>1, <1>2, SaidUnderstood, PTL DEF Spec


-----------------------------------------------------------------------------
(* The voice *)

Silent   == PlainRequests \cup PairingRequests
Requests == Silent \cup Payloads

LEMMA SilentRequests == \A c \in Silent : c[1] # "VoicePayload" /\ SamplesIn(c) = <<>>
<1> DEFINE A == {<<k, i>> : k \in {"Configure", "SetActive", "Ping", "VoiceBegin", "VoiceEnd"}, i \in Signed}
           B == {<<"Key", i, d>> : i \in Signed, d \in Directions}
           C == {<<"Text", t, i, j>> : t \in Texts, i \in Signed, j \in Signed}
           D == {<<"AppLink", t>> : t \in Texts}
           E == {<<k, t>> : k \in {"Request", "Secret"}, t \in Texts}
           F == {<<"Options">>, <<"Configuration">>}
<1>1. Silent = A \cup B \cup C \cup D \cup E \cup F
  BY DEF Silent, PlainRequests, PairingRequests
<1>2. \A c \in A : c[1] # "VoicePayload"
  OBVIOUS
<1>3. \A c \in B : c[1] # "VoicePayload"
  OBVIOUS
<1>4. ASSUME NEW c \in C PROVE c[1] # "VoicePayload"
  <2>1. PICK t \in Texts, i \in Signed, j \in Signed : c = <<"Text", t, i, j>>
    BY <1>4, SMTT(30)
  <2>2. QED
    BY <2>1
<1>5. \A c \in D : c[1] # "VoicePayload"
  OBVIOUS
<1>6. \A c \in E : c[1] # "VoicePayload"
  OBVIOUS
<1>7. \A c \in F : c[1] # "VoicePayload"
  OBVIOUS
<1> HIDE DEF A, B, C, D, E, F
<1>8. \A c \in Silent : c[1] # "VoicePayload"
  BY <1>1, <1>2, <1>3, <1>4, <1>5, <1>6, <1>7
<1>9. QED
  BY <1>8 DEF SamplesIn

LEMMA PayloadSamples ==
    \A c \in Payloads : c[1] = "VoicePayload" /\ c[3] \in Chunks /\ SamplesIn(c) = c[3]
<1> SUFFICES ASSUME NEW c \in Payloads
             PROVE  c[1] = "VoicePayload" /\ c[3] \in Chunks /\ SamplesIn(c) = c[3]
  OBVIOUS
<1>1. PICK i \in Signed, b \in Chunks : c = <<"VoicePayload", i, b>>
  BY DEF Payloads
<1>2. c[1] = "VoicePayload" /\ c[3] = b
  BY <1>1
<1>3. QED
  BY <1>1, <1>2 DEF SamplesIn

LEMMA SamplesAre == \A c \in Requests : SamplesIn(c) \in Seq(Bytes)
<1>0. <<>> \in Seq(Bytes)
  OBVIOUS
<1>1. \A c \in Silent : SamplesIn(c) \in Seq(Bytes)
  BY <1>0, SilentRequests, Zenon
<1>2. \A c \in Payloads : SamplesIn(c) \in Seq(Bytes)
  BY PayloadSamples DEF Chunks
<1>3. QED
  BY <1>1, <1>2 DEF Requests

LEMMA JoinedSilent ==
    ASSUME NEW n \in Nat, NEW parts, \A i \in 1..n : parts[i] = <<>>
    PROVE  Joined(parts, n) = <<>>
<1> DEFINE P == {k \in Nat : k <= n => Joined(parts, k) = <<>>}
<1>1. 0 \in P
  <2>1. \A i \in 1..0 : parts[i] \in Seq(Bytes)
    OBVIOUS
  <2>2. QED
    BY <2>1, JoinedDef
<1>2. ASSUME NEW k \in Nat, k \in P PROVE k + 1 \in P
  <2> SUFFICES ASSUME k + 1 <= n PROVE Joined(parts, k + 1) = <<>>
    OBVIOUS
  <2>1. k <= n /\ k + 1 \in Nat /\ k + 1 # 0 /\ (k + 1) - 1 = k /\ k + 1 \in 1..n
    OBVIOUS
  <2>2. \A i \in 1..(k + 1) : parts[i] = <<>> /\ parts[i] \in Seq(Bytes)
    <3>1. \A i \in 1..(k + 1) : i \in 1..n
      BY <2>1
    <3>2. <<>> \in Seq(Bytes)
      OBVIOUS
    <3>3. QED
      BY <3>1, <3>2, Zenon
  <2>3. Joined(parts, k + 1) = Joined(parts, k) \o parts[k + 1]
    BY <2>1, <2>2, JoinedDef
  <2>4. Joined(parts, k) = <<>> /\ parts[k + 1] = <<>>
    BY <1>2, <2>1
  <2>5. <<>> \o <<>> = <<>>
    OBVIOUS
  <2>6. QED
    BY <2>3, <2>4, <2>5
<1> HIDE DEF P
<1>3. \A k \in Nat : k \in P
  BY <1>1, <1>2, Induction
<1>4. n \in P
  BY <1>3
<1>5. QED
  BY <1>4 DEF P

\* The first k chunks of the samples, joined; only the last of m is padded.
Covered(s, data, k, m) ==
    /\ s \in Seq(Bytes) /\ ChunkEnd(k, Len(data)) <= Len(s)
    /\ \A j \in 1..Len(s) : s[j] = IF j <= ChunkEnd(k, Len(data)) THEN data[j] ELSE 0
    /\ k < m => Len(s) = VoiceChunk * k

LEMMA CoveredNone == ASSUME NEW data \in Seq(Bytes), NEW m PROVE Covered(<<>>, data, 0, m)
<1>1. VoiceChunk * 0 = 0 /\ Len(data) \in Nat
  BY FrameAssumption
<1>2. ChunkEnd(0, Len(data)) = 0
  BY <1>1 DEF ChunkEnd
<1>3. <<>> \in Seq(Bytes) /\ Len(<<>>) = 0
  OBVIOUS
<1>4. QED
  BY <1>1, <1>2, <1>3 DEF Covered

LEMMA CoversNext ==
    ASSUME NEW data \in Seq(Bytes), Len(data) # 0, NEW k \in Nat, NEW s, NEW a,
           k < ChunkCount(Len(data)), Covered(s, data, k, ChunkCount(Len(data))),
           IsChunk(a, data, VoiceChunk * k, ChunkEnd(k + 1, Len(data)))
    PROVE  Covered(s \o a, data, k + 1, ChunkCount(Len(data)))
<1> DEFINE C == VoiceChunk
           l == Len(data)
           m == ChunkCount(l)
           p == C * k
           q == C * (k + 1)
           e == ChunkEnd(k + 1, l)
           n == Len(a)
           sa == s \o a
<1>1. l \in Nat \ {0} /\ C \in Nat \ {0} /\ m \in Nat
  BY FrameAssumption, ChunkCounts
<1>2. p \in Nat /\ q = p + C /\ q \in Nat /\ k + 1 \in Nat
  BY <1>1
<1>3. p < l /\ (k + 1 < m => q < l)
  BY <1>1, <1>2, ChunkCounts
<1>4. ChunkEnd(k, l) = p
  BY <1>3, <1>2, <1>1 DEF ChunkEnd
<1>5. e = IF q <= l THEN q ELSE l
  BY DEF ChunkEnd
<1>6. s \in Seq(Bytes) /\ Len(s) = p /\ \A j \in 1..p : s[j] = data[j]
  <2> HIDE DEF p
  <2>1. s \in Seq(Bytes) /\ Len(s) = p
    BY DEF Covered, p
  <2>2. \A j \in 1..Len(s) : s[j] = IF j <= p THEN data[j] ELSE 0
    BY <1>4 DEF Covered
  <2>3. QED
    BY <1>2, <2>1, <2>2
<1>7. /\ a \in Chunks /\ e - p <= n /\ (e - p = C => n = C)
      /\ \A j \in 1..n : a[j] = IF j <= e - p THEN data[p + j] ELSE 0
  BY DEF IsChunk
<1>8. a \in Seq(Bytes) /\ n \in Nat
  BY <1>7 DEF Chunks
<1> HIDE DEF p, q, e, n, m, C, l
<1>9. e \in Nat /\ p < e /\ (k + 1 < m => e = q /\ e - p = C)
  BY <1>1, <1>2, <1>3, <1>5
<1>10. /\ sa \in Seq(Bytes) /\ Len(sa) = p + n
       /\ \A j \in 1..(p + n) : sa[j] = IF j <= p THEN s[j] ELSE a[j - p]
  BY <1>6, <1>8, ConcatProperties DEF n
<1> HIDE DEF sa
<1>11. ASSUME NEW j \in 1..Len(sa) PROVE sa[j] = IF j <= e THEN data[j] ELSE 0
  <2>1. j \in 1..(p + n) /\ j \in Nat
    BY <1>2, <1>8, <1>10
  <2>2. CASE j <= p
    <3>1. j \in 1..p /\ j <= e
      BY <1>2, <1>9, <2>1, <2>2
    <3>2. QED
      BY <1>6, <1>10, <2>1, <2>2, <3>1
  <2>3. CASE ~(j <= p)
    <3>1. j - p \in 1..n /\ p + (j - p) = j /\ (j - p <= e - p <=> j <= e)
      BY <1>2, <1>8, <1>9, <2>1, <2>3
    <3>2. sa[j] = a[j - p]
      BY <1>10, <2>1, <2>3
    <3>3. a[j - p] = IF j - p <= e - p THEN data[p + (j - p)] ELSE 0
      BY <1>7, <3>1
    <3>4. QED
      BY <3>1, <3>2, <3>3
  <2>4. QED
    BY <2>2, <2>3
<1>12. e <= Len(sa) /\ (k + 1 < m => Len(sa) = q)
  BY <1>1, <1>2, <1>7, <1>8, <1>9, <1>10
<1>13. QED
  BY <1>10, <1>11, <1>12 DEF Covered, e, l, m, q, C, sa

Sounds(v, all) ==
    Len(v) <= Len(all) /\ \A k \in DOMAIN all : all[k] = IF k <= Len(v) THEN v[k] ELSE 0

\* The chunks of some samples, after silence.
IsVoice(parts, data, n) ==
    /\ n \in Nat /\ \A i \in 1..n : parts[i] = <<>>
    /\ \A i \in 1..ChunkCount(Len(data)) : parts[n + i] = VoiceChunks(data)[i]

LEMMA VoiceSounds ==
    ASSUME NEW data \in Seq(Bytes), Len(data) # 0, NEW parts, NEW n, IsVoice(parts, data, n)
    PROVE  Sounds(data, Joined(parts, n + ChunkCount(Len(data))))
<1> DEFINE l == Len(data)
           m == ChunkCount(l)
           ch == VoiceChunks(data)
           P == {k \in Nat : k <= m => Covered(Joined(parts, n + k), data, k, m)}
<1>1. l \in Nat \ {0} /\ m \in Nat /\ l <= VoiceChunk * m
  BY ChunkCounts
<1>2. n \in Nat /\ (\A i \in 1..n : parts[i] = <<>>) /\ \A i \in 1..m : parts[n + i] = ch[i]
  BY DEF IsVoice
<1>3. \A i \in 1..m : IsChunk(ch[i], data, VoiceChunk * (i - 1), ChunkEnd(i, l))
  BY ChunksAre
<1>4. \A i \in 1..m : ch[i] \in Seq(Bytes)
  BY <1>3 DEF IsChunk, Chunks
<1> HIDE DEF ch
<1>5. ASSUME NEW i \in 1..(n + m) PROVE parts[i] \in Seq(Bytes)
  <2> HIDE DEF m
  <2>1. CASE i <= n
    <3>1. i \in 1..n
      BY <1>2, <2>1
    <3>2. <<>> \in Seq(Bytes)
      OBVIOUS
    <3>3. QED
      BY <1>2, <3>1, <3>2, Zenon
  <2>2. CASE ~(i <= n)
    <3>1. i - n \in 1..m /\ n + (i - n) = i
      BY <1>1, <1>2, <2>2
    <3>2. parts[n + (i - n)] \in Seq(Bytes)
      BY <1>2, <1>4, <3>1
    <3>3. QED
      BY <3>1, <3>2
  <2>3. QED
    BY <2>1, <2>2
<1>6. 0 \in P
  <2>1. Joined(parts, n) = <<>>
    BY <1>2, JoinedSilent
  <2>2. Covered(<<>>, data, 0, m)
    BY CoveredNone
  <2>3. n + 0 = n
    BY <1>2
  <2> HIDE DEF m
  <2>4. QED
    BY <2>1, <2>2, <2>3
<1>7. ASSUME NEW k \in Nat, k \in P PROVE k + 1 \in P
  <2> SUFFICES ASSUME k + 1 <= m PROVE Covered(Joined(parts, n + (k + 1)), data, k + 1, m)
    OBVIOUS
  <2> DEFINE j == n + (k + 1)
  <2>1. /\ k < m /\ k <= m /\ k + 1 \in 1..m /\ (k + 1) - 1 = k
        /\ j \in Nat /\ j # 0 /\ j - 1 = n + k /\ j <= n + m
    <3> HIDE DEF m
    <3>1. QED
      BY <1>1, <1>2
  <2>2. Covered(Joined(parts, n + k), data, k, m)
    BY <1>7, <2>1
  <2>3. IsChunk(ch[k + 1], data, VoiceChunk * ((k + 1) - 1), ChunkEnd(k + 1, l))
    BY <1>3, <2>1
  <2>4. IsChunk(ch[k + 1], data, VoiceChunk * k, ChunkEnd(k + 1, l))
    BY <2>1, <2>3
  <2>5. Joined(parts, j) = Joined(parts, j - 1) \o parts[j]
    <3>1. \A i \in 1..j : parts[i] \in Seq(Bytes)
      <4> HIDE DEF j, m
      <4>1. \A i \in 1..j : i \in 1..(n + m)
        BY <1>1, <1>2, <2>1
      <4>2. QED
        BY <1>5, <4>1
    <3> HIDE DEF j
    <3>2. QED
      BY <2>1, <3>1, JoinedDef
  <2>6. parts[j] = ch[k + 1]
    BY <1>2, <2>1
  <2>7. Joined(parts, j) = Joined(parts, n + k) \o ch[k + 1]
    BY <2>1, <2>5, <2>6
  <2> HIDE DEF j
  <2>8. Covered(Joined(parts, n + k) \o ch[k + 1], data, k + 1, m)
    BY <2>1, <2>2, <2>4, CoversNext
  <2>9. QED
    BY <2>7, <2>8 DEF j
<1> HIDE DEF P
<1>8. \A k \in Nat : k \in P
  BY <1>6, <1>7, Induction
<1>9. Covered(Joined(parts, n + m), data, m, m)
  <2>1. m \in P
    BY <1>1, <1>8
  <2>2. m <= m
    BY <1>1
  <2>3. QED
    BY <2>1, <2>2 DEF P
<1>10. ChunkEnd(m, l) = l
  <2> DEFINE x == VoiceChunk * m
  <2>1. x \in Nat /\ l <= x /\ ChunkEnd(m, l) = IF x <= l THEN x ELSE l
    BY <1>1, FrameAssumption DEF ChunkEnd
  <2> HIDE DEF x, m
  <2>2. QED
    BY <1>1, <2>1
<1> DEFINE all == Joined(parts, n + m)
<1>11. /\ all \in Seq(Bytes) /\ l <= Len(all)
       /\ \A i \in 1..Len(all) : all[i] = IF i <= l THEN data[i] ELSE 0
  BY <1>9, <1>10 DEF Covered
<1> HIDE DEF all
<1>12. Sounds(data, all)
  BY <1>11 DEF Sounds
<1>13. QED
  BY <1>12 DEF all


\* The samples asked for are those of the voice, from one call of
\* sendVoiceData, after which the television only listens.
Heard ==
    /\ voice \in Seq(Bytes) /\ (voice # <<>> => tv = "quiet")
    /\ voice = <<>> => asked \in Seq(Silent)
    /\ Sounds(voice, Samples(asked, Len(asked)))

LEMMA AskableAre == Askable \subseteq Requests /\ Answerable \subseteq Silent
BY DEF Askable, Answerable, Requests, Silent

LEMMA SoundsNone == Sounds(<<>>, Samples(<<>>, Len(<<>>)))
<1>1. Samples(<<>>, 0) = <<>>
  <2> DEFINE parts == [i \in 1..0 |-> SamplesIn(<<>>[i])]
  <2>1. \A i \in 1..0 : parts[i] = <<>>
    OBVIOUS
  <2> HIDE DEF parts
  <2>2. Joined(parts, 0) = <<>>
    BY <2>1, JoinedSilent
  <2>3. QED
    BY <2>2 DEF Samples, parts
<1>2. Len(<<>>) = 0
  OBVIOUS
<1>3. QED
  BY <1>1, <1>2 DEF Sounds

LEMMA SamplesMore ==
    ASSUME NEW log \in Seq(Requests), NEW c \in Silent
    PROVE  Samples(log \o <<c>>, Len(log \o <<c>>)) = Samples(log, Len(log))
<1> DEFINE n == Len(log)
           more == log \o <<c>>
           t == [i \in 1..n |-> SamplesIn(log[i])]
           u == [i \in 1..(n + 1) |-> SamplesIn(more[i])]
<1>1. n \in Nat /\ \A i \in 1..n : log[i] \in Requests
  OBVIOUS
<1>2. /\ Len(more) = n + 1 /\ more[n + 1] = c
      /\ \A i \in 1..n : more[i] = log[i]
  <2>1. c \in Requests
    BY DEF Requests
  <2>2. QED
    BY <1>1, <2>1
<1>3. \A i \in 1..n : i \in 1..(n + 1)
  BY <1>1
<1>4. n + 1 \in 1..(n + 1) /\ (n + 1) - 1 = n /\ n + 1 # 0 /\ n + 1 \in Nat
  BY <1>1
<1> HIDE DEF n, more
<1>5. /\ \A i \in 1..n : t[i] = SamplesIn(log[i])
      /\ \A i \in 1..(n + 1) : u[i] = SamplesIn(more[i])
  OBVIOUS
<1> HIDE DEF t, u
<1>6. \A i \in 1..n : t[i] \in Seq(Bytes) /\ t[i] = u[i]
  BY <1>1, <1>2, <1>3, <1>5, SamplesAre, Zenon
<1>7. u[n + 1] = <<>>
  BY <1>2, <1>4, <1>5, SilentRequests
<1>8. \A i \in 1..(n + 1) : u[i] \in Seq(Bytes)
  <2>1. <<>> \in Seq(Bytes)
    OBVIOUS
  <2>2. \A i \in 1..(n + 1) : i = n + 1 \/ i \in 1..n
    BY <1>1
  <2>3. u[n + 1] \in Seq(Bytes)
    BY <1>7, <2>1
  <2>4. \A i \in 1..n : u[i] \in Seq(Bytes)
    BY <1>6
  <2>5. QED
    BY <2>2, <2>3, <2>4, Zenon
<1>9. Joined(u, n + 1) = Joined(u, n) \o <<>>
  <2> DEFINE k == n + 1
  <2>1. k \in Nat /\ k # 0 /\ k - 1 = n /\ \A i \in 1..k : u[i] \in Seq(Bytes)
    BY <1>4, <1>8
  <2> HIDE DEF k
  <2>2. Joined(u, k) = Joined(u, k - 1) \o u[k]
    BY <2>1, JoinedDef
  <2>3. QED
    BY <1>7, <2>1, <2>2 DEF k
<1>10. Joined(t, n) = Joined(u, n) /\ Joined(u, n) \in Seq(Bytes)
  <2>1. \A i \in 1..n : u[i] \in Seq(Bytes)
    BY <1>6
  <2>2. Joined(u, n) \in Seq(Bytes)
    BY <1>1, <2>1, JoinedDef
  <2>3. Joined(t, n) = Joined(u, n)
    BY <1>1, <1>6, JoinedFrame
  <2>4. QED
    BY <2>2, <2>3
<1>11. Joined(u, n) \o <<>> = Joined(u, n)
  BY <1>10, ConcatEmptySeq
<1>12. Joined(u, n + 1) = Joined(t, n)
  BY <1>9, <1>10, <1>11
<1>13. QED
  BY <1>2, <1>12 DEF Samples, t, u, n, more

LEMMA SamplesSpoken ==
    ASSUME NEW log \in Seq(Silent), NEW data \in Seq(Bytes), Len(data) # 0, NEW i \in Ints
    PROVE  LET all == log \o Spoken(data, i)
           IN  Sounds(data, Samples(all, Len(all)))
<1> DEFINE n == Len(log)
           m == ChunkCount(Len(data))
           ch == VoiceChunks(data)
           s == Spoken(data, i)
           all == log \o s
           parts == [j \in 1..(n + m) |-> SamplesIn(all[j])]
<1>1. n \in Nat /\ \A j \in 1..n : log[j] \in Silent
  OBVIOUS
<1>2. m \in Nat
  <2>1. Len(data) \in Nat \ {0}
    OBVIOUS
  <2>2. QED
    BY <2>1, ChunkCounts
<1>3. s \in Seq(Payloads) /\ Len(s) = m /\ \A k \in 1..m : s[k] = <<"VoicePayload", i, ch[k]>>
  BY SpokenAre
<1>4. \A k \in 1..m : SamplesIn(s[k]) = ch[k]
  <2> HIDE DEF s, ch, m
  <2>1. ASSUME NEW k \in 1..m PROVE SamplesIn(s[k]) = ch[k]
    <3>1. s[k][1] = "VoicePayload" /\ s[k][3] = ch[k]
      BY <1>3
    <3>2. QED
      BY <3>1 DEF SamplesIn
  <2>2. QED
    BY <2>1
<1> HIDE DEF s, n, m, ch
<1>5. /\ Len(all) = n + m
      /\ \A j \in 1..(n + m) : all[j] = IF j <= n THEN log[j] ELSE s[j - n]
  <2>1. Silent \subseteq Requests /\ Payloads \subseteq Requests
    BY DEF Requests
  <2>2. log \in Seq(Requests) /\ s \in Seq(Requests)
    BY <1>3, <2>1
  <2>3. QED
    BY <1>3, <2>2, ConcatProperties DEF n
<1> HIDE DEF all
<1>6. ASSUME NEW j \in 1..n PROVE parts[j] = <<>>
  <2>1. j \in 1..(n + m) /\ j <= n
    BY <1>1, <1>2
  <2>2. parts[j] = SamplesIn(log[j])
    BY <1>5, <2>1
  <2>3. QED
    BY <1>1, <2>2, SilentRequests
<1>7. ASSUME NEW k \in 1..m PROVE parts[n + k] = ch[k]
  <2>1. n + k \in 1..(n + m) /\ ~(n + k <= n) /\ (n + k) - n = k
    BY <1>1, <1>2
  <2>2. parts[n + k] = SamplesIn(s[k])
    BY <1>5, <2>1
  <2>3. QED
    BY <1>4, <2>2
<1> HIDE DEF parts
<1>8. IsVoice(parts, data, n)
  BY <1>1, <1>6, <1>7 DEF IsVoice, m, ch
<1>9. Sounds(data, Joined(parts, n + ChunkCount(Len(data))))
  BY <1>8, VoiceSounds
<1>10. QED
  BY <1>5, <1>9 DEF Samples, parts, all, s, m

LEMMA HeardInit == Init => Heard
<1> SUFFICES ASSUME Init PROVE Heard
  OBVIOUS
<1>1. asked = <<>> /\ voice = <<>>
  BY DEF Init
<1>2. QED
  BY <1>1, SoundsNone DEF Heard

LEMMA HeardNext == StreamOK /\ Said /\ Heard /\ [Next]_vars => Heard'
<1> SUFFICES ASSUME StreamOK, Said, Heard, [Next]_vars PROVE Heard'
  OBVIOUS
<1>1. SaysOn /\ tv' = tv
  BY StepSays
<1>2. /\ voice \in Seq(Bytes) /\ (voice # <<>> => tv = "quiet")
      /\ voice = <<>> => asked \in Seq(Silent)
      /\ Sounds(voice, Samples(asked, Len(asked)))
  BY DEF Heard
<1>3. CASE UNCHANGED <<asked, voice>>
  BY <1>1, <1>2, <1>3 DEF Heard
<1>4. CASE SaysAtMostOne /\ UNCHANGED voice
  <2>1. PICK cs : AtMostOne(cs) /\ Write(cs)
    BY <1>4 DEF SaysAtMostOne
  <2>2. asked' = asked \o cs /\ asked \in Seq(Requests)
    <3>1. asked \in Seq(Askable) /\ asked' = asked \o cs
      BY <2>1 DEF Said, Write
    <3>2. QED
      BY <3>1, AskableAre
  <2>3. CASE cs = <<>>
    <3>1. asked' = asked
      BY <2>2, <2>3, ConcatEmptySeq
    <3>2. QED
      BY <1>1, <1>2, <1>4, <3>1 DEF Heard
  <2>4. CASE cs # <<>>
    <3>1. PICK c \in Answerable : cs = <<c>>
      BY <2>1, <2>4 DEF AtMostOne
    <3>2. c \in Silent
      BY <3>1, AskableAre
    <3>3. Samples(asked', Len(asked')) = Samples(asked, Len(asked))
      BY <2>2, <3>1, <3>2, SamplesMore
    <3>4. voice = <<>> => asked' \in Seq(Silent)
      <4> SUFFICES ASSUME voice = <<>> PROVE asked' \in Seq(Silent)
        OBVIOUS
      <4>1. asked \in Seq(Silent) /\ <<c>> \in Seq(Silent)
        BY <1>2, <3>2
      <4>2. QED
        BY <2>2, <3>1, <4>1, ConcatProperties
    <3>5. QED
      BY <1>1, <1>2, <1>4, <3>3, <3>4 DEF Heard
  <2>5. QED
    BY <2>3, <2>4
<1>5. CASE asked' = <<>> /\ tv = "honest" /\ UNCHANGED voice
  <2>1. voice = <<>>
    BY <1>2, <1>5
  <2>2. voice' = <<>> /\ asked' \in Seq(Silent)
    BY <1>5, <2>1
  <2>3. Sounds(voice', Samples(asked', Len(asked')))
    BY <1>5, <2>2, SoundsNone
  <2>4. QED
    BY <2>2, <2>3 DEF Heard
<1>6. CASE \E n, i : Speaks(n, i)
  <2>1. PICK n, i : Speaks(n, i)
    BY <1>6
  <2>2. PICK data : data = Sound(n)
    OBVIOUS
  <2>3. /\ n \in Nat /\ n # 0 /\ i \in Ints /\ tv = "quiet" /\ voice = <<>>
        /\ voice' = data /\ asked' = asked \o Spoken(data, i)
    BY <2>1, <2>2 DEF Speaks, Write
  <2>4. data \in Seq(Bytes) /\ Len(data) = n
    BY <2>2, <2>3, SoundIs
  <2>5. asked \in Seq(Silent)
    BY <1>2, <2>3
  <2>6. Sounds(data, Samples(asked', Len(asked')))
    BY <2>3, <2>4, <2>5, SamplesSpoken
  <2>7. data # <<>>
    BY <2>3, <2>4
  <2>8. QED
    BY <1>1, <2>3, <2>4, <2>6, <2>7 DEF Heard
<1>7. QED
  BY <1>1, <1>3, <1>4, <1>5, <1>6 DEF SaysOn

LEMMA HeardArrives == Said /\ Heard => VoiceArrivesWhole
<1> SUFFICES ASSUME Said, Heard PROVE VoiceArrivesWhole
  OBVIOUS
<1>1. Sounds(voice, Samples(asked, Len(asked)))
  BY DEF Heard
<1>2. ASSUME NEW i \in DOMAIN asked, asked[i][1] = "VoicePayload"
      PROVE  Len(asked[i][3]) \in VoiceMinimum..VoiceChunk
  <2> DEFINE c == asked[i]
  <2>1. c \in Askable
    BY <1>2 DEF Said
  <2>2. c \in Requests
    BY <2>1, AskableAre
  <2> HIDE DEF c
  <2>3. c[1] = "VoicePayload"
    BY <1>2 DEF c
  <2>4. c \in Payloads
    BY <2>2, <2>3, SilentRequests DEF Requests
  <2>5. c[3] \in Chunks
    BY <2>4, PayloadSamples
  <2>6. QED
    BY <2>5 DEF Chunks, c
<1>3. QED
  BY <1>1, <1>2 DEF VoiceArrivesWhole, Sounds

\* However many samples sendVoiceData is given, its chunks are within the limits
\* and carry all of them, in order, with nothing but silence after them.
THEOREM VoiceIsWhole == Spec => []VoiceArrivesWhole
<1>1. Init => StreamOK /\ Said /\ Heard
  BY StreamOKInit, SaidInit, HeardInit
<1>2. StreamOK /\ Said /\ Heard /\ [Next]_vars => StreamOK' /\ Said' /\ Heard'
  BY StreamOKNext, SaidNext, HeardNext
<1>3. QED
  BY <1>1, <1>2, HeardArrives, PTL DEF Spec

=============================================================================
