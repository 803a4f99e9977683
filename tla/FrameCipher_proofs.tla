------------------------- MODULE FrameCipher_proofs -------------------------
(***************************************************************************)
(* The cipher undoes itself: what it turns, masks and scrambles comes back *)
(* byte for byte, for every frame and every length.                        *)
(***************************************************************************)
EXTENDS FrameCipher, TLAPS, SequenceTheorems, WellFoundedInduction

(* Induction: a set of numbers that has 0 and every successor has all.     *)
LEMMA NatSetInduction ==
  ASSUME NEW P, 0 \in P, \A n \in Nat : n \in P => n + 1 \in P
  PROVE  Nat \subseteq P
<1> DEFINE Bad == Nat \ P
<1>1. SUFFICES ASSUME Bad # {} PROVE FALSE
  OBVIOUS
<1>2. PICK n \in Bad : \A m \in Bad : ~ (<<m, n>> \in OpToRel(<, Nat))
  <2>1. Bad \subseteq Nat
    OBVIOUS
  <2>. HIDE DEF Bad
  <2>. QED
    BY <1>1, <2>1, WFMin, NatLessThanWellFounded, Zenon
<1>3. n - 1 \in Nat /\ n - 1 < n /\ (n - 1) + 1 = n
  OBVIOUS
<1>4. <<n - 1, n>> \in OpToRel(<, Nat)
  BY <1>3 DEF OpToRel
<1>. QED
  BY <1>2, <1>3, <1>4

LEMMA BytesAreNat == \A b \in Byte : b \in Nat
  BY DEF Byte

-----------------------------------------------------------------------------
(* Sequences, joined and cut. *)

LEMMA Joined ==
  ASSUME NEW S, NEW s \in Seq(S), NEW t \in Seq(S)
  PROVE  /\ Len(s \o t) = Len(s) + Len(t)
         /\ \A i \in 1..Len(s) : (s \o t)[i] = s[i]
         /\ \A i \in 1..Len(t) : (s \o t)[i + Len(s)] = t[i]
<1>1. Len(s) \in Nat /\ Len(t) \in Nat
  BY LenProperties
<1>2. /\ s \o t \in Seq(S) /\ Len(s \o t) = Len(s) + Len(t)
      /\ \A i \in 1..(Len(s) + Len(t)) :
           (s \o t)[i] = IF i <= Len(s) THEN s[i] ELSE t[i - Len(s)]
  BY ConcatProperties
<1>3. ASSUME NEW i \in 1..Len(s) PROVE (s \o t)[i] = s[i]
  BY <1>1, <1>2
<1>4. ASSUME NEW i \in 1..Len(t) PROVE (s \o t)[i + Len(s)] = t[i]
  <2> DEFINE k == i + Len(s)
  <2>1. k \in 1..(Len(s) + Len(t)) /\ ~(k <= Len(s)) /\ k - Len(s) = i
    BY <1>1
  <2>. HIDE DEF k
  <2>2. (s \o t)[k] = t[k - Len(s)]
    BY <1>2, <2>1
  <2>. QED
    BY <2>1, <2>2 DEF k
<1>. QED
  BY <1>2, <1>3, <1>4

LEMMA BytesJoined ==
  \A s, t \in Seq(Byte) :
    /\ Len(s \o t) = Len(s) + Len(t)
    /\ \A i \in 1..Len(s) : (s \o t)[i] = s[i]
    /\ \A i \in 1..Len(t) : (s \o t)[i + Len(s)] = t[i]
BY Joined

LEMMA PieceOf ==
  ASSUME NEW S, NEW s \in Seq(S), NEW m \in Nat, NEW n \in Nat, m + n <= Len(s)
  PROVE  LET t == SubSeq(s, m + 1, m + n)
         IN  t \in Seq(S) /\ Len(t) = n /\ \A i \in 1..n : t[i] = s[i + m]
<1>1. Len(s) \in Nat
  BY LenProperties
<1>2. \A i \in (m + 1)..(m + n) : s[i] \in S
  BY <1>1, ElementOfSeq
<1>3. /\ SubSeq(s, m + 1, m + n) \in Seq(S)
      /\ Len(SubSeq(s, m + 1, m + n)) = IF m + 1 <= m + n THEN m + n - (m + 1) + 1 ELSE 0
      /\ \A i \in 1..(m + n - (m + 1) + 1) : SubSeq(s, m + 1, m + n)[i] = s[m + 1 + i - 1]
  BY <1>2, SubSeqProperties
<1>4. \A i \in Nat : m + 1 + i - 1 = i + m
  OBVIOUS
<1>5. m + n - (m + 1) + 1 = n /\ (IF m + 1 <= m + n THEN n ELSE 0) = n
  OBVIOUS
<1>6. ASSUME NEW i \in 1..n PROVE SubSeq(s, m + 1, m + n)[i] = s[i + m]
  BY <1>3, <1>4, <1>5
<1>. QED
  BY <1>3, <1>5, <1>6

-----------------------------------------------------------------------------
(* Quotients. *)

LEMMA DivisionParts ==
  ASSUME NEW n \in Nat, NEW d \in Nat \ {0}
  PROVE  /\ n \div d \in Nat /\ n % d \in 0..(d - 1)
         /\ n = d * (n \div d) + (n % d)
<1>1. n \div d \in Int /\ n % d \in 0..(d - 1) /\ n = d * (n \div d) + (n % d)
  OBVIOUS
<1>2. n \div d >= 0
  OBVIOUS
<1>. QED
  BY <1>1, <1>2

LEMMA WholeIsParts ==
  ASSUME NEW n \in Nat, NEW d \in Nat \ {0}
  PROVE  /\ n \div d \in Nat /\ n % d \in Nat
         /\ (n % d) + (n \div d) * d = n /\ (n \div d) * d + (n % d) = n
<1>1. n \div d \in Nat /\ n % d \in 0..(d - 1) /\ n = d * (n \div d) + (n % d)
  BY DivisionParts
<1>2. ASSUME NEW q \in Nat, NEW r \in Nat, n = d * q + r
      PROVE  r + q * d = n /\ q * d + r = n
  BY <1>2
<1>. QED
  BY <1>1, <1>2

LEMMA ProductKeepsOrder ==
  ASSUME NEW a \in Int, NEW b \in Int, NEW d \in Nat, a <= b
  PROVE  d * a \in Int /\ d * b \in Int /\ d * a <= d * b
OBVIOUS

LEMMA ProductLeavesRoom ==
  ASSUME NEW a \in Nat, NEW b \in Nat, NEW d \in Nat, a < b
  PROVE  d * a \in Nat /\ d * b \in Nat /\ d * a + d <= d * b
<1>1. d * (a + 1) <= d * b
  BY ProductKeepsOrder
<1>2. d * (a + 1) = d * a + d
  OBVIOUS
<1>3. d * a \in Nat /\ d * b \in Nat
  OBVIOUS
<1>. QED
  BY <1>1, <1>2, <1>3

LEMMA DivisionIs ==
  ASSUME NEW d \in Nat \ {0}, NEW q \in Nat, NEW r \in 0..(d - 1)
  PROVE  (d * q + r) \div d = q /\ (d * q + r) % d = r
<1> DEFINE n == d * q + r
           p == n \div d
           s == n % d
<1>1. n \in Nat /\ p \in Nat /\ s \in 0..(d - 1) /\ n = d * p + s
  <2>1. n \in Nat
    OBVIOUS
  <2>. HIDE DEF n
  <2>. QED
    BY <2>1, DivisionParts
<1>2. \A a, b \in Nat : a < b => d * a \in Nat /\ d * b \in Nat /\ d * a + d <= d * b
  BY ProductLeavesRoom
<1>3. d * p \in Nat /\ d * q \in Nat /\ d * q + r = d * p + s
  BY <1>1
<1>. HIDE DEF n, p, s
<1>4. ~(p < q)
  BY <1>1, <1>2, <1>3
<1>5. ~(q < p)
  BY <1>1, <1>2, <1>3
<1>6. p = q
  BY <1>1, <1>4, <1>5
<1>7. s = r
  BY <1>1, <1>3, <1>6
<1>. QED
  BY <1>6, <1>7 DEF n, p, s

Half == {n \in Nat : n <= 65535}

(* A word is its two bytes. *)
LEMMA WordParts ==
  /\ \A x \in Half : x \div 256 \in Byte /\ x % 256 \in Byte /\ x = 256 * (x \div 256) + (x % 256)
  /\ \A h, l \in Byte : /\ 256 * h + l \in Half
                        /\ (256 * h + l) \div 256 = h /\ (256 * h + l) % 256 = l
<1>1. ASSUME NEW x \in Half
      PROVE  /\ x \div 256 \in Byte /\ x % 256 \in Byte
             /\ x = 256 * (x \div 256) + (x % 256)
  <2> DEFINE q == x \div 256
             r == x % 256
  <2>1. x \in Nat /\ x <= 65535
    BY DEF Half
  <2>2. q \in Nat /\ r \in 0..255 /\ x = 256 * q + r
    BY <2>1, DivisionParts
  <2>. HIDE DEF q, r
  <2>3. r \in Nat /\ r <= 255
    BY <2>2
  <2>4. q <= 255
    BY <2>1, <2>2, <2>3
  <2>. QED
    BY <2>2, <2>4 DEF Byte, q, r
<1>2. ASSUME NEW h \in Byte, NEW l \in Byte
      PROVE  256 * h + l \in Half
  <2>1. h \in Nat /\ h <= 255 /\ l \in Nat /\ l <= 255
    BY DEF Byte
  <2> DEFINE w == 256 * h + l
  <2>2. w \in Nat /\ w <= 65535
    BY <2>1
  <2>. HIDE DEF w
  <2>3. w \in Half
    BY <2>2 DEF Half
  <2>. QED
    BY <2>3 DEF w
<1>3. ASSUME NEW h \in Byte, NEW l \in Byte
      PROVE  (256 * h + l) \div 256 = h /\ (256 * h + l) % 256 = l
  BY DivisionIs DEF Byte
<1>. QED
  BY <1>1, <1>2, <1>3

-----------------------------------------------------------------------------
(* Exclusive or. *)

LEMMA HalvesUndo ==
  ASSUME NEW a \in 0..15, NEW b \in 0..15
  PROVE  /\ Halves[a][b] \in 0..15
         /\ Halves[Halves[a][b]][b] = a
         /\ Halves[a][b] = Halves[b][a]
<1> DEFINE X(x, y) == 8 * (((x \div 8) + (y \div 8)) % 2) + 4 * (((x \div 4) + (y \div 4)) % 2)
                        + 2 * (((x \div 2) + (y \div 2)) % 2) + ((x + y) % 2)
<1>1. \A x, y \in 0..15 : Halves[x][y] = X(x, y)
  BY DEF Halves
<1>2. X(a, b) \in 0..15 /\ X(a, b) = X(b, a)
  OBVIOUS
<1>3. X(X(a, b), b) = a
  BY SMTT(120)
<1>. QED
  BY <1>1, <1>2, <1>3, SMTT(60)

LEMMA Xor8Undo ==
  ASSUME NEW a \in Byte, NEW b \in Byte
  PROVE  /\ Xor8(a, b) \in Byte
         /\ Xor8(Xor8(a, b), b) = a
         /\ Xor8(a, b) = Xor8(b, a)
<1> DEFINE ah == a \div 16   al == a % 16   bh == b \div 16   bl == b % 16
<1>1. ah \in 0..15 /\ al \in 0..15 /\ bh \in 0..15 /\ bl \in 0..15 /\ a = 16 * ah + al
  BY DEF Byte
<1>2. Xor8(a, b) = 16 * Halves[ah][bh] + Halves[al][bl]
  BY DEF Xor8
<1>3. Xor8(b, a) = 16 * Halves[bh][ah] + Halves[bl][al]
  BY DEF Xor8
<1>4. /\ Halves[ah][bh] \in 0..15 /\ Halves[Halves[ah][bh]][bh] = ah
      /\ Halves[ah][bh] = Halves[bh][ah]
  BY <1>1, HalvesUndo, ZenonT(60)
<1>5. /\ Halves[al][bl] \in 0..15 /\ Halves[Halves[al][bl]][bl] = al
      /\ Halves[al][bl] = Halves[bl][al]
  BY <1>1, HalvesUndo, ZenonT(60)
<1>6. /\ Xor8(a, b) \in 0..255
      /\ Xor8(a, b) \div 16 = Halves[ah][bh] /\ Xor8(a, b) % 16 = Halves[al][bl]
  <2>1. \A h, l \in 0..15 :
           16 * h + l \in 0..255 /\ (16 * h + l) \div 16 = h /\ (16 * h + l) % 16 = l
    OBVIOUS
  <2>2. Halves[ah][bh] \in 0..15 /\ Halves[al][bl] \in 0..15
    BY <1>4, <1>5
  <2>. HIDE DEF ah, al, bh, bl
  <2>3. /\ 16 * Halves[ah][bh] + Halves[al][bl] \in 0..255
        /\ (16 * Halves[ah][bh] + Halves[al][bl]) \div 16 = Halves[ah][bh]
        /\ (16 * Halves[ah][bh] + Halves[al][bl]) % 16 = Halves[al][bl]
    BY <2>1, <2>2, SMTT(60)
  <2>. QED
    BY <1>2, <2>3
<1>7. Xor8(Xor8(a, b), b) = 16 * Halves[Halves[ah][bh]][bh] + Halves[Halves[al][bl]][bl]
  BY <1>6 DEF Xor8
<1>. HIDE DEF ah, al, bh, bl
<1>. QED
  BY <1>1, <1>2, <1>3, <1>4, <1>5, <1>6, <1>7 DEF Byte

LEMMA Xor16Undo ==
  ASSUME NEW a \in Half, NEW b \in Half
  PROVE  Xor16(a, b) \in Half /\ Xor16(Xor16(a, b), b) = a
<1> DEFINE ah == a \div 256   al == a % 256   bh == b \div 256   bl == b % 256
<1>1. ah \in Byte /\ al \in Byte /\ a = 256 * ah + al
  BY WordParts
<1>1b. bh \in Byte /\ bl \in Byte
  BY WordParts
<1>2. Xor16(a, b) = 256 * Xor8(ah, bh) + Xor8(al, bl)
  BY DEF Xor16
<1>3. /\ Xor8(ah, bh) \in Byte /\ Xor8(Xor8(ah, bh), bh) = ah
      /\ Xor8(al, bl) \in Byte /\ Xor8(Xor8(al, bl), bl) = al
  BY <1>1, <1>1b, Xor8Undo
<1>4. /\ Xor16(a, b) \in Half
      /\ Xor16(a, b) \div 256 = Xor8(ah, bh) /\ Xor16(a, b) % 256 = Xor8(al, bl)
  BY <1>2, <1>3, WordParts
<1>5. Xor16(Xor16(a, b), b) = 256 * Xor8(Xor8(ah, bh), bh) + Xor8(Xor8(al, bl), bl)
  BY <1>4 DEF Xor16
<1>. HIDE DEF ah, al, bh, bl
<1>. QED
  BY <1>1, <1>3, <1>4, <1>5

-----------------------------------------------------------------------------
(* Rotations. *)

(* The two parts of a number, put together the other way round. *)
LEMMA PartsSwap ==
  ASSUME NEW low \in Nat \ {0}, NEW high \in Nat \ {0},
         NEW x \in 0..(low * high - 1), NEW y \in 0..(low * high - 1)
  PROVE  LET turned == (x % high) * low + (y \div high)
         IN  /\ turned \in 0..(low * high - 1)
             /\ turned \div low = x % high
             /\ turned % low = y \div high
<1> DEFINE q == y \div high
           r == x % high
           e == low * r
           f == high * q
           m == low * high
<1>1. x \in Nat /\ y \in Nat /\ y <= m - 1 /\ m \in Nat
  OBVIOUS
<1>2. q \in Nat /\ f <= y /\ f \in Nat
  BY <1>1, DivisionParts
<1>3. r \in 0..(high - 1)
  BY <1>1, DivisionParts
<1>4. q < low
  <2>1. low <= q => high * low <= f
    BY <1>2, ProductKeepsOrder
  <2>2. high * low = m
    OBVIOUS
  <2>. HIDE DEF q, f, m
  <2>. QED
    BY <1>1, <1>2, <2>1, <2>2
<1>5. e \in Nat /\ e + low <= m
  <2>1. r \in Nat /\ r < high
    BY <1>3
  <2>. HIDE DEF r
  <2>. QED
    BY <2>1, ProductLeavesRoom
<1>6. r * low = e
  <2>1. r \in Nat
    BY <1>3
  <2>. HIDE DEF r
  <2>. QED
    BY <2>1
<1>7. (e + q) \div low = r /\ (e + q) % low = q
  <2>1. r \in Nat /\ q \in 0..(low - 1)
    BY <1>2, <1>3, <1>4
  <2>. HIDE DEF q, r
  <2>. QED
    BY <2>1, DivisionIs
<1>8. e + q \in 0..(m - 1)
  <2>. HIDE DEF q, e, m
  <2>. QED
    BY <1>1, <1>2, <1>4, <1>5
<1>9. (x % high) * low + (y \div high) = e + q
  BY <1>6
<1>. QED
  BY <1>7, <1>8, <1>9

LEMMA PowersOfTwo ==
  ASSUME NEW n \in Nat
  PROVE  LET low == 2^(n % 8)   high == 2^(8 - (n % 8))
         IN  \/ (low = 1 /\ high = 256)  \/ (low = 2 /\ high = 128)
             \/ (low = 4 /\ high = 64)   \/ (low = 8 /\ high = 32)
             \/ (low = 16 /\ high = 16)  \/ (low = 32 /\ high = 8)
             \/ (low = 64 /\ high = 4)   \/ (low = 128 /\ high = 2)
<1> DEFINE m == n % 8
<1>1. /\ 2^0 = 1 /\ 2^1 = 2 /\ 2^2 = 4 /\ 2^3 = 8 /\ 2^4 = 16 /\ 2^5 = 32 /\ 2^6 = 64
      /\ 2^7 = 128 /\ 2^8 = 256
  BY SMT
<1>2. \/ (m = 0 /\ 8 - m = 8) \/ (m = 1 /\ 8 - m = 7) \/ (m = 2 /\ 8 - m = 6)
      \/ (m = 3 /\ 8 - m = 5) \/ (m = 4 /\ 8 - m = 4) \/ (m = 5 /\ 8 - m = 3)
      \/ (m = 6 /\ 8 - m = 2) \/ (m = 7 /\ 8 - m = 1)
  OBVIOUS
<1>. HIDE DEF m
<1>. SUFFICES \/ (2^m = 1 /\ 2^(8 - m) = 256)  \/ (2^m = 2 /\ 2^(8 - m) = 128)
              \/ (2^m = 4 /\ 2^(8 - m) = 64)   \/ (2^m = 8 /\ 2^(8 - m) = 32)
              \/ (2^m = 16 /\ 2^(8 - m) = 16)  \/ (2^m = 32 /\ 2^(8 - m) = 8)
              \/ (2^m = 64 /\ 2^(8 - m) = 4)   \/ (2^m = 128 /\ 2^(8 - m) = 2)
  BY DEF m
<1>3. CASE m = 0 /\ 8 - m = 8
  BY <1>1, <1>3
<1>4. CASE m = 1 /\ 8 - m = 7
  BY <1>1, <1>4
<1>5. CASE m = 2 /\ 8 - m = 6
  BY <1>1, <1>5
<1>6. CASE m = 3 /\ 8 - m = 5
  BY <1>1, <1>6
<1>7. CASE m = 4 /\ 8 - m = 4
  BY <1>1, <1>7
<1>8. CASE m = 5 /\ 8 - m = 3
  BY <1>1, <1>8
<1>9. CASE m = 6 /\ 8 - m = 2
  BY <1>1, <1>9
<1>10. CASE m = 7 /\ 8 - m = 1
  BY <1>1, <1>10
<1>. QED
  BY <1>2, <1>3, <1>4, <1>5, <1>6, <1>7, <1>8, <1>9, <1>10

(* A byte turned left and filled from y, and the byte above it, which was  *)
(* filled from it, give it back when turned right.                         *)
LEMMA TurnBack ==
  ASSUME NEW x \in Byte, NEW y \in Byte, NEW z \in Byte, NEW n \in Nat
  PROVE  /\ RolInto(x, y, n) \in Byte
         /\ RorInto(x, y, n) \in Byte
         /\ RorInto(RolInto(x, y, n), RolInto(z, x, n), n) = x
<1> DEFINE low == 2^(n % 8)   high == 2^(8 - (n % 8))
<1>1. \/ (low = 1 /\ high = 256)  \/ (low = 2 /\ high = 128)
      \/ (low = 4 /\ high = 64)   \/ (low = 8 /\ high = 32)
      \/ (low = 16 /\ high = 16)  \/ (low = 32 /\ high = 8)
      \/ (low = 64 /\ high = 4)   \/ (low = 128 /\ high = 2)
  BY PowersOfTwo
<1>2. /\ \A b, c : RolInto(b, c, n) = (b % high) * low + (c \div high)
      /\ \A b, c : RorInto(b, c, n) = (b \div low) + (c % low) * high
  BY DEF RolInto, RorInto
<1>. HIDE DEF low, high
<1>3. low \in Nat \ {0} /\ high \in Nat \ {0} /\ low * high = 256
  BY <1>1
<1>4. x \in 0..(low * high - 1) /\ y \in 0..(low * high - 1) /\ z \in 0..(low * high - 1)
  BY <1>3 DEF Byte
<1>5. /\ (x % high) * low + (y \div high) \in 0..(low * high - 1)
      /\ ((x % high) * low + (y \div high)) \div low = x % high
      /\ ((z % high) * low + (x \div high)) % low = x \div high
  BY <1>3, <1>4, PartsSwap, ZenonT(60)
<1>6. (y % low) * high + (x \div low) \in 0..(low * high - 1)
  <2>1. high * low = low * high
    BY <1>3
  <2>. QED
    BY <1>3, <1>4, <2>1, PartsSwap
<1>7. /\ x % high \in Nat /\ x \div low \in Nat
      /\ (y % low) * high \in Nat /\ (x \div high) * high \in Nat
      /\ (x % high) + (x \div high) * high = x
  BY <1>1 DEF Byte
<1>8. low * high - 1 = 255
  BY <1>3
<1>9. RolInto(x, y, n) \in Byte
  BY <1>2, <1>5, <1>8, ZenonT(60) DEF Byte
<1>11. RorInto(x, y, n) \in Byte
  <2>1. (x \div low) + (y % low) * high = (y % low) * high + (x \div low)
    BY <1>7
  <2>. QED
    BY <1>2, <1>6, <1>8, <2>1, ZenonT(60) DEF Byte
<1>10. RorInto(RolInto(x, y, n), RolInto(z, x, n), n) = x
  BY <1>2, <1>5, <1>7
<1>. QED
  BY <1>9, <1>10, <1>11

LEMMA PowersTo16 ==
  ASSUME NEW n \in Nat
  PROVE  LET low == 2^(n % 8)   high == 2^(16 - (n % 8))
         IN  low \in Nat \ {0} /\ high \in Nat \ {0} /\ low * high = 65536
<1> DEFINE m == n % 8
<1>1. /\ 2^0 = 1 /\ 2^1 = 2 /\ 2^2 = 4 /\ 2^3 = 8 /\ 2^4 = 16 /\ 2^5 = 32 /\ 2^6 = 64
      /\ 2^7 = 128
  BY SMT
<1>2. /\ 2^16 = 65536 /\ 2^15 = 32768 /\ 2^14 = 16384 /\ 2^13 = 8192 /\ 2^12 = 4096
      /\ 2^11 = 2048 /\ 2^10 = 1024 /\ 2^9 = 512
  BY SMT
<1>3. \/ (m = 0 /\ 16 - m = 16) \/ (m = 1 /\ 16 - m = 15) \/ (m = 2 /\ 16 - m = 14)
      \/ (m = 3 /\ 16 - m = 13) \/ (m = 4 /\ 16 - m = 12) \/ (m = 5 /\ 16 - m = 11)
      \/ (m = 6 /\ 16 - m = 10) \/ (m = 7 /\ 16 - m = 9)
  OBVIOUS
<1>. HIDE DEF m
<1>. SUFFICES 2^m \in Nat \ {0} /\ 2^(16 - m) \in Nat \ {0} /\ 2^m * 2^(16 - m) = 65536
  BY DEF m
<1>4. CASE m = 0 /\ 16 - m = 16
  <2>1. 2^m = 1 /\ 2^(16 - m) = 65536
    BY <1>1, <1>2, <1>4
  <2>. QED
    BY <2>1
<1>5. CASE m = 1 /\ 16 - m = 15
  <2>1. 2^m = 2 /\ 2^(16 - m) = 32768
    BY <1>1, <1>2, <1>5
  <2>. QED
    BY <2>1
<1>6. CASE m = 2 /\ 16 - m = 14
  <2>1. 2^m = 4 /\ 2^(16 - m) = 16384
    BY <1>1, <1>2, <1>6
  <2>. QED
    BY <2>1
<1>7. CASE m = 3 /\ 16 - m = 13
  <2>1. 2^m = 8 /\ 2^(16 - m) = 8192
    BY <1>1, <1>2, <1>7
  <2>. QED
    BY <2>1
<1>8. CASE m = 4 /\ 16 - m = 12
  <2>1. 2^m = 16 /\ 2^(16 - m) = 4096
    BY <1>1, <1>2, <1>8
  <2>. QED
    BY <2>1
<1>9. CASE m = 5 /\ 16 - m = 11
  <2>1. 2^m = 32 /\ 2^(16 - m) = 2048
    BY <1>1, <1>2, <1>9
  <2>. QED
    BY <2>1
<1>10. CASE m = 6 /\ 16 - m = 10
  <2>1. 2^m = 64 /\ 2^(16 - m) = 1024
    BY <1>1, <1>2, <1>10
  <2>. QED
    BY <2>1
<1>11. CASE m = 7 /\ 16 - m = 9
  <2>1. 2^m = 128 /\ 2^(16 - m) = 512
    BY <1>1, <1>2, <1>11
  <2>. QED
    BY <2>1
<1>. QED
  BY <1>3, <1>4, <1>5, <1>6, <1>7, <1>8, <1>9, <1>10, <1>11

LEMMA Turn16 ==
  ASSUME NEW x \in Half, NEW n \in Nat
  PROVE  /\ Rol16(x, n) \in Half /\ Ror16(x, n) \in Half
         /\ Ror16(Rol16(x, n), n) = x /\ Rol16(Ror16(x, n), n) = x
<1> DEFINE low == 2^(n % 8)   high == 2^(16 - (n % 8))
<1>1. low \in Nat \ {0} /\ high \in Nat \ {0} /\ low * high = 65536
  BY PowersTo16
<1>1b. low \in Nat \ {0} /\ high \in Nat \ {0}
  BY <1>1
<1>2. /\ \A b : Rol16(b, n) = (b % high) * low + (b \div high)
      /\ \A b : Ror16(b, n) = (b \div low) + (b % low) * high
  BY DEF Rol16, Ror16
<1>. HIDE DEF low, high
<1>3. \A b : b \in Half <=> b \in 0..(low * high - 1)
  BY <1>1 DEF Half
<1>4. high * low = low * high /\ x \in 0..(low * high - 1) /\ x \in 0..(high * low - 1)
  BY <1>1, <1>3
<1> DEFINE u == (x % high) * low + (x \div high)
           v == (x % low) * high + (x \div low)
<1>5. u \in 0..(low * high - 1) /\ u \div low = x % high /\ u % low = x \div high
  BY <1>1b, <1>4, PartsSwap, ZenonT(60)
<1>6. v \in 0..(low * high - 1) /\ v \div high = x % low /\ v % high = x \div low
  <2>1. v \in 0..(high * low - 1) /\ v \div high = x % low /\ v % high = x \div low
    BY <1>1b, <1>4, PartsSwap
  <2>. QED
    BY <1>4, <2>1
<1>7. x \in Nat
  BY DEF Half
<1>8. /\ x % high \in Nat /\ x \div high \in Nat /\ (x % high) + (x \div high) * high = x
      /\ x % low \in Nat /\ x \div low \in Nat /\ (x \div low) * low + (x % low) = x
  BY <1>1, <1>7, WholeIsParts
<1>9. Rol16(x, n) = u
  BY <1>2
<1>10. Ror16(x, n) = v
  <2>1. (x \div low) + (x % low) * high = v
    BY <1>1, <1>8
  <2>. QED
    BY <1>2, <2>1
<1>. HIDE DEF u, v
<1>. QED
  BY <1>2, <1>3, <1>5, <1>6, <1>8, <1>9, <1>10
-----------------------------------------------------------------------------
(* The length code. *)

LEMMA LenBytesRead ==
  ASSUME NEW n \in Half
  PROVE  /\ LenBytes(n) = <<n % 256, n \div 256>>
         /\ LenBytes(n) \in Seq(Byte) /\ Len(LenBytes(n)) = 2
         /\ n % 256 \in Byte /\ n \div 256 \in Byte
         /\ (n % 256) + 256 * (n \div 256) = n
<1>1. n \div 256 \in Byte /\ n % 256 \in Byte /\ n = 256 * (n \div 256) + (n % 256)
  BY WordParts
<1>2. ASSUME NEW l \in Byte, NEW h \in Byte
      PROVE  <<l, h>> \in Seq(Byte) /\ Len(<<l, h>>) = 2 /\ 256 * h + l = l + 256 * h
  BY DEF Byte
<1>. QED
  BY <1>1, <1>2 DEF LenBytes

LEMMA Len16Read ==
  ASSUME NEW f \in Seq(Byte), Len(f) >= 2
  PROVE  Len16(f) \in Half
<1>1. f[1] \in Byte /\ f[2] \in Byte
  BY ElementOfSeq
<1>2. 256 * f[2] + f[1] \in Half
  BY <1>1, WordParts
<1>3. 256 * f[2] + f[1] = f[1] + 256 * f[2]
  <2>1. \A l, h \in Byte : 256 * h + l = l + 256 * h
    BY DEF Byte
  <2>. QED
    BY <1>1, <2>1
<1>. QED
  BY <1>2, <1>3 DEF Len16

(* 49182 is the mask of the length code. *)
LEMMA MaskIsWord == 49182 \in Half
  BY DEF Half

(* The length of a frame comes back, for the server and for the recorder:  *)
(* length_decode (cipher.py) and extract_length (v2cipher.py) undo what    *)
(* length_encode did with the two bytes that follow.                       *)
THEOREM LengthRoundTrip ==
  ASSUME NEW n \in Half, NEW byte2 \in Byte, NEW byte3 \in Byte,
         NEW f \in Seq(Byte), Len(f) >= 4,
         Len16(f) = LengthEncode(n, byte2, byte3), f[3] = byte2, f[4] = byte3
  PROVE  LengthEncode(n, byte2, byte3) \in Half /\ LengthDecode(f) = n /\ ExtractLength(f) = n
<1> DEFINE a == (byte2 % 7) + 1
           b == (byte3 % 7) + 1
           p == Ror16(n, b)
           q == Xor16(p, 49182)
           r == Rol16(q, a)
<1>1. a \in Nat /\ b \in Nat
  BY DEF Byte
<1>2. LengthEncode(n, byte2, byte3) = r
  BY DEF LengthEncode
<1>3. LengthDecode(f) = Rol16(Xor16(Ror16(r, a), 49182), b)
  BY <1>2 DEF LengthDecode
<1>. HIDE DEF a, b
<1>4. p \in Half /\ Rol16(p, b) = n
  BY <1>1, Turn16
<1>. HIDE DEF p
<1>5. q \in Half /\ Xor16(q, 49182) = p
  BY <1>4, Xor16Undo, MaskIsWord
<1>5b. q \in Half
  BY <1>5
<1>. HIDE DEF q
<1>6. r \in Half /\ Ror16(r, a) = q
  BY <1>1, <1>5b, Turn16
<1>7. ExtractLength(f) = LengthDecode(f)
  BY DEF ExtractLength, LengthDecode
<1>. QED
  BY <1>2, <1>3, <1>4, <1>5, <1>6, <1>7

-----------------------------------------------------------------------------
(* The checksum. *)

LEMMA HashedIsPair ==
  ASSUME NEW h \in Half \X Half, NEW byte \in Byte
  PROVE  Hashed(h, byte) \in Half \X Half
<1>1. h[1] \in Nat /\ h[2] \in Nat /\ byte \in Nat
  BY DEF Half, Byte
<1>2. \A n \in Nat : n \div 65536 \in Nat /\ n % 65536 \in Half
  BY DivisionParts DEF Half
<1> DEFINE low == byte + h[1] * 63
           high == h[2] * 63 + h[1] + (low \div 65536)
<1>3. low \in Nat
  BY <1>1
<1>4. high \in Nat
  <2>1. low \div 65536 \in Nat
    BY <1>2, <1>3
  <2>. HIDE DEF low
  <2>. QED
    BY <1>1, <2>1
<1>5. Hashed(h, byte) = <<low % 65536, high % 65536>>
  BY DEF Hashed
<1>. HIDE DEF low, high
<1>6. low % 65536 \in Half /\ high % 65536 \in Half
  BY <1>2, <1>3, <1>4
<1>. QED
  BY <1>5, <1>6

(* The checksum is a recursion along the data; it has a value.             *)
LEMMA HashRuns ==
  ASSUME NEW data \in Seq(Byte)
  PROVE  \E g \in [0..Len(data) -> Half \X Half] :
           g = [i \in 0..Len(data) |-> IF i = 0 THEN <<0, 0>> ELSE Hashed(g[i - 1], data[i])]
<1> DEFINE Pairs == Half \X Half
           Runs(g, n) == \A i \in 0..n : g[i] = IF i = 0 THEN <<0, 0>>
                                                ELSE Hashed(g[i - 1], data[i])
           Good == {n \in Nat : n <= Len(data) => \E g \in [0..n -> Pairs] : Runs(g, n)}
<1>1. 0 \in Good
  <2> DEFINE g == [i \in 0..0 |-> <<0, 0>>]
  <2>1. g \in [0..0 -> Pairs] /\ Runs(g, 0)
    BY DEF Half
  <2>. QED
    BY <2>1
<1>2. ASSUME NEW n \in Good
      PROVE  n + 1 \in Good
  <2>. SUFFICES ASSUME n + 1 <= Len(data)
                PROVE  \E g \in [0..(n + 1) -> Pairs] : Runs(g, n + 1)
    OBVIOUS
  <2>1. PICK g \in [0..n -> Pairs] : Runs(g, n)
    BY LenProperties
  <2> DEFINE next == Hashed(g[n], data[n + 1])
             h == [i \in 0..(n + 1) |-> IF i = n + 1 THEN next ELSE g[i]]
  <2>2. g[n] \in Pairs /\ data[n + 1] \in Byte
    BY ElementOfSeq, LenProperties
  <2>3. next \in Pairs
    BY <2>2, HashedIsPair
  <2>. HIDE DEF next, Pairs
  <2>4. h \in [0..(n + 1) -> Pairs]
    BY <2>3
  <2>5. ASSUME NEW i \in 0..(n + 1)
        PROVE  h[i] = IF i = 0 THEN <<0, 0>> ELSE Hashed(h[i - 1], data[i])
    <3>1. CASE i = n + 1
      <4>1. h[i] = next /\ i - 1 = n /\ h[n] = g[n] /\ i # 0
        BY <3>1
      <4>. QED
        BY <3>1, <4>1 DEF next
    <3>2. CASE i \in 0..n
      <4>1. h[i] = g[i] /\ (i # 0 => h[i - 1] = g[i - 1])
        BY <3>2
      <4>. QED
        BY <2>1, <3>2, <4>1
    <3>. QED
      BY <3>1, <3>2
  <2>. QED
    BY <2>4, <2>5
<1>3. Len(data) \in Good
  <2>1. Good \subseteq Nat /\ Len(data) \in Nat
    BY LenProperties
  <2>. HIDE DEF Good
  <2>. QED
    BY <1>1, <1>2, <2>1, NatSetInduction
<1>4. PICK g \in [0..Len(data) -> Pairs] : Runs(g, Len(data))
  BY <1>3, LenProperties
<1>5. g = [i \in 0..Len(data) |-> IF i = 0 THEN <<0, 0>> ELSE Hashed(g[i - 1], data[i])]
  BY <1>4
<1>. QED
  BY <1>5

LEMMA CrcIsFourBytes ==
  ASSUME NEW data \in Seq(Byte)
  PROVE  CrcHash(data) \in Seq(Byte) /\ Len(CrcHash(data)) = 4
<1> DEFINE n == Len(data)
           hash[i \in 0..n] == IF i = 0 THEN <<0, 0>> ELSE Hashed(hash[i - 1], data[i])
<1>1. hash = [i \in 0..n |-> IF i = 0 THEN <<0, 0>> ELSE Hashed(hash[i - 1], data[i])]
  BY HashRuns
<1>2. CrcHash(data) = LenBytes(hash[n][1]) \o LenBytes(hash[n][2])
  BY DEF CrcHash
<1>. HIDE DEF hash
<1> DEFINE Good == {i \in Nat : i <= n => hash[i] \in Half \X Half}
<1>4. n \in Nat
  BY LenProperties
<1>5. 0 \in Good
  BY <1>1, <1>4 DEF Half
<1>6. ASSUME NEW i \in Nat, i \in Good
      PROVE  i + 1 \in Good
  <2>. SUFFICES ASSUME i + 1 <= n PROVE hash[i + 1] \in Half \X Half
    OBVIOUS
  <2>1. hash[i] \in Half \X Half /\ data[i + 1] \in Byte
    BY <1>4, <1>6, ElementOfSeq
  <2>2. hash[i + 1] = Hashed(hash[i], data[i + 1])
    BY <1>1, <1>4
  <2>. QED
    BY <2>1, <2>2, HashedIsPair
<1>7. hash[n] \in Half \X Half
  <2>1. Nat \subseteq Good
    <3>. HIDE DEF Good
    <3>. QED
      BY <1>5, <1>6, NatSetInduction
  <2>. QED
    BY <1>4, <2>1
<1>8. hash[n][1] \in Half /\ hash[n][2] \in Half
  BY <1>7
<1>. QED
  <2>1. ASSUME NEW a \in Seq(Byte), NEW b \in Seq(Byte), Len(a) = 2, Len(b) = 2
        PROVE  a \o b \in Seq(Byte) /\ Len(a \o b) = 4
    <3>1. a \o b \in Seq(Byte) /\ Len(a \o b) = Len(a) + Len(b)
      BY ConcatProperties
    <3>. QED
      BY <2>1, <3>1
  <2>. QED
    BY <1>2, <1>8, <2>1, LenBytesRead

LEMMA RotationIsNat ==
  ASSUME NEW crc \in Seq(Byte), Len(crc) = 4
  PROVE  Rotation(crc) \in Nat
<1> DEFINE a == 65536 % 7
           b == 16777216 % 7
<1>1. a \in Nat /\ b \in Nat
  OBVIOUS
<1>2. crc[1] \in Nat /\ crc[2] \in Nat /\ crc[3] \in Nat /\ crc[4] \in Nat
  <2>1. \A i \in 1..4 : crc[i] \in Byte
    BY ElementOfSeq
  <2>2. Byte \subseteq Nat
    BY DEF Byte
  <2>3. crc[1] \in Byte /\ crc[2] \in Byte /\ crc[3] \in Byte /\ crc[4] \in Byte
    BY <2>1
  <2>. QED
    BY <2>2, <2>3
<1>3. Rotation(crc) = ((crc[1] + 256 * crc[2] + a * crc[3] + b * crc[4]) % 7) + 1
  BY DEF Rotation
<1>. HIDE DEF a, b
<1>4. a * crc[3] \in Nat /\ b * crc[4] \in Nat
  <2>1. \A x, y \in Nat : x * y \in Nat
    OBVIOUS
  <2>. QED
    BY <1>1, <1>2, <2>1
<1> DEFINE sum == crc[1] + 256 * crc[2] + a * crc[3] + b * crc[4]
<1>5. sum \in Nat
  BY <1>2, <1>4, SMTT(60)
<1>. HIDE DEF sum
<1>6. (sum % 7) + 1 \in Nat
  BY <1>5
<1>. QED
  BY <1>3, <1>6 DEF sum

-----------------------------------------------------------------------------
(* The payload. *)

LEMMA TurnOpposite ==
  ASSUME NEW s \in Seq(Byte), NEW j \in 1..Len(s)
  PROVE  /\ Above(s, j) \in 1..Len(s) /\ Below(s, j) \in 1..Len(s)
         /\ Below(s, Above(s, j)) = j
<1> DEFINE n == Len(s)
<1>1. n \in Nat
  BY LenProperties
<1>2. CASE ~InWord(s, j)
  BY <1>2 DEF Above, Below
<1>3. CASE InWord(s, j) /\ j % 4 = 0
  <2>1. j + (n % 4) <= n
    BY <1>3 DEF InWord
  <2>2. Above(s, j) = j - 3 /\ Below(s, j) = j - 1
    BY <1>3 DEF Above, Below
  <2>3. j - 3 \in 1..n /\ (j - 3) % 4 = 1 /\ j - 3 + (n % 4) <= n /\ j - 1 \in 1..n
    BY <1>1, <1>3, <2>1
  <2>4. Below(s, j - 3) = j - 3 + 3
    BY <2>3 DEF Below, InWord
  <2>. QED
    BY <2>2, <2>3, <2>4
<1>4. CASE InWord(s, j) /\ j % 4 # 0
  <2>1. j + (n % 4) <= n
    BY <1>4 DEF InWord
  <2>2. Above(s, j) = j + 1
    BY <1>4 DEF Above
  <2>3. /\ j + 1 \in 1..n /\ (j + 1) % 4 # 1 /\ j + 1 + (n % 4) <= n
        /\ (j % 4 # 1 => j - 1 \in 1..n) /\ (j % 4 = 1 => j + 3 \in 1..n)
    BY <1>1, <1>4, <2>1
  <2>4. Below(s, j + 1) = j + 1 - 1
    BY <2>3 DEF Below, InWord
  <2>. QED
    BY <1>4, <2>2, <2>3, <2>4 DEF Below
<1>. QED
  BY <1>2, <1>3, <1>4

LEMMA PayloadTurns ==
  ASSUME NEW s \in Seq(Byte), NEW n \in Nat
  PROVE  /\ RolPayload(s, n) \in Seq(Byte) /\ Len(RolPayload(s, n)) = Len(s)
         /\ RorPayload(RolPayload(s, n), n) = s
<1> DEFINE t == RolPayload(s, n)
<1>1. \A j \in 1..Len(s) : s[j] \in Byte
  BY ElementOfSeq
<1>2. \A j \in 1..Len(s) : RolInto(s[j], s[Below(s, j)], n) \in Byte
  BY <1>1, TurnOpposite, TurnBack
<1>3. t \in Seq(Byte) /\ Len(t) = Len(s) /\ \A j \in 1..Len(s) : t[j] = RolInto(s[j], s[Below(s, j)], n)
  BY <1>2, LenProperties DEF RolPayload
<1>. HIDE DEF t
<1>4. ASSUME NEW j \in 1..Len(s)
      PROVE  RorInto(t[j], t[Above(t, j)], n) = s[j]
  <2> DEFINE k == Above(s, j)
  <2>1. Above(t, j) = k
    BY <1>3 DEF Above, InWord
  <2>2. k \in 1..Len(s) /\ Below(s, k) = j /\ Below(s, j) \in 1..Len(s)
    BY TurnOpposite
  <2>. HIDE DEF k
  <2>3. t[k] = RolInto(s[k], s[j], n) /\ t[j] = RolInto(s[j], s[Below(s, j)], n)
    BY <1>3, <2>2
  <2>4. s[j] \in Byte /\ s[k] \in Byte /\ s[Below(s, j)] \in Byte
    BY <1>1, <2>2
  <2>5. RorInto(RolInto(s[j], s[Below(s, j)], n), RolInto(s[k], s[j], n), n) = s[j]
    BY <2>4, TurnBack
  <2>. QED
    BY <2>1, <2>3, <2>5
<1>5. RorPayload(t, n) = [j \in 1..Len(s) |-> s[j]]
  BY <1>3, <1>4 DEF RorPayload
<1>6. [j \in 1..Len(s) |-> s[j]] = s
  BY LenProperties
<1>. QED
  BY <1>3, <1>5, <1>6 DEF t

LEMMA KeyIsByte ==
  ASSUME NEW m \in Byte, NEW j \in Nat \ {0}
  PROVE  KeyByte(m, j) \in Byte
<1> DEFINE w     == (j - 1) \div 4
           at(n) == Seed(m)[((n + 3 * (w \div 8)) % 4) + 1]
<1>1. \A k \in 1..4 : Seed(m)[k] \in Byte
  <2>1. 30 \in Byte /\ 192 \in Byte /\ 68 \in Byte /\ 178 \in Byte
    BY DEF Byte
  <2>2. /\ Xor8(m, 30) \in Byte /\ Xor8(m, 192) \in Byte
        /\ Xor8(m, 68) \in Byte /\ Xor8(m, 178) \in Byte
    BY <2>1, Xor8Undo
  <2>. QED
    BY <2>2 DEF Seed
<1>2. w \in Nat /\ w \div 8 \in Nat
  OBVIOUS
<1>3. ASSUME NEW n \in Nat
      PROVE  at(n) \in Byte
  <2>1. ((n + 3 * (w \div 8)) % 4) + 1 \in 1..4
    BY <1>2
  <2>. QED
    BY <1>1, <2>1
<1>4. KeyByte(m, j) = RolInto(at(j - 1), at(j + 2), w)
  BY DEF KeyByte
<1>5. at(j - 1) \in Byte /\ at(j + 2) \in Byte
  <2>1. j - 1 \in Nat /\ j + 2 \in Nat
    OBVIOUS
  <2>. HIDE DEF at
  <2>. QED
    BY <1>3, <2>1
<1>. HIDE DEF w, at
<1>. QED
  BY <1>2, <1>4, <1>5, TurnBack

LEMMA KeyedTwice ==
  ASSUME NEW s \in Seq(Byte), NEW m \in Byte
  PROVE  /\ Keyed(s, m) \in Seq(Byte) /\ Len(Keyed(s, m)) = Len(s)
         /\ Keyed(Keyed(s, m), m) = s
<1> DEFINE t == Keyed(s, m)
<1>1. \A j \in 1..Len(s) : s[j] \in Byte /\ KeyByte(m, j) \in Byte
  BY ElementOfSeq, KeyIsByte
<1>2. \A j \in 1..Len(s) : /\ Xor8(s[j], KeyByte(m, j)) \in Byte
                           /\ Xor8(Xor8(s[j], KeyByte(m, j)), KeyByte(m, j)) = s[j]
  BY <1>1, Xor8Undo
<1>3. /\ t \in Seq(Byte) /\ Len(t) = Len(s)
      /\ \A j \in 1..Len(s) : t[j] = Xor8(s[j], KeyByte(m, j))
  BY <1>2, LenProperties DEF Keyed
<1>. HIDE DEF t
<1>4. Keyed(t, m) = [j \in 1..Len(s) |-> s[j]]
  BY <1>2, <1>3 DEF Keyed
<1>5. [j \in 1..Len(s) |-> s[j]] = s
  BY LenProperties
<1>. QED
  BY <1>3, <1>4, <1>5 DEF t

-----------------------------------------------------------------------------
(* The frame. *)

(* The parts of a frame, found again in what they are joined to. *)
HasParts(f, a, b, c, d, e) ==
  /\ f \in Seq(Byte) /\ Len(f) = 7 + Len(d) + Len(e)
  /\ f[1] = a[1] /\ f[2] = a[2] /\ f[3] = b /\ f[4] = c[1]
  /\ SubSeq(f, 1, 2) = a
  /\ SubSeq(f, 4, 7) = c
  /\ SubSeq(f, 8, 7 + Len(d)) = d
  /\ SubSeq(f, 8 + Len(d), Len(f)) = e
  /\ \A i \in 1..Len(d) : f[i + 7] = d[i]
  /\ \A i \in 1..Len(e) : f[i + 7 + Len(d)] = e[i]

LEMMA FrameParts ==
  ASSUME NEW a \in Seq(Byte), Len(a) = 2, NEW b \in Byte, NEW c \in Seq(Byte), Len(c) = 4,
         NEW d \in Seq(Byte), NEW e \in Seq(Byte)
  PROVE  HasParts(a \o <<b>> \o c \o d \o e, a, b, c, d, e)
<1> DEFINE f == a \o <<b>> \o c \o d \o e
           m == Len(d)
           n == Len(e)
<1>1. m \in Nat /\ n \in Nat
  BY LenProperties
<1> DEFINE f1 == a \o <<b>>
           f2 == f1 \o c
           f3 == f2 \o d
<1>. HIDE DEF f, f1, f2, f3, m, n
<1>2. f1 \in Seq(Byte) /\ Len(f1) = 3 /\ f1[1] = a[1] /\ f1[2] = a[2] /\ f1[3] = b
  <2> DEFINE bb == <<b>>
  <2>1. bb \in Seq(Byte) /\ Len(bb) = 1 /\ bb[1] = b
    OBVIOUS
  <2>4. f1 = a \o bb
    BY DEF f1
  <2>. HIDE DEF bb
  <2>2. /\ a \o bb \in Seq(Byte) /\ Len(a \o bb) = 2 + 1
        /\ \A i \in 1..2 : (a \o bb)[i] = a[i]
        /\ \A i \in 1..1 : (a \o bb)[i + 2] = bb[i]
    <3>0. a \o bb \in Seq(Byte)
      BY <2>1
    <3>1. /\ Len(a \o bb) = Len(a) + Len(bb)
          /\ \A i \in 1..Len(a) : (a \o bb)[i] = a[i]
          /\ \A i \in 1..Len(bb) : (a \o bb)[i + Len(a)] = bb[i]
      BY <2>1, BytesJoined
    <3>. QED
      BY <2>1, <3>1, <3>0
  <2>3. (a \o bb)[1] = a[1] /\ (a \o bb)[2] = a[2] /\ (a \o bb)[1 + 2] = bb[1]
    BY <2>2
  <2>. QED
    BY <2>1, <2>2, <2>3, <2>4
<1>3. /\ f2 \in Seq(Byte) /\ Len(f2) = 7 /\ \A i \in 1..3 : f2[i] = f1[i]
      /\ \A i \in 1..4 : f2[i + 3] = c[i]
  <2>0. f1 \o c \in Seq(Byte)
    BY <1>2
  <2>1. /\ Len(f1 \o c) = Len(f1) + Len(c)
        /\ \A i \in 1..Len(f1) : (f1 \o c)[i] = f1[i]
        /\ \A i \in 1..Len(c) : (f1 \o c)[i + Len(f1)] = c[i]
    BY <1>2, BytesJoined
  <2>2. f2 = f1 \o c
    BY DEF f2
  <2>. QED
    BY <1>2, <2>0, <2>1, <2>2, SMTT(60)
<1>4. /\ f3 \in Seq(Byte) /\ Len(f3) = 7 + m /\ \A i \in 1..7 : f3[i] = f2[i]
      /\ \A i \in 1..m : f3[i + 7] = d[i]
  <2>0. f2 \o d \in Seq(Byte)
    BY <1>3
  <2>1. /\ Len(f2 \o d) = Len(f2) + Len(d)
        /\ \A i \in 1..Len(f2) : (f2 \o d)[i] = f2[i]
        /\ \A i \in 1..Len(d) : (f2 \o d)[i + Len(f2)] = d[i]
    BY <1>3, BytesJoined
  <2>2. f3 = f2 \o d
    BY DEF f3
  <2>. QED
    BY <1>1, <1>3, <2>1, <2>2, <2>0 DEF m
<1>5. /\ f3 \o e \in Seq(Byte) /\ Len(f3 \o e) = 7 + m + n
      /\ \A i \in 1..(7 + m) : (f3 \o e)[i] = f3[i]
      /\ \A i \in 1..n : (f3 \o e)[i + (7 + m)] = e[i]
  <2>0. f3 \o e \in Seq(Byte)
    BY <1>4
  <2>1. /\ Len(f3 \o e) = Len(f3) + Len(e)
        /\ \A i \in 1..Len(f3) : (f3 \o e)[i] = f3[i]
        /\ \A i \in 1..Len(e) : (f3 \o e)[i + Len(f3)] = e[i]
    BY <1>4, BytesJoined
  <2>. QED
    BY <1>1, <1>4, <2>1, <2>0 DEF n
<1>6. f = f3 \o e
  BY DEF f, f1, f2, f3
<1>7. f \in Seq(Byte) /\ Len(f) = 7 + m + n
  BY <1>5, <1>6
<1>8. \A i \in 1..7 : f[i] = f2[i]
  BY <1>1, <1>4, <1>5, <1>6, SMTT(60)
<1>9. \A i \in 1..m : f[i + 7] = d[i]
  BY <1>1, <1>4, <1>5, <1>6, SMTT(60)
<1>10. ASSUME NEW i \in 1..n
       PROVE  f[i + 7 + m] = e[i]
  <2>1. i + 7 + m = i + (7 + m)
    BY <1>1
  <2>. QED
    BY <1>5, <1>6, <2>1
<1>11. /\ f[1] = a[1] /\ f[2] = a[2] /\ f[3] = b
       /\ \A i \in 1..4 : f[i + 3] = c[i]
  BY <1>2, <1>3, <1>8
<1>12. SubSeq(f, 1, 2) = a
  <2> DEFINE t == SubSeq(f, 0 + 1, 0 + 2)
  <2>1. t \in Seq(Byte) /\ Len(t) = 2 /\ \A i \in 1..2 : t[i] = f[i + 0]
    BY <1>1, <1>7, PieceOf
  <2>2. t = SubSeq(f, 1, 2)
    OBVIOUS
  <2>. HIDE DEF t
  <2>3. t[1] = a[1] /\ t[2] = a[2]
    BY <1>11, <2>1
  <2>4. \A i \in 1..2 : t[i] = a[i]
    BY <2>3
  <2>. QED
    BY <2>1, <2>2, <2>4, SeqEqual
<1>13. SubSeq(f, 4, 7) = c
  <2> DEFINE t == SubSeq(f, 3 + 1, 3 + 4)
  <2>1. t \in Seq(Byte) /\ Len(t) = 4 /\ \A i \in 1..4 : t[i] = f[i + 3]
    BY <1>1, <1>7, PieceOf
  <2>2. t = SubSeq(f, 4, 7)
    OBVIOUS
  <2>. HIDE DEF t
  <2>. QED
    BY <1>11, <2>1, <2>2, SeqEqual
<1>14. SubSeq(f, 8, 7 + m) = d
  <2> DEFINE t == SubSeq(f, 7 + 1, 7 + m)
  <2>1. t \in Seq(Byte) /\ Len(t) = m /\ \A i \in 1..m : t[i] = f[i + 7]
    BY <1>1, <1>7, PieceOf
  <2>2. t = SubSeq(f, 8, 7 + m)
    OBVIOUS
  <2>. HIDE DEF t
  <2>. QED
    BY <1>9, <2>1, <2>2, SeqEqual DEF m
<1>15. SubSeq(f, 8 + m, Len(f)) = e
  <2> DEFINE t == SubSeq(f, (7 + m) + 1, (7 + m) + n)
  <2>1. t \in Seq(Byte) /\ Len(t) = n /\ \A i \in 1..n : t[i] = f[i + (7 + m)]
    BY <1>1, <1>7, PieceOf
  <2>2. t = SubSeq(f, 8 + m, Len(f))
    BY <1>1, <1>7
  <2>. HIDE DEF t
  <2>3. \A i \in 1..n : t[i] = e[i]
    BY <1>5, <1>6, <2>1
  <2>. QED
    BY <2>1, <2>2, <2>3, SeqEqual DEF n
<1>16. f[4] = c[1]
  BY <1>11
<1>. QED
  BY <1>7, <1>9, <1>10, <1>11, <1>12, <1>13, <1>14, <1>15, <1>16 DEF HasParts, f, m, n

(* A frame whose length is that of a frame with a payload, and in it.      *)
LEMMA SoundParts ==
  ASSUME NEW p \in Seq(Byte), ~Unsound(p)
  PROVE  LET n == Len16(p)
         IN  /\ n \in Half /\ n >= 6 /\ Len(p) \in Nat /\ n + 2 <= Len(p)
             /\ SubSeq(p, 1, 2) \in Seq(Byte) /\ Len(SubSeq(p, 1, 2)) = 2
             /\ SubSeq(p, 1, 2)[1] = p[1] /\ SubSeq(p, 1, 2)[2] = p[2]
             /\ Payload(p) \in Seq(Byte) /\ Len(Payload(p)) = n - 5
             /\ \A i \in 1..(n - 5) : Payload(p)[i] = p[i + 7]
             /\ Rest(p) \in Seq(Byte) /\ Len(Rest(p)) = Len(p) - n - 2
             /\ \A i \in 1..(Len(p) - n - 2) : Rest(p)[i] = p[i + (n + 2)]
             /\ \A i \in 1..Len(p) : p[i] \in Byte
<1> DEFINE n == Len16(p)
<1>1. Len(p) \in Nat /\ Len(p) >= 4 /\ ~(n < 6) /\ ~(Len(p) < n + 2)
  BY LenProperties DEF Unsound
<1>2. n \in Half
  BY <1>1, Len16Read
<1>3. n \in Nat
  BY <1>2 DEF Half
<1>. HIDE DEF n
<1>4. n >= 6 /\ n + 2 <= Len(p) /\ n - 5 \in Nat /\ Len(p) - n - 2 \in Nat
  BY <1>1, <1>3
<1>5. SubSeq(p, 1, 2) \in Seq(Byte) /\ Len(SubSeq(p, 1, 2)) = 2
      /\ SubSeq(p, 1, 2)[1] = p[1] /\ SubSeq(p, 1, 2)[2] = p[2]
  <2> DEFINE t == SubSeq(p, 0 + 1, 0 + 2)
  <2>1. t \in Seq(Byte) /\ Len(t) = 2 /\ \A i \in 1..2 : t[i] = p[i + 0]
    BY <1>1, PieceOf
  <2>2. t = SubSeq(p, 1, 2)
    OBVIOUS
  <2>. HIDE DEF t
  <2>3. t[1] = p[1] /\ t[2] = p[2]
    BY <2>1
  <2>. QED
    BY <2>1, <2>2, <2>3
<1>6. /\ Payload(p) \in Seq(Byte) /\ Len(Payload(p)) = n - 5
      /\ \A i \in 1..(n - 5) : Payload(p)[i] = p[i + 7]
  <2> DEFINE t == SubSeq(p, 7 + 1, 7 + (n - 5))
  <2>1. t \in Seq(Byte) /\ Len(t) = n - 5 /\ \A i \in 1..(n - 5) : t[i] = p[i + 7]
    <3>1. 7 + (n - 5) <= Len(p)
      BY <1>1, <1>3, <1>4
    <3>. QED
      BY <1>4, <3>1, PieceOf
  <2>2. 7 + (n - 5) = n + 2
    BY <1>3
  <2>3. t = Payload(p)
    <3>1. Payload(p) = SubSeq(p, 8, n + 2)
      BY DEF Payload, n
    <3>2. t = SubSeq(p, 8, 7 + (n - 5))
      OBVIOUS
    <3>. HIDE DEF t
    <3>. QED
      BY <2>2, <3>1, <3>2
  <2>. HIDE DEF t
  <2>. QED
    BY <2>1, <2>3
<1>7. /\ Rest(p) \in Seq(Byte) /\ Len(Rest(p)) = Len(p) - n - 2
      /\ \A i \in 1..(Len(p) - n - 2) : Rest(p)[i] = p[i + (n + 2)]
  <2> DEFINE m == n + 2
             k == Len(p) - n - 2
             t == SubSeq(p, m + 1, m + k)
  <2>1. m \in Nat /\ k \in Nat /\ m + k = Len(p) /\ m + 1 = n + 3
    BY <1>1, <1>3, <1>4
  <2>2. t = Rest(p)
    BY <2>1 DEF Rest, n
  <2>. HIDE DEF m, k
  <2>3. t \in Seq(Byte) /\ Len(t) = k /\ \A i \in 1..k : t[i] = p[i + m]
    BY <2>1, PieceOf
  <2>. HIDE DEF t
  <2>. QED
    BY <2>2, <2>3 DEF m, k
<1>8. \A i \in 1..Len(p) : p[i] \in Byte
  BY ElementOfSeq
<1>. QED
  BY <1>1, <1>2, <1>4, <1>5, <1>6, <1>7, <1>8 DEF n

(* What a reader has of a frame that was enciphered: all of the plaintext  *)
(* but the checksum.                                                       *)
Recovers(q, p) ==
  /\ q \in Seq(Byte) /\ Len(q) = Len(p)
  /\ \A i \in 1..Len(p) : i \notin 4..7 => q[i] = p[i]

(* The frame put together from its parts in the clear.                     *)
LEMMA ClearParts ==
  ASSUME NEW p \in Seq(Byte), ~Unsound(p), NEW crc \in Seq(Byte), Len(crc) = 4
  PROVE  Recovers(SubSeq(p, 1, 2) \o <<p[3]>> \o crc \o Payload(p) \o Rest(p), p)
<1> DEFINE n == Len16(p)
           m == n - 5
           k == Len(p) - n - 2
           q == SubSeq(p, 1, 2) \o <<p[3]>> \o crc \o Payload(p) \o Rest(p)
<1>1. /\ n \in Half /\ n >= 6 /\ Len(p) \in Nat /\ n + 2 <= Len(p)
      /\ SubSeq(p, 1, 2) \in Seq(Byte) /\ Len(SubSeq(p, 1, 2)) = 2
      /\ SubSeq(p, 1, 2)[1] = p[1] /\ SubSeq(p, 1, 2)[2] = p[2]
      /\ Payload(p) \in Seq(Byte) /\ Len(Payload(p)) = m
      /\ \A i \in 1..m : Payload(p)[i] = p[i + 7]
      /\ Rest(p) \in Seq(Byte) /\ Len(Rest(p)) = k
      /\ \A i \in 1..k : Rest(p)[i] = p[i + (n + 2)]
      /\ \A i \in 1..Len(p) : p[i] \in Byte
  BY SoundParts
<1>2. n \in Nat
  BY <1>1 DEF Half
<1>. HIDE DEF n
<1>3. m \in Nat /\ k \in Nat /\ 7 + m = n + 2 /\ 7 + m + k = Len(p) /\ p[3] \in Byte
  <2>1. 3 \in 1..Len(p)
    BY <1>1, <1>2
  <2>. QED
    BY <1>1, <1>2, <2>1
<1>4. /\ q \in Seq(Byte) /\ Len(q) = 7 + Len(Payload(p)) + Len(Rest(p))
      /\ q[1] = SubSeq(p, 1, 2)[1] /\ q[2] = SubSeq(p, 1, 2)[2] /\ q[3] = p[3]
      /\ \A i \in 1..Len(Payload(p)) : q[i + 7] = Payload(p)[i]
      /\ \A i \in 1..Len(Rest(p)) : q[i + 7 + Len(Payload(p))] = Rest(p)[i]
  <2> DEFINE a == SubSeq(p, 1, 2)
             d == Payload(p)
             e == Rest(p)
  <2>1. a \in Seq(Byte) /\ Len(a) = 2 /\ d \in Seq(Byte) /\ e \in Seq(Byte) /\ p[3] \in Byte
    BY <1>1, <1>3
  <2>2. q = a \o <<p[3]>> \o crc \o d \o e
    OBVIOUS
  <2>. HIDE DEF m, k, a, d, e, q
  <2>3. HasParts(q, a, p[3], crc, d, e)
    BY <2>1, <2>2, FrameParts, Zenon
  <2>. QED
    BY <2>3 DEF HasParts, a, d, e
<1>. HIDE DEF m, k, q
<1>5. Len(q) = Len(p) /\ q[1] = p[1] /\ q[2] = p[2] /\ q[3] = p[3]
  BY <1>1, <1>3, <1>4
<1>6. ASSUME NEW i \in 1..Len(p), i > 7, i <= 7 + m
      PROVE  q[i] = p[i]
  <2>1. i - 7 \in 1..m /\ (i - 7) + 7 = i
    BY <1>1, <1>3, <1>6
  <2>. QED
    BY <1>1, <1>4, <2>1, SMTT(60)
<1>7. ASSUME NEW i \in 1..Len(p), i > 7 + m
      PROVE  q[i] = p[i]
  <2> DEFINE j == i - (7 + m)
  <2>1. j \in 1..k /\ j + 7 + m = i /\ j + (n + 2) = i
    BY <1>1, <1>3, <1>7
  <2>. HIDE DEF j
  <2>2. q[j + 7 + m] = Rest(p)[j] /\ Rest(p)[j] = p[j + (n + 2)]
    BY <1>1, <1>4, <2>1
  <2>. QED
    BY <2>1, <2>2
<1>8. ASSUME NEW i \in 1..Len(p), i \notin 4..7
      PROVE  q[i] = p[i]
  <2>1. i = 1 \/ i = 2 \/ i = 3 \/ (i > 7 /\ i <= 7 + m) \/ i > 7 + m
    BY <1>3, <1>8
  <2>. QED
    BY <1>5, <1>6, <1>7, <2>1
<1>. QED
  BY <1>4, <1>5, <1>8 DEF Recovers, q

LEMMA HeadMaskIsByte ==
  ASSUME NEW p \in Seq(Byte), ~Unsound(p)
  PROVE  HeadMask(p) \in Byte
<1>1. Len16(p) \in Half /\ p[2] \in Byte
  <2>1. /\ Len16(p) \in Half /\ Len16(p) >= 6 /\ Len(p) \in Nat /\ Len16(p) + 2 <= Len(p)
        /\ \A i \in 1..Len(p) : p[i] \in Byte
    BY SoundParts
  <2>2. Len16(p) \in Nat
    BY <2>1 DEF Half
  <2>3. 2 \in 1..Len(p)
    BY <2>1, <2>2
  <2>. QED
    BY <2>1, <2>3
<1>2. Len16(p) % 256 \in Byte
  BY <1>1, WordParts
<1>3. 30 \in Byte
  BY DEF Byte
<1>. QED
  BY <1>1, <1>2, <1>3, Xor8Undo DEF HeadMask

(* A byte in front of a sequence. *)
LEMMA Prefixed ==
  ASSUME NEW b \in Byte, NEW s \in Seq(Byte)
  PROVE  /\ <<b>> \o s \in Seq(Byte) /\ Len(<<b>> \o s) = 1 + Len(s)
         /\ (<<b>> \o s)[1] = b /\ Tail(<<b>> \o s) = s
<1> DEFINE t == <<b>> \o s
<1>1. Len(s) \in Nat
  BY LenProperties
<1>2. /\ t \in Seq(Byte) /\ Len(t) = 1 + Len(s) /\ t[1] = b
      /\ \A i \in 1..Len(s) : t[i + 1] = s[i]
  <2> DEFINE bb == <<b>>
  <2>1. bb \in Seq(Byte) /\ Len(bb) = 1 /\ bb[1] = b
    OBVIOUS
  <2>2. t = bb \o s
    OBVIOUS
  <2>. HIDE DEF bb, t
  <2>3. bb \o s \in Seq(Byte)
    BY <2>1
  <2>4. /\ Len(bb \o s) = Len(bb) + Len(s)
        /\ \A i \in 1..Len(bb) : (bb \o s)[i] = bb[i]
        /\ \A i \in 1..Len(s) : (bb \o s)[i + Len(bb)] = s[i]
    BY <2>1, BytesJoined
  <2>5. 1 \in 1..Len(bb)
    BY <2>1
  <2>. QED
    BY <2>1, <2>2, <2>3, <2>4, <2>5
<1>. HIDE DEF t
<1>3. t # <<>>
  BY <1>1, <1>2
<1>4. Tail(t) \in Seq(Byte) /\ Len(Tail(t)) = Len(t) - 1
      /\ \A i \in 1..Len(Tail(t)) : Tail(t)[i] = t[i + 1]
  BY <1>2, <1>3, HeadTailProperties
<1>5. Tail(t) = s
  BY <1>1, <1>2, <1>4, SeqEqual
<1>. QED
  BY <1>2, <1>5 DEF t

LEMMA HeadAndTail ==
  ASSUME NEW s \in Seq(Byte), Len(s) >= 1
  PROVE  /\ s[1] \in Byte /\ Tail(s) \in Seq(Byte) /\ Len(Tail(s)) = Len(s) - 1
         /\ <<s[1]>> \o Tail(s) = s
<1>1. Len(s) \in Nat /\ s # <<>>
  BY LenProperties
<1>2. s[1] \in Byte
  BY <1>1, ElementOfSeq
<1>3. Tail(s) \in Seq(Byte) /\ Len(Tail(s)) = Len(s) - 1
  BY <1>1, HeadTailProperties
<1>4. <<s[1]>> \o Tail(s) = s
  BY <1>1
<1>. QED
  BY <1>2, <1>3, <1>4

(* What encrypt_frame makes of a frame. *)
LEMMA EncryptParts ==
  ASSUME NEW p \in Seq(Byte), ~Unsound(p)
  PROVE  \E first \in Byte, body \in Seq(Byte), crc \in Seq(Byte) :
           /\ first = Xor8(HeadMask(p), p[8])
           /\ Len(body) = Len(Payload(p)) /\ body[1] = first
           /\ Tail(body) = Keyed(Tail(Payload(p)), first)
           /\ crc = CrcHash(body) /\ Len(crc) = 4
           /\ Rol8(Xor8(p[3], first), crc[1]) \in Byte
           /\ HasParts(Encrypt(p), SubSeq(p, 1, 2), Rol8(Xor8(p[3], first), crc[1]), crc,
                       RolPayload(body, Rotation(crc)), Rest(p))
<1> DEFINE n     == Len16(p)
           pay   == Payload(p)
           first == Xor8(HeadMask(p), p[8])
           tail  == Keyed(Tail(pay), first)
           body  == <<first>> \o tail
           crc   == CrcHash(body)
           op    == Rol8(Xor8(p[3], first), crc[1])
           rol   == RolPayload(body, Rotation(crc))
<1>1. /\ n \in Half /\ n >= 6 /\ Len(p) \in Nat /\ n + 2 <= Len(p)
      /\ SubSeq(p, 1, 2) \in Seq(Byte) /\ Len(SubSeq(p, 1, 2)) = 2
      /\ pay \in Seq(Byte) /\ Len(pay) = n - 5
      /\ Rest(p) \in Seq(Byte)
      /\ \A i \in 1..Len(p) : p[i] \in Byte
  BY SoundParts
<1>2. n \in Nat
  BY <1>1 DEF Half
<1>3. p[3] \in Byte /\ p[8] \in Byte
  <2>. HIDE DEF n, pay
  <2>1. 3 \in 1..Len(p) /\ 8 \in 1..Len(p)
    BY <1>1, <1>2
  <2>. QED
    BY <1>1, <2>1
<1>4. first \in Byte
  BY <1>3, HeadMaskIsByte, Xor8Undo
<1>5. Encrypt(p) = SubSeq(p, 1, 2) \o <<op>> \o crc \o rol \o Rest(p)
  BY DEF Encrypt, Sealed, Enciphered, Closed
<1>. HIDE DEF n, pay, first
<1>6. Tail(pay) \in Seq(Byte) /\ Len(Tail(pay)) = Len(pay) - 1 /\ Len(pay) \in Nat
  <2>1. Len(pay) >= 1 /\ Len(pay) \in Nat
    BY <1>1, <1>2
  <2>. QED
    BY <1>1, <2>1, HeadAndTail, SMTT(60)
<1>7. tail \in Seq(Byte) /\ Len(tail) = Len(pay) - 1
  BY <1>4, <1>6, KeyedTwice, ZenonT(60)
<1>. HIDE DEF tail
<1>8. body \in Seq(Byte) /\ Len(body) = Len(pay) /\ body[1] = first /\ Tail(body) = tail
  <2>1. /\ <<first>> \o tail \in Seq(Byte) /\ Len(<<first>> \o tail) = 1 + Len(tail)
        /\ (<<first>> \o tail)[1] = first /\ Tail(<<first>> \o tail) = tail
    BY <1>4, <1>7, Prefixed, Zenon
  <2>. HIDE DEF body
  <2>2. 1 + Len(tail) = Len(pay)
    BY <1>6, <1>7
  <2>. QED
    BY <2>1, <2>2, Zenon DEF body
<1>. HIDE DEF body
<1>9. crc \in Seq(Byte) /\ Len(crc) = 4
  BY <1>8, CrcIsFourBytes
<1>. HIDE DEF crc
<1>10. rol \in Seq(Byte)
  BY <1>8, <1>9, RotationIsNat, PayloadTurns
<1>11. op \in Byte
  <2>1. crc[1] \in Nat
    <3>. HIDE DEF op, rol
    <3>1. 1 \in 1..Len(crc)
      BY <1>9
    <3>2. crc[1] \in Byte
      BY <1>9, <3>1, ElementOfSeq
    <3>. QED
      BY <3>2, BytesAreNat
  <2>2. Xor8(p[3], first) \in Byte
    BY <1>3, <1>4, Xor8Undo
  <2>. QED
    BY <2>1, <2>2, TurnBack DEF Rol8
<1>. HIDE DEF op, rol
<1>12. HasParts(Encrypt(p), SubSeq(p, 1, 2), op, crc, rol, Rest(p))
  BY <1>1, <1>5, <1>9, <1>10, <1>11, FrameParts, Zenon
<1>. QED
  BY <1>4, <1>8, <1>9, <1>11, <1>12 DEF first, pay, tail, crc, op, rol

(* The parts of the plaintext found in an enciphered frame.                *)
Carries(f, p, op, crc, rol) ==
  /\ f \in Seq(Byte) /\ Len(f) = Len(p) /\ Len16(f) = Len16(p) /\ ~Unsound(f)
  /\ HeadMask(f) = HeadMask(p)
  /\ f[3] = op /\ f[4] = crc[1] /\ SubSeq(f, 1, 2) = SubSeq(p, 1, 2)
  /\ SubSeq(f, 4, 7) = crc /\ Payload(f) = rol /\ Rest(f) = Rest(p)

LEMMA CipherParts ==
  ASSUME NEW p \in Seq(Byte), ~Unsound(p), NEW f, NEW op \in Byte,
         NEW crc \in Seq(Byte), Len(crc) = 4, NEW rol \in Seq(Byte),
         Len(rol) = Len(Payload(p)),
         HasParts(f, SubSeq(p, 1, 2), op, crc, rol, Rest(p))
  PROVE  Carries(f, p, op, crc, rol)
<1> DEFINE n == Len16(p)
<1>1. /\ n \in Half /\ n >= 6 /\ Len(p) \in Nat /\ n + 2 <= Len(p)
      /\ SubSeq(p, 1, 2)[1] = p[1] /\ SubSeq(p, 1, 2)[2] = p[2]
      /\ Len(Payload(p)) = n - 5
      /\ Len(Rest(p)) = Len(p) - n - 2
  BY SoundParts
<1>2. n \in Nat
  BY <1>1 DEF Half
<1>3. /\ f \in Seq(Byte) /\ Len(f) = 7 + Len(rol) + Len(Rest(p))
      /\ f[1] = p[1] /\ f[2] = p[2] /\ f[3] = op /\ f[4] = crc[1]
      /\ SubSeq(f, 1, 2) = SubSeq(p, 1, 2)
      /\ SubSeq(f, 4, 7) = crc
      /\ SubSeq(f, 8, 7 + Len(rol)) = rol
      /\ SubSeq(f, 8 + Len(rol), Len(f)) = Rest(p)
  BY <1>1 DEF HasParts
<1>4. Len16(f) = n
  BY <1>3 DEF Len16
<1>5. HeadMask(f) = HeadMask(p)
  BY <1>3, <1>4 DEF HeadMask
<1>. HIDE DEF n
<1>6. 7 + Len(rol) = n + 2 /\ 8 + Len(rol) = n + 3 /\ Len(f) = Len(p)
  <2>1. Len(f) = 7 + Len(rol) + Len(Rest(p))
    BY <1>3
  <2>2. Len(rol) = n - 5 /\ Len(Rest(p)) = Len(p) - n - 2 /\ Len(p) \in Nat
    BY <1>1
  <2>. QED
    BY <1>2, <2>1, <2>2
<1>7. Payload(f) = rol
  BY <1>3, <1>4, <1>6 DEF Payload
<1>8. Rest(f) = Rest(p)
  BY <1>3, <1>4, <1>6, ZenonT(60) DEF Rest
<1>9. ~Unsound(f)
  BY <1>1, <1>2, <1>4, <1>6 DEF Unsound
<1>. QED
  BY <1>3, <1>4, <1>5, <1>6, <1>7, <1>8, <1>9 DEF Carries, n

(* Both readers undo the turning, find the mask in the first byte of the   *)
(* payload, and take the keystream off with it.                            *)
LEMMA ClearBytes ==
  ASSUME NEW p \in Seq(Byte), ~Unsound(p),
         NEW first \in Byte, first = Xor8(HeadMask(p), p[8]), NEW c \in Nat
  PROVE  /\ Xor8(Ror8(Rol8(Xor8(p[3], first), c), c), first) = p[3]
         /\ Xor8(first, HeadMask(p)) = p[8]
         /\ Xor8(HeadMask(p), first) = p[8]
         /\ p[3] \in Byte /\ p[8] \in Byte
         /\ Keyed(Keyed(Tail(Payload(p)), first), first) \in Seq(Byte)
         /\ <<p[8]>> \o Keyed(Keyed(Tail(Payload(p)), first), first) = Payload(p)
<1> DEFINE n == Len16(p)
           h == HeadMask(p)
           pay == Payload(p)
<1>1. /\ n \in Half /\ n >= 6 /\ Len(p) \in Nat /\ n + 2 <= Len(p)
      /\ pay \in Seq(Byte) /\ Len(pay) = n - 5
      /\ \A i \in 1..(n - 5) : pay[i] = p[i + 7]
      /\ \A i \in 1..Len(p) : p[i] \in Byte
  BY SoundParts
<1>2. n \in Nat
  BY <1>1 DEF Half
<1>3. h \in Byte
  BY HeadMaskIsByte
<1>. HIDE DEF n, h, pay
<1>4. p[3] \in Byte /\ p[8] \in Byte /\ pay[1] = p[8] /\ Len(pay) >= 1
  <2>1. 3 \in 1..Len(p) /\ 8 \in 1..Len(p) /\ 1 \in 1..(n - 5) /\ n - 5 >= 1
    BY <1>1, <1>2
  <2>2. pay[1] = p[1 + 7]
    BY <1>1, <2>1
  <2>. QED
    BY <1>1, <2>1, <2>2
<1>5. first = Xor8(h, p[8]) /\ Xor8(h, p[8]) = Xor8(p[8], h) /\ Xor8(Xor8(p[8], h), h) = p[8]
  BY <1>3, <1>4, Xor8Undo DEF h
<1>6. Xor8(first, h) = p[8] /\ Xor8(h, first) = p[8]
  BY <1>3, <1>5, Xor8Undo
<1>7. Xor8(Ror8(Rol8(Xor8(p[3], first), c), c), first) = p[3]
  <2> DEFINE x == Xor8(p[3], first)
  <2>1. x \in Byte /\ Xor8(x, first) = p[3]
    BY <1>4, Xor8Undo
  <2>. HIDE DEF x
  <2>2. Ror8(Rol8(x, c), c) = x
    BY <2>1, TurnBack DEF Ror8, Rol8
  <2>. QED
    BY <2>1, <2>2 DEF x
<1>8. Tail(pay) \in Seq(Byte) /\ <<p[8]>> \o Tail(pay) = pay
  BY <1>1, <1>4, HeadAndTail
<1>9. Keyed(Keyed(Tail(pay), first), first) = Tail(pay)
  BY <1>8, KeyedTwice
<1>. QED
  BY <1>4, <1>6, <1>7, <1>8, <1>9, ZenonT(60) DEF h, pay

(* What was enciphered is deciphered: every frame the emulator's cipher    *)
(* closes it opens again, with a good checksum, and every byte but those   *)
(* of the checksum is the plaintext's (encrypt_frame and decrypt_frame of  *)
(* cipher.py).                                                             *)
THEOREM FrameRoundTrip ==
  ASSUME NEW p \in Seq(Byte), ~Unsound(p)
  PROVE  Decrypt(Encrypt(p)).ok /\ Recovers(Decrypt(Encrypt(p)).plain, p)
<1>1. PICK first \in Byte, body \in Seq(Byte), crc \in Seq(Byte) :
        /\ first = Xor8(HeadMask(p), p[8])
        /\ Len(body) = Len(Payload(p)) /\ body[1] = first
        /\ Tail(body) = Keyed(Tail(Payload(p)), first)
        /\ crc = CrcHash(body) /\ Len(crc) = 4
        /\ Rol8(Xor8(p[3], first), crc[1]) \in Byte
        /\ HasParts(Encrypt(p), SubSeq(p, 1, 2), Rol8(Xor8(p[3], first), crc[1]), crc,
                    RolPayload(body, Rotation(crc)), Rest(p))
  BY EncryptParts
<1> DEFINE f   == Encrypt(p)
           op  == Rol8(Xor8(p[3], first), crc[1])
           rol == RolPayload(body, Rotation(crc))
<1>2. /\ rol \in Seq(Byte) /\ Len(rol) = Len(Payload(p))
      /\ RorPayload(rol, Rotation(crc)) = body
  BY <1>1, RotationIsNat, PayloadTurns
<1>. HIDE DEF f, op, rol
<1>3. /\ ~Unsound(f) /\ HeadMask(f) = HeadMask(p)
      /\ f[3] = op /\ f[4] = crc[1] /\ SubSeq(f, 1, 2) = SubSeq(p, 1, 2)
      /\ SubSeq(f, 4, 7) = crc /\ Payload(f) = rol /\ Rest(f) = Rest(p)
  <2>1. op \in Byte /\ HasParts(f, SubSeq(p, 1, 2), op, crc, rol, Rest(p))
    BY <1>1 DEF f, op, rol
  <2>2. Carries(f, p, op, crc, rol)
    BY <1>1, <1>2, <2>1, CipherParts
  <2>. QED
    BY <2>2 DEF Carries
<1>4. Decrypt(f) = [ok |-> TRUE, plain |-> Opened(f, crc, body)]
  BY <1>1, <1>2, <1>3 DEF Decrypt, Checked
<1>5. /\ Xor8(Ror8(op, crc[1]), first) = p[3]
      /\ Xor8(first, HeadMask(p)) = p[8]
      /\ p[3] \in Byte /\ p[8] \in Byte /\ Keyed(Tail(body), first) \in Seq(Byte)
      /\ <<p[8]>> \o Keyed(Tail(body), first) = Payload(p)
  <2>1. crc[1] \in Nat
    <3>1. 1 \in 1..Len(crc)
      BY <1>1
    <3>. QED
      BY <3>1, ElementOfSeq, BytesAreNat
  <2>. QED
    BY <1>1, <2>1, ClearBytes, ZenonT(60) DEF op
<1>6. Opened(f, crc, body) = SubSeq(p, 1, 2) \o <<Xor8(Ror8(op, crc[1]), first)>> \o crc
                               \o (<<Xor8(first, HeadMask(p))>> \o Keyed(Tail(body), first))
                               \o Rest(p)
  BY <1>1, <1>3, Zenon DEF Opened
<1>7. Opened(f, crc, body) = SubSeq(p, 1, 2) \o <<p[3]>> \o crc \o Payload(p) \o Rest(p)
  BY <1>5, <1>6, Zenon
<1>8. Recovers(Opened(f, crc, body), p)
  BY <1>1, <1>7, ClearParts
<1>. QED
  BY <1>4, <1>8 DEF f

(* The recorder opens what the emulator's cipher closes: with the length   *)
(* of the frame known, every byte but those of the checksum is the         *)
(* plaintext's (_decrypt_inplace of v2cipher.py).                          *)
THEOREM SnifferRoundTrip ==
  ASSUME NEW p \in Seq(Byte), ~Unsound(p)
  PROVE  Recovers(SnifferOpen(Encrypt(p)), p)
<1>1. PICK first \in Byte, body \in Seq(Byte), crc \in Seq(Byte) :
        /\ first = Xor8(HeadMask(p), p[8])
        /\ Len(body) = Len(Payload(p)) /\ body[1] = first
        /\ Tail(body) = Keyed(Tail(Payload(p)), first)
        /\ crc = CrcHash(body) /\ Len(crc) = 4
        /\ Rol8(Xor8(p[3], first), crc[1]) \in Byte
        /\ HasParts(Encrypt(p), SubSeq(p, 1, 2), Rol8(Xor8(p[3], first), crc[1]), crc,
                    RolPayload(body, Rotation(crc)), Rest(p))
  BY EncryptParts
<1> DEFINE f   == Encrypt(p)
           op  == Rol8(Xor8(p[3], first), crc[1])
           rol == RolPayload(body, Rotation(crc))
<1>2. /\ rol \in Seq(Byte) /\ Len(rol) = Len(Payload(p))
      /\ RorPayload(rol, Rotation(crc)) = body
  BY <1>1, RotationIsNat, PayloadTurns
<1>. HIDE DEF f, op, rol
<1>3. /\ Len(f) = Len(p) /\ ~Unsound(f) /\ HeadMask(f) = HeadMask(p)
      /\ f[3] = op /\ f[4] = crc[1] /\ SubSeq(f, 1, 2) = SubSeq(p, 1, 2)
      /\ SubSeq(f, 4, 7) = crc /\ Payload(f) = rol /\ Rest(f) = Rest(p)
  <2>1. op \in Byte /\ HasParts(f, SubSeq(p, 1, 2), op, crc, rol, Rest(p))
    BY <1>1 DEF f, op, rol
  <2>2. Carries(f, p, op, crc, rol)
    BY <1>1, <1>2, <2>1, CipherParts
  <2>. QED
    BY <2>2 DEF Carries
<1>4. SnifferOpen(f) = Undone(f, body)
  <2>1. Len(f) >= 7
    <3>1. Len16(p) \in Half /\ Len16(p) >= 6 /\ Len(p) \in Nat /\ Len16(p) + 2 <= Len(p)
      BY SoundParts
    <3>2. Len16(p) \in Nat
      BY <3>1 DEF Half
    <3>3. Len(p) >= 7
      BY <3>1, <3>2
    <3>. QED
      BY <1>3, <3>3
  <2>2. ~(Len(f) < 7)
    BY <1>3, <2>1, LenProperties
  <2>. QED
    BY <1>2, <1>3, <2>2 DEF SnifferOpen
<1>5. /\ Xor8(Ror8(op, crc[1]), first) = p[3]
      /\ Xor8(HeadMask(p), first) = p[8] /\ Xor8(HeadMask(p), p[8]) = first
      /\ p[3] \in Byte /\ p[8] \in Byte /\ Keyed(Tail(body), first) \in Seq(Byte)
      /\ <<p[8]>> \o Keyed(Tail(body), first) = Payload(p)
  <2>1. crc[1] \in Nat
    <3>1. 1 \in 1..Len(crc)
      BY <1>1
    <3>. QED
      BY <3>1, ElementOfSeq, BytesAreNat
  <2>. QED
    BY <1>1, <2>1, ClearBytes, ZenonT(60) DEF op
<1>6. Undone(f, body) = SubSeq(p, 1, 2) \o <<Xor8(Ror8(op, crc[1]), first)>> \o crc
                          \o (<<p[8]>> \o Keyed(Tail(body), first)) \o Rest(p)
  BY <1>1, <1>3, <1>5, Zenon DEF Undone, Unsealed
<1>7. Undone(f, body) = SubSeq(p, 1, 2) \o <<p[3]>> \o crc \o Payload(p) \o Rest(p)
  BY <1>5, <1>6, Zenon
<1>8. Recovers(Undone(f, body), p)
  BY <1>1, <1>7, ClearParts
<1>. QED
  BY <1>4, <1>8 DEF f
=============================================================================
