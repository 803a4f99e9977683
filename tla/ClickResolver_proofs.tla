------------------------ MODULE ClickResolver_proofs ------------------------
(***************************************************************************)
(* Where the input replayer puts the mouse, for every window, screen,      *)
(* correction, length of the history, and whatever the screen shows.       *)
(*                                                                         *)
(* Only finitely many shifts are compared, so there is always a nearest    *)
(* match and a median (FirstExists); a place drawn to scale stays in the   *)
(* window since rounding keeps the order (RoundKeepsOrder). The invariant  *)
(* adds to the types that the shifts are the latest of the matches, that a *)
(* remembered press is not yet part of a double click, and that what a     *)
(* release reads is what its press wrote.                                  *)
(***************************************************************************)
EXTENDS ClickResolver, TLAPS, FiniteSetTheorems, SequenceTheorems, WellFoundedInduction

-----------------------------------------------------------------------------
(* Finite sets have extreme elements. *)

(* A total and transitive relation has a first element in every finite set *)
(* that is not empty: the smallest subset without one cannot lose one of   *)
(* its elements.                                                           *)
LEMMA FirstExists ==
  ASSUME NEW S, IsFiniteSet(S), S # {}, NEW R,
         \A x, y, z \in S : <<x, y>> \in R /\ <<y, z>> \in R => <<x, z>> \in R,
         \A x, y \in S : x = y \/ <<x, y>> \in R \/ <<y, x>> \in R
  PROVE  \E x \in S : \A y \in S \ {x} : <<x, y>> \in R
<1>. DEFINE HasFirst(T) == \E x \in T : \A y \in T \ {x} : <<x, y>> \in R
            Bad == {n \in Nat : \E T \in SUBSET S :
                      T # {} /\ Cardinality(T) = n /\ ~HasFirst(T)}
<1>1. SUFFICES ASSUME ~HasFirst(S) PROVE FALSE
  OBVIOUS
<1>2. Cardinality(S) \in Bad
  <2>1. Cardinality(S) \in Nat /\ S \in SUBSET S
    BY FS_CardinalityType
  <2>. QED
    BY <1>1, <2>1
<1>3. PICK n \in Bad : \A m \in Bad : ~ (<<m, n>> \in OpToRel(<, Nat))
  <2>1. Bad \subseteq Nat /\ Bad # {}
    BY <1>2
  <2>. HIDE DEF Bad
  <2>. QED
    BY <2>1, WFMin, NatLessThanWellFounded, Zenon
<1>4. PICK T \in SUBSET S : T # {} /\ Cardinality(T) = n /\ ~HasFirst(T)
  OBVIOUS
<1>5. PICK x \in T : TRUE
  BY <1>4
<1>. DEFINE U == T \ {x}
<1>6. IsFiniteSet(T)
  BY FS_Subset
<1>7. Cardinality(U) = n - 1 /\ Cardinality(U) \in Nat /\ U \in SUBSET S
  <2>1. IsFiniteSet(U) /\ Cardinality(U) = Cardinality(T) - 1
    BY <1>5, <1>6, FS_RemoveElement
  <2>. QED
    BY <1>4, <2>1, FS_CardinalityType
<1>8. U # {}
  BY <1>4, <1>5
<1>9. HasFirst(U)
  <2>1. n - 1 \notin Bad
    <3>1. n - 1 \in Nat /\ n \in Nat /\ n - 1 < n
      BY <1>7
    <3>2. <<n - 1, n>> \in OpToRel(<, Nat)
      BY <3>1 DEF OpToRel
    <3>. QED
      BY <1>3, <3>2
  <2>. QED
    BY <1>7, <1>8, <2>1
<1>10. PICK u \in U : \A y \in U \ {u} : <<u, y>> \in R
  BY <1>9
<1>11. CASE <<u, x>> \in R
  <2>1. \A y \in T \ {u} : <<u, y>> \in R
    BY <1>10, <1>11
  <2>. QED
    BY <1>4, <2>1
<1>12. CASE <<x, u>> \in R
  <2>1. \A y \in T \ {x} : <<x, y>> \in R
    BY <1>4, <1>5, <1>10, <1>12
  <2>. QED
    BY <1>4, <1>5, <2>1
<1>. QED
  BY <1>4, <1>5, <1>11, <1>12

LEMMA LeastValue ==
  ASSUME NEW K, IsFiniteSet(K), K # {}, NEW f, \A k \in K : f[k] \in Int
  PROVE  \E k \in K : \A j \in K : f[k] <= f[j]
<1>. DEFINE R == {e \in K \X K : f[e[1]] <= f[e[2]]}
<1>1. \A x, y \in K : <<x, y>> \in R <=> f[x] <= f[y]
  OBVIOUS
<1>. HIDE DEF R
<1>2. \E x \in K : \A y \in K \ {x} : <<x, y>> \in R
  <2>1. ASSUME NEW x \in K, NEW y \in K, NEW z \in K, <<x, y>> \in R, <<y, z>> \in R
        PROVE  <<x, z>> \in R
    <3>1. f[x] \in Int /\ f[y] \in Int /\ f[z] \in Int
      OBVIOUS
    <3>2. f[x] <= f[y] /\ f[y] <= f[z]
      BY <1>1, <2>1
    <3>3. f[x] <= f[z]
      BY <3>1, <3>2
    <3>. QED
      BY <1>1, <3>3
  <2>2. ASSUME NEW x \in K, NEW y \in K PROVE <<x, y>> \in R \/ <<y, x>> \in R
    <3>1. f[x] \in Int /\ f[y] \in Int
      OBVIOUS
    <3>2. f[x] <= f[y] \/ f[y] <= f[x]
      BY <3>1
    <3>. QED
      BY <1>1, <3>2
  <2>3. \A x, y, z \in K : <<x, y>> \in R /\ <<y, z>> \in R => <<x, z>> \in R
    BY <2>1
  <2>. QED
    BY <2>2, <2>3, FirstExists, SMTT(60)
<1>3. PICK x \in K : \A y \in K \ {x} : f[x] <= f[y]
  BY <1>1, <1>2
<1>4. \A j \in K : f[x] <= f[j]
  <2>1. f[x] \in Int
    OBVIOUS
  <2>. QED
    BY <1>3, <2>1
<1>. QED
  BY <1>4

LEMMA GreatestValue ==
  ASSUME NEW K, IsFiniteSet(K), K # {}, NEW f, \A k \in K : f[k] \in Int
  PROVE  \E k \in K : \A j \in K : f[j] <= f[k]
<1>. DEFINE g == [k \in K |-> -f[k]]
<1>1. \A k \in K : g[k] \in Int /\ g[k] = -f[k]
  OBVIOUS
<1>. HIDE DEF g
<1>2. \E k \in K : \A j \in K : g[k] <= g[j]
  BY <1>1, LeastValue
<1>. QED
  BY <1>1, <1>2

(* The upper median of n numbers: half of them lie on either side.         *)
LEMMA MedianSplits ==
  ASSUME NEW n \in Nat \ {0}, NEW f, \A k \in 1..n : f[k] \in Int, NEW v,
         v = Min({w \in {f[k] : k \in 1..n} :
                    Cardinality({k \in 1..n : f[k] <= w}) > n \div 2})
  PROVE  /\ v \in Int
         /\ 2 * Cardinality({k \in 1..n : f[k] <= v}) >= n
         /\ 2 * Cardinality({k \in 1..n : f[k] >= v}) >= n
<1>. DEFINE Below(w) == {k \in 1..n : f[k] <= w}
            Big == {k \in 1..n : Cardinality(Below(f[k])) > n \div 2}
            Under == {k \in 1..n : f[k] < v}
            Over == {k \in 1..n : f[k] >= v}
<1>1. IsFiniteSet(1..n) /\ Cardinality(1..n) = n /\ n \div 2 \in Nat /\ 2 * (n \div 2) <= n
      /\ n < 2 * (n \div 2) + 2 /\ n \div 2 < n
  <2>1. IsFiniteSet(1..n) /\ Cardinality(1..n) = n
    <3>1. 1 \in Int /\ n \in Int
      OBVIOUS
    <3>2. IsFiniteSet(1..n) /\ Cardinality(1..n) = IF 1 > n THEN 0 ELSE n - 1 + 1
      BY <3>1, FS_Interval
    <3>3. (IF 1 > n THEN 0 ELSE n - 1 + 1) = n
      OBVIOUS
    <3>. QED
      BY <3>2, <3>3
  <2>2. n \div 2 \in Nat /\ 2 * (n \div 2) <= n /\ n < 2 * (n \div 2) + 2 /\ n \div 2 < n
    OBVIOUS
  <2>. QED
    BY <2>1, <2>2
<1>2. \A S : S \subseteq 1..n => IsFiniteSet(S) /\ Cardinality(S) \in Nat
  BY <1>1, FS_Subset, FS_CardinalityType
<1>3. Big # {}
  <2>1. PICK k \in 1..n : \A j \in 1..n : f[j] <= f[k]
    <3>1. 1..n # {}
      OBVIOUS
    <3>. QED
      BY <1>1, <3>1, GreatestValue, Zenon
  <2>2. Below(f[k]) = 1..n
    BY <2>1
  <2>3. Cardinality(Below(f[k])) > n \div 2
    BY <1>1, <2>2
  <2>. QED
    BY <2>1, <2>3
<1>4. PICK k \in Big : \A j \in Big : f[k] <= f[j]
  <2>1. IsFiniteSet(Big)
    BY <1>2
  <2>2. \A j \in Big : f[j] \in Int
    OBVIOUS
  <2>. HIDE DEF Big
  <2>. QED
    BY <1>3, <2>1, <2>2, LeastValue
<1>5. v = f[k] /\ v \in Int
  <2>. DEFINE W == {w \in {f[j] : j \in 1..n} : Cardinality(Below(w)) > n \div 2}
  <2>1. f[k] \in W /\ \A w \in W : w \in Int /\ f[k] <= w
    BY <1>4
  <2>2. v = Min(W)
    OBVIOUS
  <2>. HIDE DEF W
  <2>3. Min(W) = CHOOSE x \in W : \A y \in W : x <= y
    BY DEF Min
  <2>4. \A x \in W : (\A y \in W : x <= y) => x = f[k]
    BY <2>1
  <2>. QED
    BY <2>1, <2>2, <2>3, <2>4
<1>6. Cardinality(Below(v)) > n \div 2
  BY <1>4, <1>5
<1>7. Cardinality(Under) <= n \div 2
  <2>1. CASE Under = {}
    <3>1. Cardinality(Under) = 0
      BY <2>1, FS_EmptySet, Zenon
    <3>. QED
      BY <1>1, <3>1
  <2>2. CASE Under # {}
    <3>1. PICK j \in Under : \A l \in Under : f[l] <= f[j]
      <4>1. IsFiniteSet(Under) /\ \A l \in Under : f[l] \in Int
        BY <1>2
      <4>. HIDE DEF Under
      <4>. QED
        BY <2>2, <4>1, GreatestValue
    <3>2. Below(f[j]) = Under
      <4>1. \A l \in 1..n : l \in Below(f[j]) <=> l \in Under
        BY <1>5, <3>1
      <4>. QED
        BY <4>1
    <3>3. j \notin Big
      BY <1>4, <1>5, <3>1
    <3>4. ~ (Cardinality(Below(f[j])) > n \div 2)
      BY <3>1, <3>3
    <3>5. Cardinality(Under) \in Nat
      BY <1>2
    <3>. HIDE DEF Below, Under
    <3>. QED
      BY <1>1, <3>2, <3>4, <3>5
  <2>. QED
    BY <2>1, <2>2
<1>8. Cardinality(Over) = n - Cardinality(Under)
  <2>1. Over = (1..n) \ Under /\ (1..n) \cap Under = Under
    <3>1. \A l \in 1..n : f[l] >= v <=> ~(f[l] < v)
      BY <1>5
    <3>2. \A l : l \in Over <=> l \in (1..n) \ Under
      BY <3>1
    <3>. QED
      BY <3>2
  <2>. HIDE DEF Over, Under
  <2>. QED
    BY <1>1, <2>1, FS_Difference, ZenonT(60)
<1>9. Cardinality(Below(v)) \in Nat /\ Cardinality(Over) \in Nat /\ Cardinality(Under) \in Nat
  BY <1>2
<1>10. 2 * Cardinality(Below(v)) >= n /\ 2 * Cardinality(Over) >= n
  <2>. HIDE DEF Below, Over, Under
  <2>. QED
    BY <1>1, <1>6, <1>7, <1>8, <1>9
<1>. QED
  BY <1>5, <1>10

-----------------------------------------------------------------------------
(* Rounding keeps the order, and with it everything drawn to scale. *)

LEMMA DivisionParts ==
  ASSUME NEW n \in Int, NEW d \in Nat \ {0}
  PROVE  /\ n \div d \in Int /\ n % d \in 0..(d - 1)
         /\ n = d * (n \div d) + (n % d)
OBVIOUS

LEMMA ProductKeepsOrder ==
  ASSUME NEW a \in Int, NEW b \in Int, NEW d \in Nat, a <= b
  PROVE  d * a \in Int /\ d * b \in Int /\ d * a <= d * b
OBVIOUS

LEMMA DivisionKeepsOrder ==
  ASSUME NEW m \in Int, NEW n \in Int, NEW d \in Nat \ {0}, m <= n
  PROVE  /\ m \div d <= n \div d
         /\ m \div d = n \div d => m % d <= n % d
<1>. DEFINE p == m \div d
            q == n \div d
            e == d * p
            f == d * q
<1>1. /\ p \in Int /\ q \in Int /\ e \in Int /\ f \in Int
      /\ m % d \in 0..(d - 1) /\ n % d \in 0..(d - 1)
      /\ m = e + (m % d) /\ n = f + (n % d)
  BY DivisionParts
<1>2. p <= q
  <2>. SUFFICES ASSUME q + 1 <= p PROVE FALSE
    BY <1>1
  <2>1. d * (q + 1) <= e
    BY <1>1, ProductKeepsOrder
  <2>2. d * (q + 1) = f + d
    BY <1>1
  <2>. HIDE DEF p, q, e, f
  <2>. QED
    BY <1>1, <2>1, <2>2
<1>3. p = q => e = f
  OBVIOUS
<1>4. p = q => m % d <= n % d
  <2>. HIDE DEF p, q, e, f
  <2>. QED
    BY <1>1, <1>3
<1>. QED
  BY <1>2, <1>4

LEMMA RoundIsInt ==
  ASSUME NEW n \in Int, NEW d \in Nat \ {0}
  PROVE  Round(n, d) \in Int /\ n \div d <= Round(n, d) /\ Round(n, d) <= (n \div d) + 1
BY DivisionParts DEF Round

LEMMA RoundKeepsOrder ==
  ASSUME NEW m \in Int, NEW n \in Int, NEW d \in Nat \ {0}, m <= n
  PROVE  Round(m, d) <= Round(n, d)
<1>1. m \div d \in Int /\ n \div d \in Int /\ m % d \in 0..(d - 1) /\ n % d \in 0..(d - 1)
  BY DivisionParts
<1>0. /\ Round(m, d) \in Int /\ Round(n, d) \in Int
      /\ Round(m, d) <= (m \div d) + 1 /\ n \div d <= Round(n, d)
  BY RoundIsInt
<1>2. CASE m \div d < n \div d
  BY <1>0, <1>1, <1>2
<1>3. CASE m \div d = n \div d
  <2>1. m % d <= n % d
    BY <1>3, DivisionKeepsOrder
  <2>2. CASE m % d = n % d
    BY <1>3, <2>2 DEF Round
  <2>3. CASE m % d < n % d
    BY <1>1, <1>3, <2>3 DEF Round
  <2>. QED
    BY <1>1, <2>1, <2>2, <2>3
<1>4. m \div d <= n \div d
  BY DivisionKeepsOrder
<1>. QED
  BY <1>1, <1>2, <1>3, <1>4

LEMMA RoundExact ==
  ASSUME NEW k \in Int, NEW d \in Nat \ {0}
  PROVE  Round(d * k, d) = k
<1>. DEFINE n == d * k
            q == n \div d
            e == d * q
<1>1. /\ n \in Int /\ q \in Int /\ e \in Int /\ n % d \in 0..(d - 1) /\ n = e + (n % d)
  <2>1. n \in Int
    OBVIOUS
  <2>. HIDE DEF n
  <2>. QED
    BY <2>1, DivisionParts
<1>2. q = k
  <2>1. ~ (q + 1 <= k)
    <3>. SUFFICES ASSUME q + 1 <= k PROVE FALSE
      OBVIOUS
    <3>1. d * (q + 1) <= n
      BY <1>1, ProductKeepsOrder
    <3>2. d * (q + 1) = e + d
      BY <1>1
    <3>. HIDE DEF n, q, e
    <3>. QED
      BY <1>1, <3>1, <3>2
  <2>2. ~ (k + 1 <= q)
    <3>. SUFFICES ASSUME k + 1 <= q PROVE FALSE
      OBVIOUS
    <3>1. d * (k + 1) <= e
      BY <1>1, ProductKeepsOrder
    <3>2. d * (k + 1) = n + d
      BY <1>1
    <3>. HIDE DEF n, q, e
    <3>. QED
      BY <1>1, <3>1, <3>2
  <2>. HIDE DEF n, q, e
  <2>. QED
    BY <1>1, <2>1, <2>2
<1>3. n % d = 0
  <2>1. e = n
    BY <1>2
  <2>. HIDE DEF n, q, e
  <2>. QED
    BY <1>1, <2>1
<1>4. Round(n, d) = q
  <2>. HIDE DEF n
  <2>. QED
    BY <1>1, <1>3 DEF Round
<1>. QED
  BY <1>2, <1>4

LEMMA ClampBounds ==
  ASSUME NEW v \in Int, NEW low \in Int, NEW high \in Int, low <= high
  PROVE  Clamp(v, low, high) \in low..high
BY DEF Clamp

(* The place of a click in the window is in the window. *)
LEMMA MapClientInWindow ==
  ASSUME NEW p \in Points, NEW r \in Areas
  PROVE  /\ MapClient(p, r) \in Points
         /\ \A i \in {1, 2} : MapClient(p, r)[i] \in 0..r.size[i]
<1>. DEFINE v(i) == Clamp(p[i] - Offset[i], 0, Game[i])
            axis(i) == Round(v(i) * r.size[i], Game[i])
<1>1. ASSUME NEW i \in {1, 2} PROVE axis(i) \in 0..r.size[i]
  <2>. DEFINE g == Game[i]
              s == r.size[i]
              c == v(i)
  <2>1. g \in Nat \ {0} /\ s \in Nat \ {0} /\ p[i] - Offset[i] \in Int
    BY <1>1, ClickAssumption, PixelAssumption DEF Points, Areas
  <2>2. c \in 0..g
    <3>1. 0 \in Int /\ g \in Int /\ 0 <= g
      BY <2>1
    <3>. HIDE DEF g
    <3>2. \A u \in Int : Clamp(u, 0, g) \in 0..g
      BY <3>1, ClampBounds
    <3>. QED
      BY <2>1, <3>2 DEF g
  <2>. HIDE DEF c, g, s
  <2>3. c * s \in Int /\ g * 0 <= c * s /\ c * s <= g * s
    <3>1. s * 0 <= s * c /\ s * c <= s * g /\ s * c \in Int
      BY <2>1, <2>2, ProductKeepsOrder
    <3>2. s * c = c * s /\ s * g = g * s /\ s * 0 = 0 /\ g * 0 = 0
      BY <2>1, <2>2
    <3>. QED
      BY <3>1, <3>2
  <2>4. g * 0 \in Int /\ g * s \in Int
    BY <2>1
  <2>5. Round(g * 0, g) = 0 /\ Round(g * s, g) = s
    BY <2>1, RoundExact
  <2>6. 0 <= Round(c * s, g) /\ Round(c * s, g) <= s /\ Round(c * s, g) \in Int
    BY <2>1, <2>3, <2>4, <2>5, RoundKeepsOrder, RoundIsInt
  <2>. QED
    BY <2>1, <2>6 DEF c, g, s
<1>2. r.size[1] \in Nat /\ r.size[2] \in Nat
  BY DEF Areas
<1>3. MapClient(p, r) = <<axis(1), axis(2)>>
  BY DEF MapClient
<1>. HIDE DEF axis
<1>. QED
  BY <1>1, <1>2, <1>3 DEF Points

LEMMA AbsKeepsOrder ==
  ASSUME NEW p \in Points, NEW q \in Points, NEW i \in {1, 2}, p[i] <= q[i]
  PROVE  /\ ScreenToAbs(p) \in Points /\ ScreenToAbs(q) \in Points
         /\ ScreenToAbs(p)[i] <= ScreenToAbs(q)[i]
<1>. DEFINE x(u, j) == (u[j] - Screen.at[j]) * 65535
            axis(u, j) == Clamp(Round(x(u, j), Screen.size[j]), 0, 65535)
<1>1. \A j \in {1, 2} : Screen.at[j] \in Int /\ Screen.size[j] \in Nat \ {0}
  BY PixelAssumption DEF Points, Areas
<1>2. \A u \in Points : \A j \in {1, 2} : u[j] \in Int /\ x(u, j) \in Int
  BY <1>1 DEF Points
<1>3. \A u \in Points : \A j \in {1, 2} : Round(x(u, j), Screen.size[j]) \in Int
  <2>. HIDE DEF x
  <2>. QED
    BY <1>1, <1>2, RoundIsInt
<1>4. x(p, i) <= x(q, i)
  BY <1>1, <1>2
<1>5. Round(x(p, i), Screen.size[i]) <= Round(x(q, i), Screen.size[i])
  <2>. HIDE DEF x
  <2>. QED
    BY <1>1, <1>2, <1>4, RoundKeepsOrder
<1>6. axis(p, i) <= axis(q, i)
  <2>. HIDE DEF x
  <2>. QED
    BY <1>1, <1>3, <1>5 DEF Clamp
<1>7. \A u \in Points : \A j \in {1, 2} : axis(u, j) \in Int
  <2>. HIDE DEF x
  <2>. QED
    BY <1>3 DEF Clamp
<1>8. \A u : ScreenToAbs(u) = <<axis(u, 1), axis(u, 2)>>
  BY DEF ScreenToAbs
<1>. HIDE DEF axis
<1>. QED
  BY <1>6, <1>7, <1>8 DEF Points

-----------------------------------------------------------------------------
(* What is found on the screen, and what is learned from it. *)

LEMMA NearerOrders ==
  /\ \A s, t, u \in Points : Nearer(s, t) /\ Nearer(t, u) => Nearer(s, u)
  /\ \A s, t \in Points : s = t \/ Nearer(s, t) \/ Nearer(t, s)
<1>. DEFINE square(v) == v[1] * v[1] + v[2] * v[2]
<1>1. \A s \in Points : square(s) \in Int /\ s[1] \in Int /\ s[2] \in Int /\ s = <<s[1], s[2]>>
  BY DEF Points
<1>2. \A s, t : Nearer(s, t) <=>
        \/ square(s) < square(t)
        \/ square(s) = square(t) /\ (s[2] < t[2] \/ (s[2] = t[2] /\ s[1] < t[1]))
  BY DEF Nearer
<1>. HIDE DEF square
<1>3. ASSUME NEW s \in Points, NEW t \in Points, NEW u \in Points, Nearer(s, t), Nearer(t, u)
      PROVE  Nearer(s, u)
  BY <1>1, <1>2, <1>3
<1>4. ASSUME NEW s \in Points, NEW t \in Points PROVE s = t \/ Nearer(s, t) \/ Nearer(t, s)
  <2>1. s[1] = t[1] /\ s[2] = t[2] => s = t
    BY <1>1
  <2>. QED
    BY <1>1, <1>2, <2>1
<1>. QED
  BY <1>3, <1>4

(* A match is a shift the picture knows, and leaves the whole patch inside *)
(* the window.                                                             *)
LEMMA MatchInPicture ==
  ASSUME NEW pic \in Pictures, NEW rec, NEW size, NEW half,
         NEW found, found = BestMatch(Cells(pic, rec, size, half))
  PROVE  \/ found = None
         \/ /\ found \in Points
            /\ \A i \in {1, 2} : Plus(rec, found)[i] \in half..(size[i] - half)
<1>. DEFINE S == {s \in DOMAIN pic :
                    \A i \in {1, 2} : Plus(rec, s)[i] \in half..(size[i] - half)}
            cells == Cells(pic, rec, size, half)
            best == Max(Range(cells))
            tied == {s \in S : cells[s] >= best - CV_PEAK_TIE_MARGIN}
<1>1. IsFiniteSet(S) /\ S \subseteq Points
  BY PixelAssumption, FS_Subset
<1>2. DOMAIN cells = S /\ \A s \in S : cells[s] \in Int
  <2>1. cells = [s \in S |-> pic[s]]
    BY DEF Cells, Restrict
  <2>. QED
    BY <2>1, PixelAssumption
<1>3. SUFFICES ASSUME S # {} PROVE found = None \/ found \in S
  <2>1. S = {} => found = None
    BY <1>2 DEF BestMatch
  <2>. QED
    BY <1>1, <2>1
<1>4. PICK top \in S : cells[top] = best
  <2>1. PICK top \in S : \A s \in S : cells[s] <= cells[top]
    <3>. HIDE DEF S, cells
    <3>. QED
      BY <1>1, <1>2, <1>3, GreatestValue
  <2>2. /\ cells[top] \in Range(cells)
        /\ \A v \in Range(cells) : v \in Int /\ v <= cells[top]
    BY <1>2, <2>1 DEF Range
  <2>3. best = CHOOSE x \in Range(cells) : \A y \in Range(cells) : x >= y
    BY DEF Max
  <2>. HIDE DEF cells, best
  <2>. QED
    BY <2>1, <2>2, <2>3
<1>5. top \in tied /\ IsFiniteSet(tied) /\ tied \subseteq Points /\ tied # {}
  <2>1. top \in tied
    BY <1>2, <1>4 DEF CV_PEAK_TIE_MARGIN
  <2>2. IsFiniteSet(tied)
    BY <1>1, FS_Subset
  <2>. QED
    BY <1>1, <2>1, <2>2
<1>6. \E s \in tied : \A t \in tied \ {s} : Nearer(s, t)
  <2>. DEFINE R == {e \in tied \X tied : Nearer(e[1], e[2])}
  <2>1. \A s, t \in tied : <<s, t>> \in R <=> Nearer(s, t)
    OBVIOUS
  <2>. HIDE DEF R, tied
  <2>2. \A x, y, z \in tied : <<x, y>> \in R /\ <<y, z>> \in R => <<x, z>> \in R
    <3>. SUFFICES ASSUME NEW x \in tied, NEW y \in tied, NEW z \in tied,
                         <<x, y>> \in R, <<y, z>> \in R
                  PROVE  <<x, z>> \in R
      OBVIOUS
    <3>1. x \in Points /\ y \in Points /\ z \in Points /\ Nearer(x, y) /\ Nearer(y, z)
      BY <1>5, <2>1
    <3>. QED
      BY <2>1, <3>1, NearerOrders
  <2>3. \A x, y \in tied : x = y \/ <<x, y>> \in R \/ <<y, x>> \in R
    BY <1>5, <2>1, NearerOrders
  <2>4. \E s \in tied : \A t \in tied \ {s} : <<s, t>> \in R
    <3>1. IsFiniteSet(tied) /\ tied # {}
      BY <1>5
    <3>. QED
      BY <2>2, <2>3, <3>1, FirstExists, SMTT(60)
  <2>. QED
    BY <2>1, <2>4
<1>7. \/ found = None
      \/ found = CHOOSE s \in tied : \A t \in tied \ {s} : Nearer(s, t)
  BY <1>2 DEF BestMatch
<1>8. found = None \/ found \in tied
  <2>. HIDE DEF tied
  <2>. QED
    BY <1>6, <1>7
<1>. QED
  BY <1>8

LEMMA MinOfTwo ==
  ASSUME NEW a \in Int, NEW b \in Int
  PROVE  Min({a, b}) = IF a <= b THEN a ELSE b
<1>. DEFINE c == IF a <= b THEN a ELSE b
<1>1. c \in {a, b} /\ \A y \in {a, b} : c <= y
  OBVIOUS
<1>2. \A x \in {a, b} : (\A y \in {a, b} : x <= y) => x = c
  OBVIOUS
<1>. QED
  BY <1>1, <1>2 DEF Min

LEMMA MaxOfTwo ==
  ASSUME NEW a \in Int, NEW b \in Int
  PROVE  Max({a, b}) = IF a >= b THEN a ELSE b
<1>. DEFINE c == IF a >= b THEN a ELSE b
<1>1. c \in {a, b} /\ \A y \in {a, b} : c >= y
  OBVIOUS
<1>2. \A x \in {a, b} : (\A y \in {a, b} : x >= y) => x = c
  OBVIOUS
<1>. QED
  BY <1>1, <1>2 DEF Max

(* The last so many shifts of m, oldest first. *)
Latest(s, m, most) ==
  /\ Len(s) = IF Len(m) <= most THEN Len(m) ELSE most
  /\ \A k \in 1..Len(s) : s[k] = m[Len(m) - Len(s) + k]

LEMMA LearnKeepsLatest ==
  ASSUME NEW s \in Seq(Points), NEW d \in Points, NEW m \in Seq(Points), NEW most \in Nat \ {0},
         Latest(s, m, most)
  PROVE  Learn(s, d, most) \in Seq(Points) /\ Latest(Learn(s, d, most), Append(m, d), most)
<1>. DEFINE l == Len(m)
            n == Len(s)
            a == Append(s, d)
            b == Append(m, d)
            t == Tail(a)
<1>1. /\ l \in Nat /\ n \in Nat /\ most \in Nat /\ most >= 1
      /\ n = IF l <= most THEN l ELSE most
      /\ \A k \in 1..n : s[k] = m[l - n + k]
  <2>1. l \in Nat /\ n \in Nat /\ most \in Nat /\ most >= 1
    OBVIOUS
  <2>2. n = IF l <= most THEN l ELSE most
    BY DEF Latest
  <2>3. \A k \in 1..n : s[k] = m[l - n + k]
    BY DEF Latest
  <2>. QED
    BY <2>1, <2>2, <2>3
<1>2. /\ a \in Seq(Points) /\ Len(a) = n + 1 /\ a[n + 1] = d /\ a # <<>>
      /\ \A k \in 1..n : a[k] = s[k]
  BY AppendProperties
<1>3. /\ Len(b) = l + 1 /\ b[l + 1] = d
      /\ \A k \in 1..l : b[k] = m[k]
  BY AppendProperties
<1>4. t \in Seq(Points) /\ Len(t) = n /\ \A k \in 1..n : t[k] = a[k + 1]
  <2>. HIDE DEF a
  <2>1. t \in Seq(Points) /\ Len(t) = Len(a) - 1 /\ \A k \in 1..Len(t) : t[k] = a[k + 1]
    BY <1>2, HeadTailProperties
  <2>2. Len(t) = n
    BY <1>1, <1>2, <2>1
  <2>. QED
    BY <2>1, <2>2
<1>5. Learn(s, d, most) = IF Len(a) > most THEN t ELSE a
  BY DEF Learn
<1>. HIDE DEF a, b, t, l, n
<1>6. CASE l + 1 <= most
  <2>1. n = l /\ ~ (Len(a) > most)
    BY <1>1, <1>2, <1>6
  <2>2. ASSUME NEW k \in 1..(n + 1) PROVE a[k] = b[l + 1 - (n + 1) + k]
    <3>1. CASE k = n + 1
      BY <1>1, <1>2, <1>3, <2>1, <3>1
    <3>2. CASE k \in 1..n
      <4>1. l + 1 - (n + 1) + k = k /\ l - n + k = k
        BY <1>1, <2>1
      <4>2. a[k] = m[k] /\ b[k] = m[k]
        BY <1>1, <1>2, <1>3, <2>1, <3>2, <4>1
      <4>. QED
        BY <4>1, <4>2
    <3>. QED
      BY <1>1, <3>1, <3>2
  <2>3. Latest(a, b, most)
    BY <1>1, <1>2, <1>3, <1>6, <2>1, <2>2 DEF Latest
  <2>. QED
    BY <1>2, <1>5, <2>1, <2>3 DEF b
<1>7. CASE l + 1 > most
  <2>1. n = most /\ Len(a) > most
    BY <1>1, <1>2, <1>7
  <2>2. ASSUME NEW k \in 1..n PROVE t[k] = b[l + 1 - n + k]
    <3>0. t[k] = a[k + 1]
      BY <1>4
    <3>1. CASE k = n
      <4>1. l + 1 - n + k = l + 1
        BY <1>1, <3>1
      <4>. QED
        BY <1>2, <1>3, <3>0, <3>1, <4>1
    <3>2. CASE k + 1 \in 1..n
      <4>1. l + 1 - n + k = l - n + (k + 1) /\ l - n + (k + 1) \in 1..l
        BY <1>1, <1>7, <2>1, <3>2
      <4>2. a[k + 1] = m[l - n + (k + 1)]
        BY <1>1, <1>2, <3>2
      <4>3. b[l - n + (k + 1)] = m[l - n + (k + 1)]
        BY <1>3, <4>1
      <4>. QED
        BY <3>0, <4>1, <4>2, <4>3
    <3>. QED
      BY <1>1, <3>1, <3>2
  <2>3. Latest(t, b, most)
    BY <1>1, <1>3, <1>4, <1>7, <2>1, <2>2 DEF Latest
  <2>. QED
    BY <1>4, <1>5, <2>1, <2>3 DEF b
<1>. QED
  BY <1>1, <1>6, <1>7

LEMMA MedianOfShifts ==
  ASSUME NEW s \in Seq(Points), NEW i \in {1, 2}
  PROVE  /\ Median(s) \in Points
         /\ s = <<>> => Median(s)[i] = 0
         /\ s # <<>> =>
              /\ 2 * Cardinality({k \in 1..Len(s) : s[k][i] <= Median(s)[i]}) >= Len(s)
              /\ 2 * Cardinality({k \in 1..Len(s) : s[k][i] >= Median(s)[i]}) >= Len(s)
<1>1. CASE s = <<>>
  BY <1>1 DEF Median, Points
<1>2. CASE s # <<>>
  <2>. DEFINE n == Len(s)
              f(j) == [k \in 1..n |-> s[k][j]]
              axis(j) == Min({v \in {s[k][j] : k \in 1..n} :
                                Cardinality({k \in 1..n : s[k][j] <= v}) > n \div 2})
  <2>1. n \in Nat \ {0}
    BY <1>2
  <2>2. \A k \in 1..n : \A j \in {1, 2} : s[k][j] \in Int
    BY DEF Points
  <2>3. Median(s) = <<axis(1), axis(2)>>
    BY <1>2 DEF Median
  <2>4. ASSUME NEW j \in {1, 2}
        PROVE  /\ axis(j) \in Int
               /\ 2 * Cardinality({k \in 1..n : s[k][j] <= axis(j)}) >= n
               /\ 2 * Cardinality({k \in 1..n : s[k][j] >= axis(j)}) >= n
    <3>. DEFINE g == f(j)
    <3>1. /\ \A k \in 1..n : g[k] = s[k][j] /\ g[k] \in Int
          /\ \A v : {k \in 1..n : s[k][j] <= v} = {k \in 1..n : g[k] <= v}
          /\ \A v : {k \in 1..n : s[k][j] >= v} = {k \in 1..n : g[k] >= v}
          /\ {s[k][j] : k \in 1..n} = {g[k] : k \in 1..n}
      BY <2>2
    <3>2. axis(j) = Min({v \in {g[k] : k \in 1..n} :
                           Cardinality({k \in 1..n : g[k] <= v}) > n \div 2})
      BY <3>1, Zenon
    <3>. DEFINE v == axis(j)
    <3>. HIDE DEF g, n, v
    <3>3. /\ v \in Int
          /\ 2 * Cardinality({k \in 1..n : g[k] <= v}) >= n
          /\ 2 * Cardinality({k \in 1..n : g[k] >= v}) >= n
      <4>1. \A k \in 1..n : g[k] \in Int
        BY <3>1
      <4>2. v = Min({w \in {g[k] : k \in 1..n} :
                       Cardinality({k \in 1..n : g[k] <= w}) > n \div 2})
        BY <3>2 DEF v
      <4>. QED
        BY <2>1, <4>1, <4>2, MedianSplits
    <3>. QED
      BY <3>1, <3>3 DEF v
  <2>5. Median(s)[1] = axis(1) /\ Median(s)[2] = axis(2)
    BY <2>3
  <2>6. Median(s) \in Points
    <3>. HIDE DEF axis
    <3>. QED
      BY <2>3, <2>4 DEF Points
  <2>7. Median(s)[i] = axis(i)
    BY <2>5
  <2>. QED
    BY <1>2, <2>4, <2>6, <2>7
<1>. QED
  BY <1>1, <1>2

-----------------------------------------------------------------------------
(* The invariant. *)

(* The rest of the types; the shifts are the latest of the matches. *)
HistoryOK ==
  /\ matches \in Seq(Points) /\ Latest(shifts, matches, ShiftHistoryMax)
  /\ DOMAIN lastDown = Buttons /\ DOMAIN press = Buttons
  /\ downs \in [Buttons -> Nat] /\ doubles \in [Buttons -> Nat]

ITypeOK == TypeOK /\ HistoryOK

(* A press that may still become half of a double click is spare. *)
PairInv ==
  \A b \in Buttons : 2 * doubles[b] + (IF lastDown[b] # None THEN 1 ELSE 0) <= downs[b]

(* Where a press with a patch was delivered, the release can still find. *)
PressInv ==
  \A b \in Buttons : press[b] # None /\ press[b].patch =>
    /\ refreshed
    /\ lastDownRec[b] = press[b].rec /\ lastCv[b] # None
    /\ press[b].at = IF mode = "postmessage" THEN lastCv[b]
                     ELSE ScreenToAbs(Plus(rect.at, lastCv[b]))

(* Nothing is learned before the first button event. *)
FreshInv ==
  ~refreshed =>
    /\ shifts = <<>>
    /\ \A b \in Buttons : lastCv[b] = None /\ lastDownRec[b] = None

ClickInv == ITypeOK /\ PairInv /\ PressInv /\ FreshInv

(* The steps that leave what was learned and pressed as it is. *)
Quiet == UNCHANGED <<mode, resolveVars, pairVars, press, matches, downs>>

LEMMA PointsAddUp ==
  ASSUME NEW p \in Points, NEW q \in Points
  PROVE  /\ Plus(p, q) \in Points /\ Minus(p, q) \in Points /\ Plus(p, q) # None
         /\ \A i \in {1, 2} : /\ p[i] \in Int /\ q[i] \in Int
                              /\ Plus(p, q)[i] = p[i] + q[i] /\ Minus(p, q)[i] = p[i] - q[i]
BY DEF Points, Plus, Minus, None

LEMMA RectRead ==
  ASSUME ITypeOK, Refresh
  PROVE  /\ rect' \in Areas /\ rect' \in Windows /\ rect'.at \in Points /\ refreshed'
         /\ refreshed => rect' = rect
         /\ ~refreshed => rect' = live
BY PixelAssumption DEF ITypeOK, TypeOK, Refresh, ClientRect, Areas

(* A press without a match is delivered to a point, too. *)
LEMMA PressedIsPoint ==
  ASSUME ITypeOK, Refresh, NEW p \in Places, NEW c \in Points \cup {None}
  PROVE  /\ MapClient(p, rect') \in Points /\ MapCoords(p, rect') \in Points
         /\ Pressed(c, p) \in Points
<1>1. p \in Points /\ Correction \in Points
  BY PixelAssumption
<1>2. MapClient(p, rect') \in Points
  BY <1>1, RectRead, MapClientInWindow
<1>3. MapCoords(p, rect') \in Points
  BY <1>1, <1>2, RectRead, PointsAddUp DEF MapCoords
<1>. QED
  BY <1>2, <1>3, RectRead, PointsAddUp DEF Pressed

(* What a press with a patch does. *)
LEMMA PatchedPress ==
  ASSUME ITypeOK, NEW b \in Buttons, NEW p \in Places, NEW gap \in Gaps, NEW pic \in Pictures,
         PressPatch(b, p, gap, pic)
  PROVE  \E found \in Points \cup {None} :
           LET rec == MapClient(p, rect')
               c   == Plus(rec, IF found # None THEN found ELSE Median(shifts))
           IN  /\ rec \in Points /\ c \in Points
               /\ found # None =>
                    \A i \in {1, 2} : c[i] \in PatchHalf..(live.size[i] - PatchHalf)
               /\ lastDownRec' = [lastDownRec EXCEPT ![b] = rec]
               /\ lastCv' = [lastCv EXCEPT ![b] = c]
               /\ IF found # None
                  THEN /\ shifts' = Learn(shifts, found, ShiftHistoryMax)
                       /\ matches' = Append(matches, found)
                  ELSE UNCHANGED <<shifts, matches>>
               /\ Deliver(b, p, c)
               /\ press' = [press EXCEPT ![b] = [rec |-> rec, at |-> Target(c, p), patch |-> TRUE]]
<1>1. Refresh
  BY DEF PressPatch
<1>. DEFINE rec == MapClient(p, rect')
            found == BestMatch(Cells(pic, rec, live.size, PatchHalf))
            c == Plus(rec, IF found # None THEN found ELSE Median(shifts))
<1>2. /\ lastDownRec' = [lastDownRec EXCEPT ![b] = rec]
      /\ lastCv' = [lastCv EXCEPT ![b] = c]
      /\ IF found # None
         THEN /\ shifts' = Learn(shifts, found, ShiftHistoryMax)
              /\ matches' = Append(matches, found)
         ELSE UNCHANGED <<shifts, matches>>
      /\ Deliver(b, p, c)
      /\ press' = [press EXCEPT ![b] = [rec |-> rec, at |-> Target(c, p), patch |-> TRUE]]
  BY DEF PressPatch, ClientRect
<1>3. \/ found = None
      \/ /\ found \in Points
         /\ \A i \in {1, 2} : Plus(rec, found)[i] \in PatchHalf..(live.size[i] - PatchHalf)
  <2>. HIDE DEF rec
  <2>. QED
    BY MatchInPicture
<1>4. rec \in Points
  BY <1>1, PressedIsPoint
<1>5. Median(shifts) \in Points
  BY MedianOfShifts DEF ITypeOK, TypeOK
<1>6. c \in Points
  <2>. HIDE DEF rec, found
  <2>. QED
    BY <1>3, <1>4, <1>5, PointsAddUp
<1>. HIDE DEF found, rec
<1>7. found \in Points \cup {None}
  BY <1>3
<1>. QED
  BY <1>2, <1>3, <1>4, <1>6, <1>7 DEF rec

LEMMA ClickInit == Init => ClickInv
<1>. SUFFICES ASSUME Init PROVE ClickInv
  OBVIOUS
<1>1. TypeOK
  <2>1. shifts \in Seq(Points) /\ Len(shifts) <= ShiftHistoryMax
    BY ClickAssumption DEF Init
  <2>2. /\ lastCv \in [Buttons -> Points \cup {None}]
        /\ lastDownRec \in [Buttons -> Points \cup {None}]
        /\ \A b \in Buttons : lastDown[b] = None
    BY DEF Init
  <2>3. /\ mode \in {"sendinput", "postmessage"} /\ live \in Windows /\ rect \in Windows
        /\ refreshed \in BOOLEAN /\ halted \in BOOLEAN
    BY DEF Init
  <2>. QED
    BY <2>1, <2>2, <2>3 DEF TypeOK
<1>2. HistoryOK
  BY ClickAssumption DEF Init, HistoryOK, Latest
<1>. QED
  BY <1>1, <1>2 DEF Init, ClickInv, ITypeOK, PairInv, PressInv, FreshInv

(* A release and every step that is not a press: the window may have been  *)
(* looked at, nothing else that the invariant speaks of changes.           *)
LEMMA QuietSteps ==
  ASSUME ClickInv, Quiet, live' \in Windows, rect' \in Windows, halted' \in BOOLEAN,
         refreshed' \in BOOLEAN, refreshed => refreshed' /\ rect' = rect
  PROVE  ClickInv'
<1>1. ITypeOK'
  BY DEF ClickInv, ITypeOK, TypeOK, HistoryOK, Latest, Quiet, resolveVars, pairVars
<1>2. PairInv' /\ FreshInv'
  BY DEF ClickInv, PairInv, FreshInv, Quiet, resolveVars, pairVars
<1>3. PressInv'
  <2>. SUFFICES ASSUME NEW a \in Buttons, press'[a] # None, press'[a].patch
                PROVE  /\ refreshed'
                       /\ lastDownRec'[a] = press'[a].rec /\ lastCv'[a] # None
                       /\ press'[a].at = IF mode' = "postmessage" THEN lastCv'[a]
                                         ELSE ScreenToAbs(Plus(rect'.at, lastCv'[a]))
    BY DEF PressInv, ScreenToAbs
  <2>. QED
    BY DEF ClickInv, PressInv, Quiet, resolveVars
<1>. QED
  BY <1>1, <1>2, <1>3 DEF ClickInv

LEMMA DeliverPairs ==
  ASSUME ITypeOK, PairInv, NEW b \in Buttons, NEW p \in Places, NEW c \in Points \cup {None},
         Pressed(c, p) \in Points, Deliver(b, p, c)
  PROVE  /\ PairInv'
         /\ downs' \in [Buttons -> Nat] /\ doubles' \in [Buttons -> Nat]
         /\ DOMAIN lastDown' = Buttons
         /\ \A a \in Buttons : lastDown'[a] # None => lastDown'[a].at \in Points
<1>1. downs' = [downs EXCEPT ![b] = @ + 1] /\ downs' \in [Buttons -> Nat]
  BY DEF Deliver, ITypeOK, HistoryOK
<1>2. CASE mode = "postmessage"
  <2>1. UNCHANGED pairVars
    BY <1>2 DEF Deliver
  <2>. QED
    BY <1>1, <2>1 DEF pairVars, PairInv, ITypeOK, TypeOK, HistoryOK
<1>3. CASE mode # "postmessage"
  <2>. DEFINE dbl == IsDouble(b, Pressed(c, p))
  <2>1. Bridge(b, Pressed(c, p))
    BY <1>3 DEF Deliver
  <2>2. dbl => lastDown[b] # None
    BY DEF IsDouble
  <2>3. /\ lastDown' = [lastDown EXCEPT ![b] = IF dbl THEN None
                                             ELSE [t |-> now', at |-> Pressed(c, p)]]
        /\ doubles' = [doubles EXCEPT ![b] = IF dbl THEN @ + 1 ELSE @]
    BY <2>1 DEF Bridge
  <2>. HIDE DEF dbl
  <2>4. doubles' \in [Buttons -> Nat] /\ DOMAIN lastDown' = Buttons
    BY <2>3 DEF ITypeOK, HistoryOK
  <2>5. \A a \in Buttons : lastDown'[a] # None => lastDown'[a].at \in Points
    BY <2>3 DEF ITypeOK, TypeOK, HistoryOK
  <2>6. ASSUME NEW a \in Buttons
        PROVE  2 * doubles'[a] + (IF lastDown'[a] # None THEN 1 ELSE 0) <= downs'[a]
    <3>1. 2 * doubles[a] + (IF lastDown[a] # None THEN 1 ELSE 0) <= downs[a]
      BY DEF PairInv
    <3>2. doubles[a] \in Nat /\ downs[a] \in Nat
      BY DEF ITypeOK, HistoryOK
    <3>3. CASE a # b
      BY <1>1, <2>3, <3>1, <3>3 DEF ITypeOK, HistoryOK
    <3>4. CASE a = b
      <4>1. downs'[b] = downs[b] + 1
        BY <1>1 DEF ITypeOK, HistoryOK
      <4>2. CASE dbl
        <5>1. lastDown'[b] = None /\ doubles'[b] = doubles[b] + 1
          BY <2>3, <4>2 DEF ITypeOK, HistoryOK
        <5>. QED
          BY <2>2, <3>1, <3>2, <3>4, <4>1, <4>2, <5>1
      <4>3. CASE ~dbl
        <5>1. doubles'[b] = doubles[b]
          BY <2>3, <4>3 DEF ITypeOK, HistoryOK
        <5>. QED
          BY <3>1, <3>2, <3>4, <4>1, <5>1
      <4>. QED
        BY <4>2, <4>3
    <3>. QED
      BY <3>3, <3>4
  <2>. QED
    BY <1>1, <2>4, <2>5, <2>6 DEF PairInv
<1>. QED
  BY <1>2, <1>3

LEMMA PlainStep ==
  ASSUME ClickInv, NEW b \in Buttons, NEW p \in Places, NEW gap \in Gaps, PressPlain(b, p, gap)
  PROVE  ClickInv'
<1>1. /\ Refresh /\ Deliver(b, p, None) /\ UNCHANGED <<windowVars, halted, resolveVars, matches>>
      /\ press' = [press EXCEPT ![b] = [rec |-> MapClient(p, rect'), at |-> Target(None, p),
                                        patch |-> FALSE]]
  BY DEF PressPlain
<1>2. Pressed(None, p) \in Points
  BY <1>1, PressedIsPoint DEF ClickInv
<1>3. /\ PairInv'
      /\ downs' \in [Buttons -> Nat] /\ doubles' \in [Buttons -> Nat]
      /\ DOMAIN lastDown' = Buttons
      /\ \A a \in Buttons : lastDown'[a] # None => lastDown'[a].at \in Points
  BY <1>1, <1>2, DeliverPairs DEF ClickInv
<1>4. rect' \in Windows /\ refreshed' = TRUE /\ (refreshed => rect' = rect)
  BY <1>1, RectRead DEF ClickInv, Refresh
<1>5. ITypeOK'
  BY <1>1, <1>3, <1>4 DEF ClickInv, ITypeOK, TypeOK, HistoryOK, Latest, resolveVars, windowVars
<1>6. PressInv'
  <2>. SUFFICES ASSUME NEW a \in Buttons, press'[a] # None, press'[a].patch
                PROVE  /\ refreshed'
                       /\ lastDownRec'[a] = press'[a].rec /\ lastCv'[a] # None
                       /\ press'[a].at = IF mode' = "postmessage" THEN lastCv'[a]
                                         ELSE ScreenToAbs(Plus(rect'.at, lastCv'[a]))
    BY DEF PressInv, ScreenToAbs
  <2>1. a # b /\ press'[a] = press[a]
    BY <1>1 DEF ClickInv, ITypeOK, HistoryOK
  <2>. QED
    BY <1>1, <1>4, <2>1 DEF ClickInv, PressInv, resolveVars, windowVars
<1>7. FreshInv'
  BY <1>4 DEF FreshInv
<1>. QED
  BY <1>3, <1>5, <1>6, <1>7 DEF ClickInv

LEMMA PatchedStep ==
  ASSUME ClickInv, NEW b \in Buttons, NEW p \in Places, NEW gap \in Gaps, NEW pic \in Pictures,
         PressPatch(b, p, gap, pic)
  PROVE  ClickInv'
<1>1. Refresh /\ UNCHANGED <<windowVars, halted>>
  BY DEF PressPatch
<1>. DEFINE rec == MapClient(p, rect')
            C(found) == Plus(rec, IF found # None THEN found ELSE Median(shifts))
<1>2. PICK found \in Points \cup {None} :
         /\ rec \in Points /\ C(found) \in Points
         /\ lastDownRec' = [lastDownRec EXCEPT ![b] = rec]
         /\ lastCv' = [lastCv EXCEPT ![b] = C(found)]
         /\ IF found # None
            THEN /\ shifts' = Learn(shifts, found, ShiftHistoryMax)
                 /\ matches' = Append(matches, found)
            ELSE UNCHANGED <<shifts, matches>>
         /\ Deliver(b, p, C(found))
         /\ press' = [press EXCEPT ![b] = [rec |-> rec, at |-> Target(C(found), p),
                                           patch |-> TRUE]]
  BY PatchedPress DEF ClickInv
<1>. DEFINE c == C(found)
<1>. HIDE DEF rec, c, C
<1>3. Pressed(c, p) \in Points /\ c \in Points /\ c # None
  <2>1. c \in Points
    BY <1>2 DEF c
  <2>. QED
    <3>1. c # None
      <4>1. c = <<c[1], c[2]>>
        BY <2>1 DEF Points
      <4>. QED
        BY <4>1 DEF None
    <3>. QED
      BY <1>1, <2>1, <3>1, PressedIsPoint DEF ClickInv
<1>4. /\ PairInv'
      /\ downs' \in [Buttons -> Nat] /\ doubles' \in [Buttons -> Nat]
      /\ DOMAIN lastDown' = Buttons
      /\ \A a \in Buttons : lastDown'[a] # None => lastDown'[a].at \in Points
  <2>1. Deliver(b, p, c)
    BY <1>2 DEF c
  <2>. QED
    BY <1>3, <2>1, DeliverPairs DEF ClickInv
<1>5. rect' \in Windows /\ refreshed' = TRUE /\ (refreshed => rect' = rect)
  BY <1>1, RectRead DEF ClickInv, Refresh
<1>6. /\ shifts' \in Seq(Points) /\ matches' \in Seq(Points)
      /\ Latest(shifts', matches', ShiftHistoryMax)
  <2>1. /\ shifts \in Seq(Points) /\ matches \in Seq(Points)
        /\ Latest(shifts, matches, ShiftHistoryMax)
    BY DEF ClickInv, ITypeOK, TypeOK, HistoryOK
  <2>2. CASE found = None
    BY <1>2, <2>1, <2>2
  <2>3. CASE found # None
    <3>1. found \in Points
      BY <2>3
    <3>2. /\ Learn(shifts, found, ShiftHistoryMax) \in Seq(Points)
          /\ Latest(Learn(shifts, found, ShiftHistoryMax), Append(matches, found), ShiftHistoryMax)
      BY <2>1, <3>1, ClickAssumption, LearnKeepsLatest
    <3>3. Append(matches, found) \in Seq(Points)
      BY <2>1, <3>1
    <3>. QED
      BY <1>2, <2>3, <3>2, <3>3
  <2>. QED
    BY <2>2, <2>3
<1>7. Len(shifts') <= ShiftHistoryMax
  BY <1>6, ClickAssumption DEF Latest
<1>8. lastCv' \in [Buttons -> Points \cup {None}] /\ lastDownRec' \in [Buttons -> Points \cup {None}]
  <2>1. lastCv' = [lastCv EXCEPT ![b] = c] /\ lastDownRec' = [lastDownRec EXCEPT ![b] = rec]
    BY <1>2 DEF c
  <2>. QED
    BY <1>2, <1>3, <2>1 DEF ClickInv, ITypeOK, TypeOK
<1>9. press' = [press EXCEPT ![b] = [rec |-> rec, at |-> Target(c, p), patch |-> TRUE]]
  BY <1>2 DEF c
<1>10. ITypeOK'
  <2>1. mode' = mode /\ live' = live /\ halted' = halted
    BY <1>1 DEF windowVars
  <2>2. TypeOK'
    BY <1>4, <1>5, <1>6, <1>7, <1>8, <2>1 DEF ClickInv, ITypeOK, TypeOK
  <2>3. DOMAIN press' = Buttons
    BY <1>9 DEF ClickInv, ITypeOK, HistoryOK
  <2>4. HistoryOK'
    BY <1>4, <1>6, <2>3 DEF HistoryOK, Latest
  <2>. QED
    BY <2>2, <2>4 DEF ITypeOK
<1>11. PressInv'
  <2>. SUFFICES ASSUME NEW a \in Buttons, press'[a] # None, press'[a].patch
                PROVE  /\ refreshed'
                       /\ lastDownRec'[a] = press'[a].rec /\ lastCv'[a] # None
                       /\ press'[a].at = IF mode' = "postmessage" THEN lastCv'[a]
                                         ELSE ScreenToAbs(Plus(rect'.at, lastCv'[a]))
    BY DEF PressInv, ScreenToAbs
  <2>1. lastCv' = [lastCv EXCEPT ![b] = c] /\ lastDownRec' = [lastDownRec EXCEPT ![b] = rec]
    BY <1>2 DEF c
  <2>2. CASE a # b
    <3>1. press'[a] = press[a] /\ lastCv'[a] = lastCv[a] /\ lastDownRec'[a] = lastDownRec[a]
      BY <1>9, <2>1, <2>2 DEF ClickInv, ITypeOK, TypeOK, HistoryOK
    <3>. QED
      BY <1>1, <1>5, <3>1 DEF ClickInv, PressInv, windowVars
  <2>3. CASE a = b
    <3>1. /\ press'[a].rec = rec /\ press'[a].at = Target(c, p)
          /\ lastCv'[a] = c /\ lastDownRec'[a] = rec
      BY <1>9, <2>1, <2>3 DEF ClickInv, ITypeOK, TypeOK, HistoryOK
    <3>2. mode' = mode
      BY <1>1 DEF windowVars
    <3>. QED
      BY <1>3, <1>5, <3>1, <3>2 DEF Target
  <2>. QED
    BY <2>2, <2>3
<1>12. FreshInv'
  BY <1>5 DEF FreshInv
<1>. QED
  BY <1>4, <1>10, <1>11, <1>12 DEF ClickInv

LEMMA ClickStep ==
  ASSUME ClickInv, [Next]_vars
  PROVE  ClickInv'
<1>0. live \in Windows /\ rect \in Windows /\ halted \in BOOLEAN /\ refreshed \in BOOLEAN
  BY DEF ClickInv, ITypeOK, TypeOK
<1>1. CASE WindowMoves
  BY <1>0, <1>1, QuietSteps DEF WindowMoves, Quiet, resolveVars, pairVars
<1>2. CASE RefreshFails
  BY <1>0, <1>2, QuietSteps DEF RefreshFails, Quiet, windowVars, resolveVars, pairVars
<1>3. ASSUME NEW state \in {"key_down", "key_up"}, Key(state) PROVE ClickInv'
  BY <1>0, <1>3, QuietSteps DEF Key, Quiet, windowVars, resolveVars, pairVars
<1>4. ASSUME NEW p \in Places, Move(p) PROVE ClickInv'
  BY <1>0, <1>4, QuietSteps DEF Move, Quiet, windowVars, resolveVars, pairVars
<1>5. ASSUME NEW p \in Places, NEW turned \in SUBSET {"dx", "dy"}, Wheel(turned, p)
      PROVE  ClickInv'
  BY <1>0, <1>5, QuietSteps DEF Wheel, Quiet, windowVars, resolveVars, pairVars
<1>6. ASSUME NEW p \in Places, NEW b \in Buttons, Release(b, p) PROVE ClickInv'
  <2>1. Refresh /\ UNCHANGED <<windowVars, halted, resolveVars, pairVars, press, matches, downs>>
    BY <1>6 DEF Release
  <2>2. rect' \in Windows /\ refreshed' = TRUE /\ (refreshed => rect' = rect)
    BY <2>1, RectRead DEF ClickInv, Refresh
  <2>. QED
    BY <1>0, <2>1, <2>2, QuietSteps DEF Quiet, windowVars, resolveVars, pairVars
<1>7. ASSUME NEW p \in Places, NEW b \in Buttons, NEW gap \in Gaps, PressPlain(b, p, gap)
      PROVE  ClickInv'
  BY <1>7, PlainStep
<1>8. ASSUME NEW p \in Places, NEW b \in Buttons, NEW gap \in Gaps, NEW pic \in Pictures,
             PressPatch(b, p, gap, pic)
      PROVE  ClickInv'
  BY <1>8, PatchedStep
<1>9. CASE UNCHANGED vars
  BY <1>0, <1>9, QuietSteps DEF vars, Quiet, windowVars, resolveVars, pairVars
<1>. QED
  BY <1>1, <1>2, <1>3, <1>4, <1>5, <1>6, <1>7, <1>8, <1>9 DEF Next

LEMMA ClickInvariant == Spec => []ClickInv
BY ClickInit, ClickStep, PTL DEF Spec

(* What an event of a button is. *)
LEMMA ButtonSteps ==
  ASSUME [Next]_vars, events' # events, taken'.what \in {"up", "down"}
  PROVE  \/ taken'.what = "up" /\ \E p \in Places, b \in Buttons : Release(b, p)
         \/ /\ taken'.what = "down"
            /\ \E p \in Places, b \in Buttons, gap \in Gaps :
                 PressPlain(b, p, gap) \/ \E pic \in Pictures : PressPatch(b, p, gap, pic)
<1>1. ~ (WindowMoves \/ RefreshFails \/ UNCHANGED vars)
  BY DEF WindowMoves, RefreshFails, vars
<1>2. ASSUME NEW state, Key(state) PROVE FALSE
  BY <1>2 DEF Key, TakenOther, Taken
<1>3. ASSUME NEW p, Move(p) PROVE FALSE
  BY <1>3 DEF Move, TakenOther, Taken
<1>4. ASSUME NEW p, NEW turned, Wheel(turned, p) PROVE FALSE
  BY <1>4 DEF Wheel, TakenOther, Taken
<1>5. ASSUME NEW b, NEW p, Release(b, p) PROVE taken'.what = "up"
  BY <1>5 DEF Release, TakenOther, Taken
<1>6. ASSUME NEW b, NEW p, NEW gap, PressPlain(b, p, gap) \/ \E pic : PressPatch(b, p, gap, pic)
      PROVE  taken'.what = "down"
  BY <1>6 DEF PressPlain, PressPatch, Taken
<1>. QED
  BY <1>1, <1>2, <1>3, <1>4, <1>5, <1>6 DEF Next

-----------------------------------------------------------------------------
(* The theorems. *)

(* What is learned, and where buttons went down, are points of the screen, *)
(* whatever the picture shows.                                             *)
THEOREM ClickTypes == Spec => []TypeOK
BY ClickInvariant, PTL DEF ClickInv, ITypeOK

(* A press that completes a double click completes no other one, however   *)
(* fast the presses follow each other and whichever buttons they are of.   *)
THEOREM DoublesPaired == Spec => []DoublesArePairs
<1>1. ClickInv => DoublesArePairs
  <2>. SUFFICES ASSUME ClickInv, NEW b \in Buttons PROVE 2 * doubles[b] <= downs[b]
    BY DEF DoublesArePairs
  <2>1. doubles[b] \in Nat /\ downs[b] \in Nat
    BY DEF ClickInv, ITypeOK, HistoryOK
  <2>2. 2 * doubles[b] + (IF lastDown[b] # None THEN 1 ELSE 0) <= downs[b]
    BY DEF ClickInv, PairInv
  <2>. QED
    BY <2>1, <2>2
<1>. QED
  BY <1>1, ClickInvariant, PTL

(* The release of a click is delivered at the very pixel of its press, in  *)
(* either mode: what is matched or learned in between moves only drags.    *)
THEOREM ReleaseAtPress == Spec => ReleaseMeetsPress
<1>1. ASSUME ClickInv, [Next]_vars PROVE MeetsPress \/ UNCHANGED vars
  <2>. SUFFICES ASSUME events' # events, taken'.what = "up",
                       press[taken'.btn] # None, press[taken'.btn].patch,
                       ~Far(MapClient(taken'.place, rect'), press[taken'.btn].rec)
                PROVE  Last(posted').at = press[taken'.btn].at
    BY DEF MeetsPress
  <2>1. PICK p \in Places, b \in Buttons : Release(b, p)
    BY <1>1, ButtonSteps
  <2>2. taken' = [what |-> "up", btn |-> b, place |-> p]
    BY <2>1 DEF Release, TakenOther, Taken
  <2>3. /\ refreshed /\ lastDownRec[b] = press[b].rec /\ lastCv[b] # None
        /\ press[b].at = IF mode = "postmessage" THEN lastCv[b]
                         ELSE ScreenToAbs(Plus(rect.at, lastCv[b]))
    BY <1>1, <2>2 DEF ClickInv, PressInv
  <2>4. rect' = rect /\ mode' = mode
    BY <2>1, <2>3 DEF Release, Refresh, windowVars
  <2>5. ReleasePoint(b, MapClient(p, rect')) = lastCv[b]
    BY <2>2, <2>3 DEF ReleasePoint, IsDrag
  <2>6. posted' = Click(b, "up", Target(lastCv[b], p))
    BY <2>1, <2>5 DEF Release
  <2>7. posted' = <<[what |-> "up", btn |-> b, at |-> Target(lastCv[b], p)]>>
    BY <2>6 DEF Click, Posted, Sent
  <2>8. Last(posted').at = Target(lastCv[b], p)
    BY <2>7 DEF Last
  <2>. QED
    BY <2>2, <2>3, <2>4, <2>8 DEF Target
<1>. QED
  BY <1>1, ClickInvariant, PTL DEF Spec, ReleaseMeetsPress

(* A press whose patch is not found is moved, on each axis, by a value     *)
(* that half of the latest matches do not exceed and half of them do not   *)
(* fall short of, whatever the length of the history.                      *)
THEOREM MissMovesByMedian == Spec => FallbackIsMedian
<1>1. ASSUME ClickInv, [Next]_vars PROVE MovedByMedian \/ UNCHANGED vars
  <2>. DEFINE m == Min({Len(matches), ShiftHistoryMax})
              recent == SubSeq(matches, Len(matches) - m + 1, Len(matches))
  <2>. SUFFICES ASSUME events' # events, taken'.what = "down", press'[taken'.btn].patch,
                       matches' = matches, NEW i \in {1, 2},
                       NEW v, v = Minus(lastCv'[taken'.btn], press'[taken'.btn].rec)[i]
                PROVE  IF m = 0 THEN v = 0
                       ELSE /\ 2 * Cardinality({k \in 1..m : recent[k][i] <= v}) >= m
                            /\ 2 * Cardinality({k \in 1..m : recent[k][i] >= v}) >= m
    BY DEF MovedByMedian
  <2>1. /\ shifts \in Seq(Points) /\ matches \in Seq(Points)
        /\ Latest(shifts, matches, ShiftHistoryMax)
    BY <1>1 DEF ClickInv, ITypeOK, TypeOK, HistoryOK
  <2>2. Len(shifts) = m /\ Len(matches) \in Nat /\ m \in 0..Len(matches)
    <3>1. Len(matches) \in Nat /\ ShiftHistoryMax \in Nat
      BY <2>1, ClickAssumption
    <3>2. m = IF Len(matches) <= ShiftHistoryMax THEN Len(matches) ELSE ShiftHistoryMax
      BY <3>1, MinOfTwo
    <3>. HIDE DEF m
    <3>. QED
      BY <2>1, <3>1, <3>2 DEF Latest
  <2>3. \A k \in 1..m : recent[k] = shifts[k]
    <3>. HIDE DEF m
    <3>1. \A k \in 1..m : recent[k] = matches[Len(matches) - m + k]
      BY <2>1, <2>2, SubSeqProperties
    <3>. QED
      BY <2>1, <2>2, <3>1 DEF Latest
  <2>4. PICK p \in Places, b \in Buttons, gap \in Gaps, pic \in Pictures :
           PressPatch(b, p, gap, pic)
    <3>1. \A p \in Places : \A b \in Buttons : \A gap \in Gaps : ~PressPlain(b, p, gap)
      BY <1>1 DEF PressPlain, Taken, ClickInv, ITypeOK, HistoryOK
    <3>. QED
      BY <1>1, <3>1, ButtonSteps
  <2>5. taken' = [what |-> "down", btn |-> b, place |-> p]
    BY <2>4 DEF PressPatch, Taken
  <2>6. v = Median(shifts)[i]
    <3>. DEFINE rec == MapClient(p, rect')
    <3>1. /\ rec \in Points
          /\ lastCv'[b] = Plus(rec, Median(shifts)) /\ press'[b].rec = rec
      <4>1. \A found \in Points : matches' # Append(matches, found)
        <5>1. \A found \in Points : Len(Append(matches, found)) = Len(matches) + 1
          BY <2>1
        <5>. QED
          BY <2>2, <5>1
      <4>2. PICK found \in Points \cup {None} :
               LET c == Plus(rec, IF found # None THEN found ELSE Median(shifts))
               IN  /\ rec \in Points
                   /\ lastCv' = [lastCv EXCEPT ![b] = c]
                   /\ found # None => matches' = Append(matches, found)
                   /\ press' = [press EXCEPT ![b] = [rec |-> rec, at |-> Target(c, p),
                                                     patch |-> TRUE]]
        BY <1>1, <2>4, PatchedPress DEF ClickInv
      <4>3. found = None
        BY <4>1, <4>2
      <4>. QED
        BY <1>1, <4>2, <4>3 DEF ClickInv, ITypeOK, TypeOK, HistoryOK
    <3>2. Median(shifts) \in Points
      BY <2>1, MedianOfShifts
    <3>3. Plus(rec, Median(shifts)) \in Points
      BY <3>1, <3>2, PointsAddUp
    <3>4. v = Minus(Plus(rec, Median(shifts)), rec)[i]
      BY <2>5, <3>1
    <3>. DEFINE d == Median(shifts)
    <3>. HIDE DEF rec, d
    <3>5. v = Plus(rec, d)[i] - rec[i] /\ Plus(rec, d)[i] = rec[i] + d[i]
      <4>1. Minus(Plus(rec, d), rec)[i] = Plus(rec, d)[i] - rec[i]
        <5>. DEFINE q == Plus(rec, d)
        <5>1. q \in Points /\ rec \in Points
          BY <3>1, <3>3 DEF d
        <5>. HIDE DEF q
        <5>2. Minus(q, rec)[i] = q[i] - rec[i]
          BY <5>1, PointsAddUp, ZenonT(60)
        <5>. QED
          BY <5>2 DEF q
      <4>2. Plus(rec, d)[i] = rec[i] + d[i]
        BY <3>1, <3>2, PointsAddUp, ZenonT(60) DEF d
      <4>. QED
        BY <3>4, <4>1, <4>2 DEF d
    <3>6. rec[i] \in Int /\ d[i] \in Int
      BY <3>1, <3>2, PointsAddUp DEF d
    <3>. QED
      BY <3>5, <3>6 DEF d
  <2>7. CASE shifts = <<>>
    BY <2>1, <2>2, <2>6, <2>7, MedianOfShifts
  <2>8. CASE shifts # <<>>
    <3>1. m # 0
      BY <2>1, <2>2, <2>8
    <3>2. /\ {k \in 1..m : recent[k][i] <= v} = {k \in 1..Len(shifts) : shifts[k][i] <= v}
          /\ {k \in 1..m : recent[k][i] >= v} = {k \in 1..Len(shifts) : shifts[k][i] >= v}
      BY <2>2, <2>3
    <3>. HIDE DEF m, recent
    <3>. QED
      <4>1. /\ 2 * Cardinality({k \in 1..Len(shifts) : shifts[k][i] <= v}) >= m
            /\ 2 * Cardinality({k \in 1..Len(shifts) : shifts[k][i] >= v}) >= m
        <5>. DEFINE w == Median(shifts)[i]
        <5>1. /\ 2 * Cardinality({k \in 1..Len(shifts) : shifts[k][i] <= w}) >= Len(shifts)
              /\ 2 * Cardinality({k \in 1..Len(shifts) : shifts[k][i] >= w}) >= Len(shifts)
          BY <2>1, <2>8, MedianOfShifts
        <5>2. w = v
          BY <2>6
        <5>. HIDE DEF w
        <5>. QED
          BY <2>2, <5>1, <5>2
      <4>. QED
        BY <3>1, <3>2, <4>1
  <2>. QED
    BY <2>7, <2>8
<1>. QED
  BY <1>1, ClickInvariant, PTL DEF Spec, FallbackIsMedian

(* The first press or release of a replay in sendinput mode lands in the   *)
(* window as it is at that moment, but for the fixed correction: matched,  *)
(* recorded, or scaled, and wherever the window was when the replay began. *)
THEOREM FirstClickLands == Spec => FirstClickFresh
<1>1. ASSUME ClickInv, [Next]_vars PROVE LandsInWindow \/ UNCHANGED vars
  <2>. SUFFICES ASSUME mode = "sendinput", ~refreshed, refreshed', NEW i \in {1, 2}
                PROVE  posted'[1].at[i] \in
                         ScreenToAbs(Plus(live.at, <<Min({0, Correction[1]}),
                                                     Min({0, Correction[2]})>>))[i]
                         ..ScreenToAbs(Plus(Plus(live.at, live.size),
                                            <<Max({0, Correction[1]}),
                                              Max({0, Correction[2]})>>))[i]
    BY DEF LandsInWindow
  <2>. DEFINE before == <<Min({0, Correction[1]}), Min({0, Correction[2]})>>
              after  == <<Max({0, Correction[1]}), Max({0, Correction[2]})>>
              low    == Plus(live.at, before)
              high   == Plus(Plus(live.at, live.size), after)
  <2>1. live \in Windows /\ live \in Areas /\ live.at \in Points /\ live.size \in Points
        /\ live.size[i] \in Nat
    BY <1>1, PixelAssumption, SMTT(60) DEF ClickInv, ITypeOK, TypeOK, Areas, Points
  <2>2. Correction \in Points /\ before \in Points /\ after \in Points
        /\ before[i] <= 0 /\ before[i] <= Correction[i]
        /\ 0 <= after[i] /\ Correction[i] <= after[i]
    <3>1. Correction \in Points /\ \A j \in {1, 2} : Correction[j] \in Int
      BY PixelAssumption DEF Points
    <3>2. \A j \in {1, 2} :
             /\ Min({0, Correction[j]}) = IF 0 <= Correction[j] THEN 0 ELSE Correction[j]
             /\ Max({0, Correction[j]}) = IF 0 >= Correction[j] THEN 0 ELSE Correction[j]
      BY <3>1, MinOfTwo, MaxOfTwo
    <3>. QED
      BY <3>1, <3>2 DEF Points
  <2>. DEFINE Lands(x) == /\ x \in Points
                          /\ low[i] <= x[i] /\ x[i] <= high[i]
  <2>3. ASSUME NEW x, Lands(x), posted'[1].at = ScreenToAbs(x)
        PROVE  posted'[1].at[i] \in ScreenToAbs(low)[i]..ScreenToAbs(high)[i]
    <3>1. low \in Points /\ high \in Points
      BY <2>1, <2>2, PointsAddUp
    <3>2. /\ ScreenToAbs(low)[i] <= ScreenToAbs(x)[i] /\ ScreenToAbs(x)[i] <= ScreenToAbs(high)[i]
          /\ ScreenToAbs(low) \in Points /\ ScreenToAbs(high) \in Points
          /\ ScreenToAbs(x) \in Points
      BY <2>3, <3>1, AbsKeepsOrder
    <3>. QED
      BY <2>3, <3>2, PointsAddUp
  <2>4. low[i] = live.at[i] + before[i] /\ high[i] = live.at[i] + live.size[i] + after[i]
        /\ live.at[i] \in Int /\ before[i] \in Int /\ after[i] \in Int /\ Correction[i] \in Int
    BY <2>1, <2>2 DEF Plus, Points
  <2>. HIDE DEF low, high, before, after
  <2>5. ASSUME NEW c \in Points, c[i] \in 0..live.size[i] PROVE Lands(Plus(live.at, c))
    <3>1. /\ Plus(live.at, c) \in Points /\ Plus(live.at, c)[i] = live.at[i] + c[i]
          /\ c[i] \in Int
      BY <2>1, PointsAddUp, ZenonT(60)
    <3>. QED
      BY <2>1, <2>2, <2>4, <2>5, <3>1
  <2>6. ASSUME NEW p \in Places, rect' = live PROVE Lands(MapCoords(p, rect'))
    <3>. DEFINE c == MapClient(p, live)
    <3>1. c \in Points /\ c[i] \in 0..live.size[i]
      BY <2>1, MapClientInWindow, PixelAssumption
    <3>2. MapCoords(p, rect') = Plus(Plus(live.at, c), Correction)
      BY <2>6 DEF MapCoords
    <3>. DEFINE x == Plus(live.at, c)
    <3>. HIDE DEF c
    <3>3. x \in Points /\ x[i] = live.at[i] + c[i] /\ c[i] \in Int
      BY <2>1, <3>1, PointsAddUp
    <3>. HIDE DEF x
    <3>4. Plus(x, Correction) \in Points /\ Plus(x, Correction)[i] = x[i] + Correction[i]
      BY <2>2, <3>3, PointsAddUp, ZenonT(60)
    <3>. QED
      BY <2>1, <2>2, <2>4, <3>1, <3>2, <3>3, <3>4 DEF x
  <2>7. CASE \E p \in Places, b \in Buttons : Release(b, p)
    <3>1. PICK p \in Places, b \in Buttons : Release(b, p)
      BY <2>7
    <3>2. rect' = live
      BY <1>1, <3>1, RectRead DEF Release, ClickInv
    <3>3. ReleasePoint(b, MapClient(p, rect')) = None
      BY <1>1 DEF ReleasePoint, IsDrag, ClickInv, FreshInv
    <3>4. posted' = Click(b, "up", ScreenToAbs(MapCoords(p, rect')))
      BY <3>1, <3>3 DEF Release, Target
    <3>5. posted'[1].at = ScreenToAbs(MapCoords(p, rect'))
      BY <3>4 DEF Click, Sent
    <3>. QED
      BY <2>3, <2>6, <3>2, <3>5 DEF low, high, before, after
  <2>8. ASSUME NEW b, NEW p, NEW c, Deliver(b, p, c)
        PROVE  posted'[1].at = Target(c, p)
    <3>1. posted' = <<[what |-> "down", btn |-> b, at |-> Target(c, p)]>> \o
                    (IF IsDouble(b, Pressed(c, p)) THEN Sent(b, "double", Pressed(c, p)) ELSE <<>>)
      BY <2>8 DEF Deliver, Click, Sent
    <3>. QED
      BY <3>1 DEF Sent
  <2>9. CASE \E p \in Places, b \in Buttons, gap \in Gaps : PressPlain(b, p, gap)
    <3>1. PICK p \in Places, b \in Buttons, gap \in Gaps : PressPlain(b, p, gap)
      BY <2>9
    <3>2. rect' = live
      BY <1>1, <3>1, RectRead DEF PressPlain, ClickInv
    <3>3. posted'[1].at = Target(None, p)
      BY <2>8, <3>1 DEF PressPlain
    <3>4. Target(None, p) = ScreenToAbs(MapCoords(p, rect'))
      BY DEF Target
    <3>. QED
      BY <2>3, <2>6, <3>2, <3>3, <3>4 DEF low, high, before, after
  <2>10. CASE \E p \in Places, b \in Buttons, gap \in Gaps, pic \in Pictures :
                PressPatch(b, p, gap, pic)
    <3>1. PICK p \in Places, b \in Buttons, gap \in Gaps, pic \in Pictures :
             PressPatch(b, p, gap, pic)
      BY <2>10
    <3>2. rect' = live
      BY <1>1, <3>1, RectRead DEF PressPatch, ClickInv
    <3>. DEFINE rec == MapClient(p, rect')
    <3>3. PICK found \in Points \cup {None} :
             LET c == Plus(rec, IF found # None THEN found ELSE Median(shifts))
             IN  /\ c \in Points
                 /\ found # None =>
                      \A j \in {1, 2} : c[j] \in PatchHalf..(live.size[j] - PatchHalf)
                 /\ Deliver(b, p, c)
      BY <1>1, <3>1, PatchedPress DEF ClickInv
    <3>. DEFINE c == Plus(rec, IF found # None THEN found ELSE Median(shifts))
    <3>4. rec \in Points /\ rec[i] \in 0..live.size[i]
      BY <2>1, <3>2, MapClientInWindow, PixelAssumption
    <3>5. c[i] \in 0..live.size[i] /\ c \in Points
      <4>1. CASE found # None
        BY <2>1, <3>3, <4>1, ClickAssumption
      <4>2. CASE found = None
        <5>1. Median(shifts) = <<0, 0>>
          BY <1>1 DEF ClickInv, FreshInv, Median
        <5>2. c[i] = rec[i] + 0
          BY <4>2, <5>1 DEF Plus
        <5>. QED
          BY <3>3, <3>4, <5>2, PointsAddUp
      <4>. QED
        BY <4>1, <4>2
    <3>6. posted'[1].at = Target(c, p)
      BY <2>8, <3>3
    <3>. HIDE DEF c
    <3>7. c # None
      <4>1. c = <<c[1], c[2]>>
        BY <3>5 DEF Points
      <4>. QED
        BY <4>1 DEF None
    <3>8. posted'[1].at = ScreenToAbs(Plus(live.at, c))
      BY <3>2, <3>6, <3>7 DEF Target
    <3>. QED
      BY <2>3, <2>5, <3>5, <3>8 DEF low, high, before, after
  <2>11. \/ \E p \in Places, b \in Buttons : Release(b, p)
         \/ \E p \in Places, b \in Buttons, gap \in Gaps :
              PressPlain(b, p, gap) \/ \E pic \in Pictures : PressPatch(b, p, gap, pic)
    <3>1. refreshed' # refreshed
      OBVIOUS
    <3>. QED
      BY <1>1, <3>1 DEF Next, WindowMoves, RefreshFails, Key, Move, Wheel, vars
  <2>. QED
    BY <2>7, <2>9, <2>10, <2>11
<1>. QED
  BY <1>1, ClickInvariant, PTL DEF Spec, FirstClickFresh
=============================================================================
