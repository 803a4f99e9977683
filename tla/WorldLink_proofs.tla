-------------------------- MODULE WorldLink_proofs --------------------------
(***************************************************************************)
(* Proofs about WorldLink: what the emulator puts on the wire decodes to   *)
(* what it meant, the reader never takes a frame of the client for the end *)
(* of the stream, the echoes answer the client's moves one by one, the     *)
(* recorder cuts the frames out of each flow where the sender put them,    *)
(* and what the emulator prepares before it listens: no address of the     *)
(* recorded servers is left in the login, and a swap is consistent.        *)
(* The arithmetic of the cipher is in FrameCipher_proofs.                  *)
(***************************************************************************)
EXTENDS WorldLink, FrameCipher_proofs, FiniteSetTheorems

(* A frame on the wire: the enciphered frame with its length scrambled.    *)
LEMMA LengthIsWord ==
  ASSUME NEW n \in Half, NEW byte2 \in Byte, NEW byte3 \in Byte
  PROVE  LengthEncode(n, byte2, byte3) \in Half
<1> DEFINE a == (byte2 % 7) + 1
           b == (byte3 % 7) + 1
           p == Ror16(n, b)
           q == Xor16(p, 49182)
<1>1. a \in Nat /\ b \in Nat
  BY DEF Byte
<1>2. LengthEncode(n, byte2, byte3) = Rol16(q, a)
  BY DEF LengthEncode
<1>. HIDE DEF a, b
<1>3. p \in Half
  BY <1>1, Turn16
<1>. HIDE DEF p
<1>4. q \in Half
  BY <1>3, Xor16Undo, MaskIsWord
<1>. HIDE DEF q
<1>. QED
  BY <1>1, <1>2, <1>4, Turn16

LEMMA EncryptKeeps ==
  ASSUME NEW p \in Seq(Byte), ~Unsound(p)
  PROVE  /\ Encrypt(p) \in Seq(Byte) /\ Len(Encrypt(p)) = Len(p)
         /\ Len16(Encrypt(p)) = Len16(p)
<1>1. PICK first \in Byte, body \in Seq(Byte), crc \in Seq(Byte) :
        /\ Len(body) = Len(Payload(p))
        /\ Len(crc) = 4
        /\ Rol8(Xor8(p[3], first), crc[1]) \in Byte
        /\ HasParts(Encrypt(p), SubSeq(p, 1, 2), Rol8(Xor8(p[3], first), crc[1]), crc,
                    RolPayload(body, Rotation(crc)), Rest(p))
  BY EncryptParts
<1> DEFINE op  == Rol8(Xor8(p[3], first), crc[1])
           rol == RolPayload(body, Rotation(crc))
<1>2. rol \in Seq(Byte) /\ Len(rol) = Len(Payload(p))
  BY <1>1, RotationIsNat, PayloadTurns
<1>3. op \in Byte /\ HasParts(Encrypt(p), SubSeq(p, 1, 2), op, crc, rol, Rest(p))
  BY <1>1
<1>. HIDE DEF op, rol
<1>4. Carries(Encrypt(p), p, op, crc, rol)
  BY <1>1, <1>2, <1>3, CipherParts
<1>. QED
  BY <1>4 DEF Carries

LEMMA FramedParts ==
  ASSUME NEW p, Framed(p)
  PROVE  /\ p \in Seq(Byte) /\ ~Unsound(p) /\ Len16(p) \in Half
         /\ Len16(p) \in Nat /\ Len16(p) >= 6 /\ Len(p) \in Nat /\ Len(p) = Len16(p) + 2
<1>1. p \in Seq(Byte) /\ ~Unsound(p) /\ Len(p) = Len16(p) + 2
  BY DEF Framed
<1>2. Len16(p) \in Half /\ Len16(p) >= 6 /\ Len(p) \in Nat
  BY <1>1, SoundParts
<1>. QED
  BY <1>1, <1>2 DEF Half

LEMMA PackParts ==
  ASSUME NEW p, Framed(p)
  PROVE  /\ Pack(p) \in Seq(Byte) /\ Len(Pack(p)) = Len(p)
         /\ Encrypt(p)[3] \in Byte /\ Encrypt(p)[4] \in Byte
         /\ Pack(p)[1] + 256 * Pack(p)[2] = LengthEncode(Len16(p), Encrypt(p)[3], Encrypt(p)[4])
         /\ \A j \in 3..Len(p) : Pack(p)[j] = Encrypt(p)[j]
<1> DEFINE e == Encrypt(p)
           x == LengthEncode(Len16(p), e[3], e[4])
           h == LenBytes(x)
           m == Len(p) - 2
           t == SubSeq(e, 3, Len(e))
<1>1. /\ p \in Seq(Byte) /\ ~Unsound(p) /\ Len16(p) \in Half
      /\ Len16(p) \in Nat /\ Len16(p) >= 6 /\ Len(p) \in Nat /\ Len(p) = Len16(p) + 2
  BY FramedParts
<1>2. e \in Seq(Byte) /\ Len(e) = Len(p) /\ Len16(e) = Len16(p)
  BY <1>1, EncryptKeeps
<1>3. e[3] \in Byte /\ e[4] \in Byte
  <2>1. 3 \in 1..Len(e) /\ 4 \in 1..Len(e)
    BY <1>1, <1>2
  <2>. HIDE DEF e
  <2>. QED
    BY <1>2, <2>1, ElementOfSeq
<1>4. Pack(p) = h \o t
  <2>1. ~(Len(p) < 4)
    BY <1>1
  <2>. QED
    BY <1>2, <2>1 DEF Pack, Scrambled
<1>. HIDE DEF e
<1>5. x \in Half
  BY <1>1, <1>3, LengthIsWord
<1>. HIDE DEF x
<1>6. /\ h = <<x % 256, x \div 256>> /\ h \in Seq(Byte) /\ Len(h) = 2
      /\ (x % 256) + 256 * (x \div 256) = x
  BY <1>5, LenBytesRead
<1>7. t \in Seq(Byte) /\ Len(t) = m /\ \A i \in 1..m : t[i] = e[i + 2]
  <2>1. m \in Nat /\ 2 + m = Len(p) /\ 2 + 1 = 3 /\ 2 + m <= Len(e)
    BY <1>1, <1>2
  <2>2. t = SubSeq(e, 2 + 1, 2 + m)
    BY <1>2, <2>1
  <2>. HIDE DEF t, m
  <2>. QED
    BY <1>2, <2>1, <2>2, PieceOf
<1>8. h[1] + 256 * h[2] = x
  BY <1>6
<1>. HIDE DEF h, t
<1>9. h \o t \in Seq(Byte)
  BY <1>6, <1>7, ConcatProperties
<1>10. /\ Len(h \o t) = 2 + m
       /\ \A i \in 1..2 : (h \o t)[i] = h[i]
       /\ \A i \in 1..m : (h \o t)[i + 2] = t[i]
  BY <1>6, <1>7, BytesJoined
<1>. DEFINE c == h \o t
<1>. HIDE DEF c
<1>11. /\ Len(c) = 2 + m /\ c \in Seq(Byte) /\ c = Pack(p)
       /\ \A i \in 1..2 : c[i] = h[i]
       /\ \A i \in 1..m : c[i + 2] = t[i]
  BY <1>4, <1>9, <1>10 DEF c
<1>12. c[1] + 256 * c[2] = x
  BY <1>8, <1>11
<1>13. ASSUME NEW j \in 3..Len(p) PROVE c[j] = e[j]
  <2> DEFINE i == j - 2
  <2>1. i \in 1..m /\ i + 2 = j
    BY <1>1
  <2>. HIDE DEF i, m
  <2>2. c[i + 2] = e[i + 2]
    BY <1>7, <1>11, <2>1
  <2>. QED
    BY <2>1, <2>2
<1>14. 2 + m = Len(p)
  BY <1>1
<1>. QED
  BY <1>3, <1>11, <1>12, <1>13, <1>14 DEF e, x

(* The reader finds the length as soon as it has the first four bytes.     *)
LEMMA HeadRead ==
  ASSUME NEW p, Framed(p), NEW s \in Seq(Byte), Len(s) >= 4,
         \A j \in 1..4 : s[j] = Pack(p)[j]
  PROVE  LengthDecode(s) = Len16(p) /\ ExtractLength(s) = Len16(p)
<1>1. Len16(p) \in Half /\ Len(p) \in Nat /\ Len(p) >= 4
  BY FramedParts
<1>2. /\ Encrypt(p)[3] \in Byte /\ Encrypt(p)[4] \in Byte
      /\ Pack(p)[1] + 256 * Pack(p)[2] = LengthEncode(Len16(p), Encrypt(p)[3], Encrypt(p)[4])
      /\ \A j \in 3..Len(p) : Pack(p)[j] = Encrypt(p)[j]
  BY PackParts
<1>3. /\ s[1] = Pack(p)[1] /\ s[2] = Pack(p)[2]
      /\ s[3] = Encrypt(p)[3] /\ s[4] = Encrypt(p)[4]
  <2>1. 3 \in 3..Len(p) /\ 4 \in 3..Len(p)
    BY <1>1
  <2>. QED
    BY <1>2, <2>1
<1>4. Len16(s) = LengthEncode(Len16(p), Encrypt(p)[3], Encrypt(p)[4])
  BY <1>2, <1>3 DEF Len16
<1>. QED
  BY <1>1, <1>2, <1>3, <1>4, LengthRoundTrip

(* With the length put back, what it has read is the enciphered frame.     *)
LEMMA FrameTaken ==
  ASSUME NEW p, Framed(p), NEW s \in Seq(Byte), Len(s) >= Len(p),
         \A j \in 1..Len(p) : s[j] = Pack(p)[j]
  PROVE  LenBytes(Len16(p)) \o SubSeq(s, 3, Len16(p) + 2) = Encrypt(p)
<1> DEFINE n == Len16(p)
           h == LenBytes(n)
           t == SubSeq(s, 3, n + 2)
           e == Encrypt(p)
           c == h \o t
<1>1. /\ p \in Seq(Byte) /\ ~Unsound(p) /\ n \in Half
      /\ n \in Nat /\ n >= 6 /\ Len(p) \in Nat /\ Len(p) = n + 2
  BY FramedParts
<1>2. e \in Seq(Byte) /\ Len(e) = Len(p) /\ Len16(e) = n
  BY <1>1, EncryptKeeps
<1>3. \A j \in 3..Len(p) : s[j] = e[j]
  <2>1. \A j \in 3..Len(p) : Pack(p)[j] = e[j]
    BY PackParts
  <2>. HIDE DEF e
  <2>. QED
    BY <1>1, <2>1
<1>. HIDE DEF e, n
<1>4. e[1] = h[1] /\ e[2] = h[2] /\ h \in Seq(Byte) /\ Len(h) = 2
  <2>1. h = <<n % 256, n \div 256>> /\ h \in Seq(Byte) /\ Len(h) = 2
    BY <1>1, LenBytesRead
  <2>2. 1 \in 1..Len(e) /\ 2 \in 1..Len(e)
    BY <1>1, <1>2
  <2>3. e[1] \in Byte /\ e[2] \in Byte
    BY <1>2, <2>2, ElementOfSeq
  <2>4. 256 * e[2] + e[1] = e[1] + 256 * e[2]
    <3>1. \A l, g \in Byte : 256 * g + l = l + 256 * g
      BY DEF Byte
    <3>. QED
      BY <2>3, <3>1
  <2>5. n = 256 * e[2] + e[1]
    BY <1>2, <2>4 DEF Len16
  <2>6. n % 256 = e[1] /\ n \div 256 = e[2]
    BY <2>3, <2>5, WordParts
  <2>. QED
    BY <2>1, <2>6
<1>5. t \in Seq(Byte) /\ Len(t) = n /\ \A i \in 1..n : t[i] = s[i + 2]
  <2>1. t = SubSeq(s, 2 + 1, 2 + n) /\ 2 + n <= Len(s)
    <3>1. n + 2 = 2 + n /\ 3 = 2 + 1
      BY <1>1
    <3>2. Len(s) \in Nat
      BY LenProperties
    <3>. QED
      BY <1>1, <3>1, <3>2
  <2>. HIDE DEF t
  <2>. QED
    BY <1>1, <2>1, PieceOf
<1>. HIDE DEF h, t
<1>6. /\ c \in Seq(Byte) /\ Len(c) = 2 + n
      /\ \A i \in 1..2 : c[i] = h[i]
      /\ \A i \in 1..n : c[i + 2] = t[i]
  <2>1. c \in Seq(Byte)
    BY <1>4, <1>5, ConcatProperties
  <2>2. /\ Len(h \o t) = Len(h) + Len(t)
        /\ \A i \in 1..Len(h) : (h \o t)[i] = h[i]
        /\ \A i \in 1..Len(t) : (h \o t)[i + Len(h)] = t[i]
    BY <1>4, <1>5, BytesJoined
  <2>. HIDE DEF c
  <2>3. /\ Len(c) = Len(h) + Len(t)
        /\ \A i \in 1..Len(h) : c[i] = h[i]
        /\ \A i \in 1..Len(t) : c[i + Len(h)] = t[i]
    BY <2>2 DEF c
  <2>. QED
    BY <1>4, <1>5, <2>1, <2>3
<1>. HIDE DEF c
<1>7. ASSUME NEW j \in 1..Len(e) PROVE c[j] = e[j]
  <2>1. CASE j \in 1..2
    BY <1>4, <1>6, <2>1
  <2>2. CASE j \notin 1..2
    <3> DEFINE i == j - 2
    <3>1. i \in 1..n /\ i + 2 = j /\ j \in 3..Len(p)
      BY <1>1, <1>2, <2>2
    <3>. HIDE DEF i
    <3>2. c[i + 2] = s[i + 2]
      BY <1>5, <1>6, <3>1
    <3>. QED
      BY <1>3, <3>1, <3>2
  <2>. QED
    BY <2>1, <2>2
<1>8. Len(c) = Len(e)
  BY <1>1, <1>2, <1>6
<1>9. c = e
  BY <1>2, <1>6, <1>7, <1>8, SeqEqual
<1>. QED
  BY <1>9 DEF c, h, t, n, e

-----------------------------------------------------------------------------
(* The stream of the client. *)

(* Where each of some frames ends, when they stand one behind the other.   *)
EndsOf(plains) ==
  LET from[k \in 0..Len(plains)] ==
        IF k = 0 THEN 0 ELSE from[k - 1] + Len(plains[k])
  IN  from

Sized(plains) == Len(plains) \in Nat /\ \A k \in 1..Len(plains) : Len(plains[k]) \in Nat

(* The ends are a recursion along the frames; it has a value.              *)
LEMMA EndsRun ==
  ASSUME NEW plains, Sized(plains)
  PROVE  \E g \in [0..Len(plains) -> Nat] :
           g = [k \in 0..Len(plains) |-> IF k = 0 THEN 0 ELSE g[k - 1] + Len(plains[k])]
<1> DEFINE L == Len(plains)
           size == [k \in 1..L |-> Len(plains[k])]
           Runs(g, n) == \A k \in 0..n : g[k] = IF k = 0 THEN 0 ELSE g[k - 1] + size[k]
           Good == {n \in Nat : n <= L => \E g \in [0..n -> Nat] : Runs(g, n)}
<1>0. L \in Nat /\ size \in [1..L -> Nat]
  BY DEF Sized
<1>. HIDE DEF L, size
<1>1. 0 \in Good
  <2> DEFINE g == [k \in 0..0 |-> 0]
  <2>1. g \in [0..0 -> Nat] /\ Runs(g, 0)
    OBVIOUS
  <2>. QED
    BY <2>1
<1>2. ASSUME NEW n \in Good
      PROVE  n + 1 \in Good
  <2>. SUFFICES ASSUME n + 1 <= L
                PROVE  \E g \in [0..(n + 1) -> Nat] : Runs(g, n + 1)
    BY SMTT(60)
  <2>0. n \in Good /\ n <= L
    BY <1>0, <1>2
  <2>1. PICK g \in [0..n -> Nat] : Runs(g, n)
    BY <2>0, Zenon
  <2> DEFINE h == [k \in 0..(n + 1) |-> IF k = n + 1 THEN g[n] + size[n + 1] ELSE g[k]]
  <2>2. h \in [0..(n + 1) -> Nat]
    BY <1>0
  <2>3. ASSUME NEW k \in 0..(n + 1)
        PROVE  h[k] = IF k = 0 THEN 0 ELSE h[k - 1] + size[k]
    <3>1. CASE k = n + 1
      BY <3>1
    <3>2. CASE k \in 0..n
      <4>1. h[k] = g[k] /\ (k # 0 => h[k - 1] = g[k - 1])
        BY <3>2
      <4>. QED
        BY <2>1, <3>2, <4>1
    <3>. QED
      BY <3>1, <3>2
  <2>. QED
    BY <2>2, <2>3
<1>3. L \in Good
  <2>1. Good \subseteq Nat
    OBVIOUS
  <2>. HIDE DEF Good
  <2>. QED
    BY <1>0, <1>1, <1>2, <2>1, NatSetInduction
<1>4. PICK g \in [0..L -> Nat] : Runs(g, L)
  <2>1. L <= L
    BY <1>0
  <2>. QED
    BY <1>3, <2>1, Zenon
<1>5. g = [k \in 0..L |-> IF k = 0 THEN 0 ELSE g[k - 1] + size[k]]
  BY <1>4
<1>6. \A k \in 0..L : k # 0 => size[k] = Len(plains[k])
  BY <1>0 DEF size
<1>7. g = [k \in 0..L |-> IF k = 0 THEN 0 ELSE g[k - 1] + Len(plains[k])]
  BY <1>5, <1>6
<1>. QED
  BY <1>4, <1>7 DEF L

LEMMA EndsAdvance ==
  ASSUME NEW plains, Sized(plains)
  PROVE  /\ EndsOf(plains)[0] = 0
         /\ \A k \in 0..Len(plains) : EndsOf(plains)[k] \in Nat
         /\ \A k \in 1..Len(plains) :
               EndsOf(plains)[k] = EndsOf(plains)[k - 1] + Len(plains[k])
<1> DEFINE ends == EndsOf(plains)
           n == Len(plains)
           Good == {k \in Nat : k <= n => ends[k] \in Nat}
<1>1. ends = [k \in 0..n |-> IF k = 0 THEN 0 ELSE ends[k - 1] + Len(plains[k])]
  BY EndsRun DEF EndsOf
<1>2. n \in Nat /\ \A k \in 1..n : Len(plains[k]) \in Nat
  BY DEF Sized
<1>. HIDE DEF n, ends
<1>3. ends[0] = 0 /\ \A k \in 1..n : ends[k] = ends[k - 1] + Len(plains[k])
  BY <1>1, <1>2
<1>4. 0 \in Good
  BY <1>3
<1>5. ASSUME NEW k \in Nat, k \in Good PROVE k + 1 \in Good
  <2>. SUFFICES ASSUME k + 1 <= n PROVE ends[k + 1] \in Nat
    OBVIOUS
  <2>1. ends[k] \in Nat /\ k + 1 \in 1..n /\ (k + 1) - 1 = k
    BY <1>2, <1>5
  <2>. QED
    BY <1>2, <1>3, <2>1, SMTT(60)
<1>6. Nat \subseteq Good
  <2>. HIDE DEF Good
  <2>. QED
    BY <1>4, <1>5, NatSetInduction
<1>7. \A k \in 0..n : ends[k] \in Nat
  BY <1>2, <1>6
<1>. QED
  BY <1>3, <1>7 DEF n, ends

LEMMA EndsRise ==
  ASSUME NEW plains, Sized(plains),
         NEW a \in 0..Len(plains), NEW b \in 0..Len(plains), a <= b
  PROVE  EndsOf(plains)[a] <= EndsOf(plains)[b]
<1> DEFINE ends == EndsOf(plains)
           n == Len(plains)
           Good == {k \in Nat : a + k <= n => ends[a] <= ends[a + k]}
<1>1. /\ n \in Nat /\ \A k \in 1..n : Len(plains[k]) \in Nat
      /\ \A k \in 0..n : ends[k] \in Nat
      /\ \A k \in 1..n : ends[k] = ends[k - 1] + Len(plains[k])
  BY EndsAdvance DEF Sized
<1>. HIDE DEF n, ends
<1>2. a \in 0..n /\ b \in 0..n
  BY DEF n
<1>3. 0 \in Good
  BY <1>1, <1>2
<1>4. ASSUME NEW k \in Nat, k \in Good PROVE k + 1 \in Good
  <2>. SUFFICES ASSUME a + (k + 1) <= n PROVE ends[a] <= ends[a + (k + 1)]
    OBVIOUS
  <2> DEFINE m == a + (k + 1)
  <2>1. m \in 1..n /\ m - 1 = a + k /\ a + k \in 0..n /\ ends[a] <= ends[a + k]
    BY <1>1, <1>2, <1>4
  <2>. HIDE DEF m
  <2>2. /\ ends[m] = ends[a + k] + Len(plains[m]) /\ Len(plains[m]) \in Nat
        /\ ends[a] \in Nat /\ ends[a + k] \in Nat
    BY <1>1, <1>2, <2>1
  <2>. QED
    BY <2>1, <2>2 DEF m
<1>5. Nat \subseteq Good
  <2>. HIDE DEF Good
  <2>. QED
    BY <1>3, <1>4, NatSetInduction
<1>6. b - a \in Nat /\ a + (b - a) = b
  BY <1>2
<1>7. b - a \in Good
  BY <1>5, <1>6
<1>8. ends[a] <= ends[b]
  <2>1. a + (b - a) <= n => ends[a] <= ends[a + (b - a)]
    BY <1>7
  <2>2. b <= n
    BY <1>1, <1>2
  <2>. QED
    BY <1>6, <2>1, <2>2
<1>. QED
  BY <1>8 DEF ends

(* The script of the client.                                               *)
Ends == EndsOf(ClientScript)

LEMMA ScriptFramed ==
  \A k \in 1..Len(ClientScript) :
    Framed(ClientScript[k]) /\ Len(ClientScript[k]) \in Nat /\ Len(ClientScript[k]) >= 8
BY ScriptAssumption, FramedParts

LEMMA ScriptLength == Len(ClientScript) \in Nat
BY ScriptAssumption, LenProperties

LEMMA EndsNext ==
  /\ Ends[0] = 0
  /\ \A k \in 0..Len(ClientScript) : Ends[k] \in Nat
  /\ \A k \in 1..Len(ClientScript) : Ends[k] = Ends[k - 1] + Len(ClientScript[k])
<1>1. Sized(ClientScript)
  BY ScriptFramed, ScriptLength DEF Sized
<1>. QED
  BY <1>1, EndsAdvance DEF Ends

LEMMA EndsGrow ==
  ASSUME NEW a \in 0..Len(ClientScript), NEW b \in 0..Len(ClientScript), a <= b
  PROVE  Ends[a] <= Ends[b]
<1>1. Sized(ClientScript)
  BY ScriptFramed, ScriptLength DEF Sized
<1>. QED
  BY <1>1, EndsRise DEF Ends

(* What has arrived and is not read is the last stretch of what the client *)
(* has sent, and that is its script, frame by frame.                       *)
ClientInv ==
  /\ in \in Seq(Byte) /\ cout \in Seq(Byte) /\ DOMAIN pos = Flows /\ pos["c2s"] \in Nat
  /\ pos["c2s"] <= Len(cout) /\ Len(in) <= pos["c2s"]
  /\ spoken \in 0..Len(ClientScript) /\ Len(cout) = Ends[spoken]
  /\ \A k \in 1..spoken : \A j \in 1..Len(ClientScript[k]) :
        cout[Ends[k - 1] + j] = Pack(ClientScript[k])[j]
  /\ \A j \in 1..Len(in) : in[j] = cout[(pos["c2s"] - Len(in)) + j]

(* How the handler stands when it has read k frames.                       *)
Answered(k) ==
  /\ \A i \in EchoesBy(Len(sent)) : \E m \in MovesBy(k) : Answers(i, m)
  /\ rpc = "echo" =>
       /\ KeepAlive /\ HasActor
       /\ k \in MovesBy(k) /\ move = PosOf(ClientScript[k])
       /\ Cardinality(EchoesBy(Len(sent))) + 1 = Cardinality(MovesBy(k))
  /\ KeepAlive /\ HasActor /\ rpc \in {"listen", "read"} =>
       Cardinality(EchoesBy(Len(sent))) = Cardinality(MovesBy(k))

ReadTo(k) == pos["c2s"] - Len(in) = Ends[k]

HandlerInv ==
  /\ rpc \in {"listen", "read", "echo", "gone"} /\ (rpc = "gone" => ~open)
  /\ sent \in Seq({sent[i] : i \in DOMAIN sent})
  /\ \E k \in 0..spoken : ReadTo(k) /\ Answered(k)

LinkInv == ClientInv /\ HandlerInv

-----------------------------------------------------------------------------
(* The bytes in hand begin with the next frame of the script, if there is  *)
(* one: enough of them are that frame, fewer say its length at most.       *)
LEMMA NextInHand ==
  ASSUME ClientInv, NEW k \in 0..spoken, ReadTo(k), k < spoken
  PROVE  LET p == ClientScript[k + 1]
         IN  /\ Framed(p) /\ k + 1 \in 1..Len(ClientScript)
             /\ Ends[k + 1] = Ends[k] + Len(p)
             /\ \A j \in 1..Len(p) : j <= Len(in) => in[j] = Pack(p)[j]
<1> DEFINE p == ClientScript[k + 1]
<1>1. /\ k + 1 \in 1..Len(ClientScript) /\ k + 1 \in 1..spoken /\ (k + 1) - 1 = k
      /\ k \in 0..Len(ClientScript)
  BY ScriptLength DEF ClientInv
<1>2. Framed(p) /\ Len(p) \in Nat
  BY <1>1, ScriptFramed
<1>3. Ends[k] \in Nat /\ Ends[k + 1] = Ends[k] + Len(p)
  BY <1>1, EndsNext
<1>4. \A j \in 1..Len(p) : cout[Ends[k] + j] = Pack(p)[j]
  <2>1. \A j \in 1..Len(ClientScript[k + 1]) :
          cout[Ends[(k + 1) - 1] + j] = Pack(ClientScript[k + 1])[j]
    BY <1>1 DEF ClientInv
  <2>. QED
    BY <1>1, <2>1
<1>. HIDE DEF p
<1>5. \A j \in 1..Len(in) : in[j] = cout[Ends[k] + j]
  BY DEF ClientInv, ReadTo
<1>6. Len(in) \in Nat
  BY LenProperties DEF ClientInv
<1>7. ASSUME NEW j \in 1..Len(p), j <= Len(in) PROVE in[j] = Pack(p)[j]
  <2>1. j \in 1..Len(in)
    BY <1>2, <1>6, <1>7
  <2>. QED
    BY <1>4, <1>5, <2>1
<1>. QED
  BY <1>1, <1>2, <1>3, <1>7 DEF p

LEMMA NothingInHand ==
  ASSUME ClientInv, ReadTo(spoken)
  PROVE  Len(in) = 0 /\ ~Arrived(4)
<1>1. Len(in) \in Nat /\ Len(cout) \in Nat /\ pos["c2s"] \in Nat
  BY LinkAssumption, LenProperties DEF ClientInv
<1>2. pos["c2s"] - Len(in) = Len(cout) /\ pos["c2s"] <= Len(cout)
  BY DEF ClientInv, ReadTo
<1>3. Len(in) = 0
  BY <1>1, <1>2
<1>. QED
  BY <1>3 DEF Arrived

(* No length of the client's is below six.                                 *)
LEMMA NeverBadHead ==
  ASSUME ClientInv, NEW k \in 0..spoken, ReadTo(k)
  PROVE  ~BadHead
<1>. SUFFICES ASSUME Arrived(4) PROVE ~(NextLen < 6)
  BY DEF BadHead
<1>1. spoken \in Nat /\ k \in Nat
  BY ScriptLength DEF ClientInv
<1>2. k # spoken
  BY NothingInHand
<1>3. k < spoken
  BY <1>1, <1>2
<1> DEFINE p == ClientScript[k + 1]
<1>4. Framed(p) /\ \A j \in 1..Len(p) : j <= Len(in) => in[j] = Pack(p)[j]
  BY <1>3, NextInHand
<1>. HIDE DEF p
<1>5. Len(p) \in Nat /\ Len(p) = Len16(p) + 2 /\ Len16(p) \in Nat /\ Len16(p) >= 6
  BY <1>4, FramedParts
<1>6. in \in Seq(Byte) /\ Len(in) >= 4 /\ Len(in) \in Nat
  BY LenProperties DEF ClientInv, Arrived
<1>7. \A j \in 1..4 : in[j] = Pack(p)[j]
  BY <1>4, <1>5, <1>6
<1>8. NextLen = Len16(p)
  BY <1>4, <1>6, <1>7, HeadRead DEF NextLen
<1>. QED
  BY <1>5, <1>8

(* A frame the handler reads is the next of the script, in the clear.      *)
LEMMA FrameInHand ==
  ASSUME ClientInv, NEW k \in 0..spoken, ReadTo(k), HasFrame
  PROVE  LET p == ClientScript[k + 1]
         IN  /\ k < spoken /\ NextLen + 2 = Len(p) /\ Len(p) <= Len(in)
             /\ FrameRead.ok /\ Recovers(FrameRead.plain, p)
<1>1. spoken \in Nat /\ k \in Nat
  BY ScriptLength DEF ClientInv
<1>2. k # spoken
  BY NothingInHand DEF HasFrame
<1>3. k < spoken
  BY <1>1, <1>2
<1> DEFINE p == ClientScript[k + 1]
<1>4. Framed(p) /\ \A j \in 1..Len(p) : j <= Len(in) => in[j] = Pack(p)[j]
  BY <1>3, NextInHand
<1>. HIDE DEF p
<1>5. /\ Len(p) \in Nat /\ Len(p) = Len16(p) + 2 /\ Len16(p) \in Nat /\ Len16(p) >= 6
      /\ p \in Seq(Byte) /\ ~Unsound(p)
  BY <1>4, FramedParts
<1>6. in \in Seq(Byte) /\ Len(in) >= 4 /\ Len(in) \in Nat
  BY LenProperties DEF ClientInv, HasFrame, Arrived
<1>7. \A j \in 1..4 : in[j] = Pack(p)[j]
  BY <1>4, <1>5, <1>6
<1>8. NextLen = Len16(p)
  BY <1>4, <1>6, <1>7, HeadRead DEF NextLen
<1>9. Len(in) >= Len(p)
  BY <1>5, <1>8 DEF HasFrame, Arrived
<1>10. \A j \in 1..Len(p) : in[j] = Pack(p)[j]
  BY <1>4, <1>5, <1>6, <1>9, SMTT(60)
<1>11. LenBytes(Len16(p)) \o SubSeq(in, 3, Len16(p) + 2) = Encrypt(p)
  BY <1>4, <1>6, <1>9, <1>10, FrameTaken
<1>12. FrameRead = Decrypt(Encrypt(p))
  BY <1>8, <1>11, Zenon DEF FrameRead
<1>13. Decrypt(Encrypt(p)).ok /\ Recovers(Decrypt(Encrypt(p)).plain, p)
  BY <1>5, FrameRoundTrip
<1>. QED
  BY <1>3, <1>5, <1>6, <1>8, <1>9, <1>12, <1>13 DEF p

(* When all the client has sent has arrived, a frame not read is whole.    *)
LEMMA WholeInHand ==
  ASSUME ClientInv, NEW k \in 0..spoken, ReadTo(k), k < spoken, pos["c2s"] = Len(cout)
  PROVE  HasFrame
<1> DEFINE p == ClientScript[k + 1]
<1>1. /\ Framed(p) /\ k + 1 \in 1..Len(ClientScript) /\ Ends[k + 1] = Ends[k] + Len(p)
      /\ \A j \in 1..Len(p) : j <= Len(in) => in[j] = Pack(p)[j]
  BY NextInHand
<1>. HIDE DEF p
<1>2. Len(p) \in Nat /\ Len(p) = Len16(p) + 2 /\ Len16(p) \in Nat /\ Len16(p) >= 6
  BY <1>1, FramedParts
<1>3. k + 1 <= spoken /\ spoken \in 0..Len(ClientScript) /\ k \in 0..Len(ClientScript)
  BY ScriptLength DEF ClientInv
<1>4. Ends[k + 1] <= Ends[spoken]
  BY <1>1, <1>3, EndsGrow
<1>5. Ends[k] \in Nat /\ Ends[spoken] \in Nat /\ Ends[k + 1] \in Nat
  BY <1>1, <1>3, EndsNext
<1>6. in \in Seq(Byte) /\ Len(in) \in Nat /\ pos["c2s"] = Ends[spoken]
      /\ pos["c2s"] - Len(in) = Ends[k]
  BY LenProperties DEF ClientInv, ReadTo
<1>7. Len(in) >= Len(p)
  BY <1>1, <1>2, <1>4, <1>5, <1>6
<1>8. \A j \in 1..4 : in[j] = Pack(p)[j]
  BY <1>1, <1>2, <1>6, <1>7
<1>9. NextLen = Len16(p)
  BY <1>1, <1>2, <1>6, <1>7, <1>8, HeadRead DEF NextLen
<1>. QED
  BY <1>2, <1>6, <1>7, <1>9 DEF HasFrame, Arrived

-----------------------------------------------------------------------------
(* Each step keeps the stream in order.                                    *)
LEMMA ClientInvQuiet ==
  ASSUME ClientInv, UNCHANGED <<in, cout, spoken>>,
         DOMAIN pos' = Flows, pos'["c2s"] = pos["c2s"]
  PROVE  ClientInv' /\ \A k \in 0..spoken : ReadTo(k) => ReadTo(k)'
BY DEF ClientInv, ReadTo

LEMMA ClientInvSends ==
  ASSUME ClientInv, ClientSends
  PROVE  ClientInv'
<1> DEFINE n == spoken + 1
           p == ClientScript[n]
           c == Pack(p)
<1>1. /\ spoken \in Nat /\ n \in 1..Len(ClientScript) /\ n - 1 = spoken
      /\ n \in 0..Len(ClientScript) /\ spoken \in 0..Len(ClientScript)
  BY ScriptLength DEF ClientInv, ClientSends
<1>2. Framed(p) /\ Len(p) \in Nat /\ Ends[n] = Ends[spoken] + Len(p)
  BY <1>1, ScriptFramed, EndsNext
<1>3. c \in Seq(Byte) /\ Len(c) = Len(p)
  BY <1>2, PackParts
<1>4. /\ cout' = cout \o c /\ spoken' = n /\ in' = in /\ pos' = pos
  BY DEF ClientSends, worldVars
<1>. HIDE DEF n, c
<1>5. cout \in Seq(Byte) /\ Len(cout) \in Nat /\ Len(cout) = Ends[spoken]
  BY LenProperties DEF ClientInv
<1>6. /\ cout' \in Seq(Byte) /\ Len(cout') = Len(cout) + Len(c)
      /\ \A i \in 1..Len(cout) : cout'[i] = cout[i]
      /\ \A i \in 1..Len(c) : cout'[i + Len(cout)] = c[i]
  BY <1>3, <1>4, <1>5, BytesJoined, ConcatProperties
<1>7. Len(cout') = Ends[n]
  BY <1>2, <1>3, <1>5, <1>6
<1>8. ASSUME NEW k \in 1..n, NEW j \in 1..Len(ClientScript[k])
      PROVE  cout'[Ends[k - 1] + j] = Pack(ClientScript[k])[j]
  <2>1. CASE k = n
    <3>1. cout'[Ends[spoken] + j] = c[j]
      <4>1. j \in 1..Len(c) /\ Ends[spoken] + j = j + Len(cout)
        BY <1>2, <1>3, <1>5, <2>1
      <4>. QED
        BY <1>6, <4>1
    <3>. QED
      BY <1>1, <2>1, <3>1 DEF c
  <2>2. CASE k # n
    <3>1. k \in 1..spoken /\ k \in 1..Len(ClientScript) /\ k \in 0..Len(ClientScript)
          /\ k - 1 \in 0..Len(ClientScript)
      BY <1>1, <2>2, ScriptLength DEF n
    <3>2. cout[Ends[k - 1] + j] = Pack(ClientScript[k])[j]
      BY <3>1 DEF ClientInv
    <3>3. /\ Ends[k] = Ends[k - 1] + Len(ClientScript[k]) /\ Ends[k] <= Ends[spoken]
          /\ Ends[k - 1] \in Nat /\ Ends[spoken] \in Nat /\ Len(ClientScript[k]) \in Nat
      <4>1. k <= spoken
        BY <1>1, <3>1
      <4>. QED
        BY <1>1, <3>1, <4>1, EndsNext, EndsGrow, ScriptFramed
    <3>4. Ends[k - 1] + j \in 1..Len(cout)
      BY <1>5, <3>3, SMTT(60)
    <3>. QED
      BY <1>6, <3>2, <3>4
  <2>. QED
    BY <2>1, <2>2
<1>9. ASSUME NEW j \in 1..Len(in) PROVE in[j] = cout'[(pos["c2s"] - Len(in)) + j]
  <2>1. in[j] = cout[(pos["c2s"] - Len(in)) + j]
    BY DEF ClientInv
  <2>2. /\ pos["c2s"] \in Nat /\ Len(in) \in Nat
        /\ pos["c2s"] <= Len(cout) /\ Len(in) <= pos["c2s"]
    BY LinkAssumption, LenProperties DEF ClientInv
  <2>3. (pos["c2s"] - Len(in)) + j \in 1..Len(cout)
    BY <1>5, <2>2
  <2>. QED
    BY <1>6, <2>1, <2>3
<1>10. pos["c2s"] <= Len(cout')
  <2>1. pos["c2s"] \in Nat /\ pos["c2s"] <= Len(cout)
    BY LinkAssumption DEF ClientInv
  <2>. QED
    BY <1>2, <1>3, <1>5, <1>6, <2>1
<1>. QED
  BY <1>1, <1>4, <1>6, <1>7, <1>8, <1>9, <1>10 DEF ClientInv

LEMMA MinOfTwo ==
  ASSUME NEW a \in Nat, NEW b \in Nat
  PROVE  Min({a, b}) = IF a <= b THEN a ELSE b
<1> DEFINE m == IF a <= b THEN a ELSE b
<1>1. m \in {a, b} /\ \A y \in {a, b} : m <= y
  OBVIOUS
<1>2. \A x \in {a, b} : (\A y \in {a, b} : x <= y) => x = m
  OBVIOUS
<1>. QED
  BY <1>1, <1>2 DEF Min

LEMMA ClientInvArrives ==
  ASSUME ClientInv, Sendable("c2s"), Arrives("c2s"), UNCHANGED <<cout, spoken>>
  PROVE  ClientInv' /\ \A k \in 0..spoken : ReadTo(k) => ReadTo(k)'
<1> DEFINE a == pos["c2s"]
           z == SegmentSize["c2s"]
           n == Min({a + z, Len(cout)}) - a
           s == SubSeq(cout, a + 1, Min({a + z, Len(cout)}))
<1>1. "c2s" \in Flows /\ a \in Nat /\ z \in Nat \ {0} /\ a < Len(cout) /\ Len(cout) \in Nat
  BY LinkAssumption, LenProperties DEF ClientInv, Sendable, Stream
<1>2. s = Segment("c2s")
  BY DEF Segment, Stream
<1>3. n \in Nat /\ a + n <= Len(cout) /\ Min({a + z, Len(cout)}) = a + n
  <2>1. Min({a + z, Len(cout)}) = IF a + z <= Len(cout) THEN a + z ELSE Len(cout)
    BY <1>1, MinOfTwo
  <2>. QED
    BY <1>1, <2>1
<1>4. s \in Seq(Byte) /\ Len(s) = n /\ \A i \in 1..n : s[i] = cout[i + a]
  <2>. HIDE DEF n, a
  <2>1. s = SubSeq(cout, a + 1, a + n)
    BY <1>3
  <2>. HIDE DEF s
  <2>. QED
    <3>1. cout \in Seq(Byte) /\ a \in Nat /\ n \in Nat /\ a + n <= Len(cout)
      BY <1>1, <1>3 DEF ClientInv
    <3>2. LET t == SubSeq(cout, a + 1, a + n)
          IN  t \in Seq(Byte) /\ Len(t) = n /\ \A i \in 1..n : t[i] = cout[i + a]
      BY <3>1, PieceOf
    <3>. QED
      BY <2>1, <3>2
<1>5. pos' = [pos EXCEPT !["c2s"] = a + Len(s)] /\ in' = in \o s
  BY <1>2 DEF Arrives
<1>. HIDE DEF s, n
<1>6. DOMAIN pos' = Flows /\ pos'["c2s"] = a + n
  BY <1>1, <1>3, <1>4, <1>5 DEF ClientInv
<1>7. in \in Seq(Byte) /\ Len(in) \in Nat /\ Len(in) <= a
  BY LenProperties DEF ClientInv
<1>8. /\ in' \in Seq(Byte) /\ Len(in') = Len(in) + n
      /\ \A i \in 1..Len(in) : in'[i] = in[i]
      /\ \A i \in 1..n : in'[i + Len(in)] = s[i]
  BY <1>4, <1>5, <1>7, BytesJoined, ConcatProperties
<1>9. pos'["c2s"] - Len(in') = a - Len(in)
  BY <1>1, <1>3, <1>6, <1>7, <1>8
<1>10. ASSUME NEW j \in 1..Len(in') PROVE in'[j] = cout[(a - Len(in)) + j]
  <2>1. CASE j <= Len(in)
    <3>1. j \in 1..Len(in)
      BY <1>3, <1>7, <1>8, <2>1
    <3>. QED
      BY <1>8, <3>1 DEF ClientInv
  <2>2. CASE ~(j <= Len(in))
    <3> DEFINE i == j - Len(in)
    <3>1. i \in 1..n /\ i + Len(in) = j /\ i + a = (a - Len(in)) + j
      BY <1>1, <1>3, <1>7, <1>8, <2>2
    <3>. HIDE DEF i, a
    <3>2. in'[i + Len(in)] = cout[i + a]
      BY <1>4, <1>8, <3>1
    <3>. QED
      BY <3>1, <3>2
  <2>. QED
    BY <2>1, <2>2
<1>11. ClientInv'
  <2>1. Len(in') <= pos'["c2s"] /\ pos'["c2s"] <= Len(cout) /\ pos'["c2s"] \in Nat
    BY <1>1, <1>3, <1>6, <1>7, <1>8
  <2>. QED
    BY <1>6, <1>8, <1>9, <1>10, <2>1 DEF ClientInv
<1>. QED
  BY <1>9, <1>11 DEF ReadTo

LEMMA ClientInvReads ==
  ASSUME ClientInv, NEW k \in 0..spoken, ReadTo(k), HasFrame, Consumed,
         UNCHANGED <<cout, spoken, pos>>
  PROVE  ClientInv' /\ k + 1 \in 1..spoken /\ ReadTo(k + 1)'
<1> DEFINE p == ClientScript[k + 1]
           m == Len(p)
           n == Len(in) - m
           s == SubSeq(in, m + 1, m + n)
<1>1. k < spoken /\ NextLen + 2 = m /\ m <= Len(in)
  BY FrameInHand
<1>2. k + 1 \in 1..spoken /\ k + 1 \in 1..Len(ClientScript) /\ k \in 0..Len(ClientScript)
  BY <1>1, ScriptLength DEF ClientInv
<1>3. Framed(p) /\ m \in Nat /\ Ends[k + 1] = Ends[k] + m /\ Ends[k] \in Nat
  <2>1. Framed(p) /\ Ends[k + 1] = Ends[k] + Len(p)
    BY <1>1, NextInHand
  <2>. QED
    BY <1>2, <2>1, ScriptFramed, EndsNext
<1>4. in \in Seq(Byte) /\ Len(in) \in Nat /\ n \in Nat /\ m + n = Len(in) /\ NextLen + 3 = m + 1
  <2>1. in \in Seq(Byte) /\ Len(in) \in Nat
    BY LenProperties DEF ClientInv
  <2>2. HasFrame /\ NextLen \in Int
    <3>1. Framed(p) /\ \A j \in 1..m : j <= Len(in) => in[j] = Pack(p)[j]
      BY <1>1, NextInHand
    <3>2. Len(p) = Len16(p) + 2 /\ Len16(p) \in Nat /\ Len16(p) >= 6
      BY <3>1, FramedParts
    <3>3. \A j \in 1..4 : in[j] = Pack(p)[j]
      BY <1>1, <2>1, <3>1, <3>2
    <3>4. NextLen = Len16(p)
      BY <1>1, <2>1, <3>1, <3>2, <3>3, HeadRead DEF NextLen
    <3>. QED
      BY <3>2, <3>4
  <2>. HIDE DEF m
  <2>. QED
    BY <1>1, <1>3, <2>1, <2>2
<1>5. in' = s
  BY <1>4 DEF Consumed
<1>. HIDE DEF m, n
<1>6. in' \in Seq(Byte) /\ Len(in') = n /\ \A i \in 1..n : in'[i] = in[i + m]
  <2>1. m + n <= Len(in)
    BY <1>4
  <2>2. s \in Seq(Byte) /\ Len(s) = n /\ \A i \in 1..n : s[i] = in[i + m]
    <3>1. in \in Seq(Byte) /\ m \in Nat /\ n \in Nat /\ m + n <= Len(in)
      BY <1>3, <1>4, <2>1
    <3>2. LET t == SubSeq(in, m + 1, m + n)
          IN  t \in Seq(Byte) /\ Len(t) = n /\ \A i \in 1..n : t[i] = in[i + m]
      BY <3>1, PieceOf
    <3>. QED
      BY <3>2
  <2>. HIDE DEF s
  <2>. QED
    BY <1>5, <2>2
<1>. HIDE DEF s
<1>7. pos["c2s"] \in Nat /\ Len(in) <= pos["c2s"]
  BY LinkAssumption DEF ClientInv
<1>8. pos["c2s"] - Len(in') = (pos["c2s"] - Len(in)) + m /\ Len(in') <= pos["c2s"]
  BY <1>3, <1>4, <1>6, <1>7
<1>9. ASSUME NEW j \in 1..n PROVE in'[j] = cout[(pos["c2s"] - Len(in')) + j]
  <2>1. j + m \in 1..Len(in) /\ (pos["c2s"] - Len(in)) + (j + m) = (pos["c2s"] - Len(in')) + j
    BY <1>3, <1>4, <1>6, <1>7, <1>8, SMTT(60)
  <2>2. in[j + m] = cout[(pos["c2s"] - Len(in)) + (j + m)]
    BY <2>1 DEF ClientInv
  <2>. QED
    BY <1>6, <2>1, <2>2
<1>10. ClientInv'
  BY <1>6, <1>8, <1>9 DEF ClientInv
<1>11. ReadTo(k + 1)'
  BY <1>3, <1>8 DEF ReadTo
<1>. QED
  BY <1>2, <1>10, <1>11

-----------------------------------------------------------------------------
(* What is sent, and what is counted.                                      *)
LEMMA AppendAny ==
  ASSUME NEW s, s \in Seq({s[i] : i \in DOMAIN s}), NEW x, NEW t, t = Append(s, x)
  PROVE  /\ t \in Seq({t[i] : i \in DOMAIN t})
         /\ Len(s) \in Nat /\ Len(t) = Len(s) + 1 /\ t[Len(s) + 1] = x
         /\ \A i \in 1..Len(s) : t[i] = s[i]
<1> DEFINE S == {s[i] : i \in DOMAIN s} \cup {x}
<1>1. s \in Seq(S) /\ x \in S
  <2>1. {s[i] : i \in DOMAIN s} \subseteq S
    OBVIOUS
  <2>. HIDE DEF S
  <2>2. s \in Seq(S)
    BY <2>1, SeqMonotonic
  <2>. QED
    BY <2>2 DEF S
<1>. HIDE DEF S
<1>2. /\ t \in Seq(S) /\ Len(t) = Len(s) + 1 /\ t[Len(s) + 1] = x
      /\ \A i \in 1..Len(s) : t[i] = s[i]
  BY <1>1, AppendProperties
<1>3. Len(s) \in Nat
  BY <1>1, LenProperties
<1>4. t \in Seq({t[i] : i \in DOMAIN t})
  <2>1. DOMAIN t = 1..Len(t) /\ Len(t) \in Nat /\ t = [i \in 1..Len(t) |-> t[i]]
    BY <1>2, LenProperties
  <2>. DEFINE T == {t[i] : i \in DOMAIN t}
  <2>2. \A i \in 1..Len(t) : t[i] \in T
    BY <2>1
  <2>. HIDE DEF T
  <2>3. t \in [1..Len(t) -> T]
    BY <2>1, <2>2
  <2>4. t \in Seq(T)
    BY <2>1, <2>3, IsASeq
  <2>. QED
    BY <2>4 DEF T
<1>. QED
  BY <1>2, <1>3, <1>4

LEMMA MovesCounted ==
  ASSUME NEW k \in Nat
  PROVE  /\ IsFiniteSet(MovesBy(k)) /\ Cardinality(MovesBy(k)) \in Nat
         /\ MovesBy(k) \subseteq MovesBy(k + 1)
         /\ (k + 1 \notin MovesBy(k + 1) => MovesBy(k + 1) = MovesBy(k))
         /\ (k + 1 \in MovesBy(k + 1) =>
               Cardinality(MovesBy(k + 1)) = Cardinality(MovesBy(k)) + 1)
<1>1. IsFiniteSet(1..k) /\ MovesBy(k) \subseteq 1..k
  BY FS_Interval DEF MovesBy
<1>2. IsFiniteSet(MovesBy(k)) /\ Cardinality(MovesBy(k)) \in Nat
  BY <1>1, FS_Subset, FS_CardinalityType
<1>3. MovesBy(k) \subseteq MovesBy(k + 1)
  BY DEF MovesBy
<1>4. ASSUME k + 1 \notin MovesBy(k + 1) PROVE MovesBy(k + 1) = MovesBy(k)
  BY <1>4 DEF MovesBy
<1>5. ASSUME k + 1 \in MovesBy(k + 1)
      PROVE  Cardinality(MovesBy(k + 1)) = Cardinality(MovesBy(k)) + 1
  <2>1. MovesBy(k + 1) = MovesBy(k) \cup {k + 1} /\ k + 1 \notin MovesBy(k)
    BY <1>5 DEF MovesBy
  <2>. QED
    BY <1>2, <2>1, FS_AddElement
<1>. QED
  BY <1>2, <1>3, <1>4, <1>5

LEMMA MovesGrow ==
  \A a, b \in Nat : a <= b => MovesBy(a) \subseteq MovesBy(b)
BY DEF MovesBy

(* A frame handed to the socket leaves the echoes before it as they were.  *)
LEMMA EchoesCounted ==
  ASSUME sent \in Seq({sent[i] : i \in DOMAIN sent}),
         NEW what, NEW p, sent' = Append(sent, [what |-> what, plain |-> p])
  PROVE  LET n == Len(sent)
         IN  /\ sent' \in Seq({sent'[i] : i \in DOMAIN sent'})
             /\ n \in Nat /\ Len(sent') = n + 1
             /\ sent'[n + 1].plain = p
             /\ \A i \in 1..n : sent'[i] = sent[i]
             /\ \A i \in 0..n : EchoesBy(i)' = EchoesBy(i)
             /\ Cardinality(EchoesBy(n)) \in Nat
             /\ what # "echo" => EchoesBy(Len(sent))' = EchoesBy(n)
             /\ what = "echo" =>
                  /\ EchoesBy(Len(sent))' = EchoesBy(n) \cup {n + 1}
                  /\ Cardinality(EchoesBy(Len(sent)))' = Cardinality(EchoesBy(n)) + 1
<1> DEFINE n == Len(sent)
           x == [what |-> what, plain |-> p]
<1>1. /\ sent' \in Seq({sent'[i] : i \in DOMAIN sent'})
      /\ n \in Nat /\ Len(sent') = n + 1 /\ sent'[n + 1] = x
      /\ \A i \in 1..n : sent'[i] = sent[i]
  BY AppendAny, SMTT(60)
<1>2. x.what = what /\ x.plain = p
  OBVIOUS
<1>. HIDE DEF n, x
<1>3. ASSUME NEW i \in 0..n PROVE EchoesBy(i)' = EchoesBy(i)
  BY <1>1 DEF EchoesBy
<1>4. IsFiniteSet(EchoesBy(n)) /\ Cardinality(EchoesBy(n)) \in Nat
  <2>1. n \in Nat
    BY <1>1
  <2>2. IsFiniteSet(1..n) /\ EchoesBy(n) \subseteq 1..n
    BY <2>1, FS_Interval, SMTT(60) DEF EchoesBy
  <2>. QED
    BY <2>2, FS_Subset, FS_CardinalityType
<1>4a. /\ sent'[n + 1].what = what
       /\ \A i \in 1..(n + 1) : i \in 1..n \/ i = n + 1
       /\ \A i \in 1..n : i \in 1..(n + 1) /\ sent'[i].what = sent[i].what
       /\ n + 1 \in 1..(n + 1)
  BY <1>1, <1>2
<1>4b. EchoesBy(Len(sent))' = {i \in 1..(n + 1) : sent'[i].what = "echo"}
  BY <1>1 DEF EchoesBy
<1>5. ASSUME what # "echo" PROVE EchoesBy(Len(sent))' = EchoesBy(n)
  BY <1>4a, <1>4b, <1>5, Zenon DEF EchoesBy
<1>6. ASSUME what = "echo"
      PROVE  /\ EchoesBy(Len(sent))' = EchoesBy(n) \cup {n + 1}
             /\ Cardinality(EchoesBy(Len(sent)))' = Cardinality(EchoesBy(n)) + 1
  <2>1. EchoesBy(Len(sent))' = EchoesBy(n) \cup {n + 1}
    BY <1>4a, <1>4b, <1>6, Zenon DEF EchoesBy
  <2>2. n + 1 \notin EchoesBy(n)
    BY <1>1 DEF EchoesBy
  <2>. QED
    BY <1>4, <2>1, <2>2, FS_AddElement
<1>. QED
  BY <1>1, <1>2, <1>3, <1>4, <1>5, <1>6 DEF n

(* An echo, byte by byte, whatever the actor is.                           *)
EchoIs(e, S, at) ==
  /\ e \in Seq(S) /\ Len(e) = 11 /\ e[1] = 9 /\ e[2] = 0
  /\ e[8] = at[1] % 256 /\ e[9] = at[1] \div 256
  /\ e[10] = at[2] % 256 /\ e[11] = at[2] \div 256

LEMMA EchoBytes ==
  ASSUME NEW S, Byte \subseteq S, NEW a, a % 256 \in S, a \div 256 \in S,
         NEW at \in Half \X Half
  PROVE  EchoIs(Echo(a, at), S, at)
<1> DEFINE h == <<9, 0, 179, 0, 1>>
           b == LenBytes(a)
           c == LenBytes(at[1])
           d == LenBytes(at[2])
<1>1. h \in Seq(S) /\ Len(h) = 5 /\ h[1] = 9 /\ h[2] = 0
  <2>1. 9 \in S /\ 0 \in S /\ 179 \in S /\ 1 \in S
    BY DEF Byte
  <2>. QED
    BY <2>1
<1>2. b \in Seq(S) /\ Len(b) = 2
  BY DEF LenBytes
<1>3. /\ c \in Seq(S) /\ Len(c) = 2 /\ c[1] = at[1] % 256 /\ c[2] = at[1] \div 256
      /\ d \in Seq(S) /\ Len(d) = 2 /\ d[1] = at[2] % 256 /\ d[2] = at[2] \div 256
  <2>1. at[1] \in Half /\ at[2] \in Half
    OBVIOUS
  <2>2. \A x \in Half : /\ LenBytes(x) \in Seq(S) /\ Len(LenBytes(x)) = 2
                        /\ LenBytes(x)[1] = x % 256 /\ LenBytes(x)[2] = x \div 256
    <3>. TAKE x \in Half
    <3>1. LenBytes(x) = <<x % 256, x \div 256>> /\ x % 256 \in Byte /\ x \div 256 \in Byte
      BY LenBytesRead
    <3>. QED
      BY <3>1
  <2>. QED
    BY <2>1, <2>2
<1>4. Echo(a, at) = ((h \o b) \o c) \o d
  BY DEF Echo
<1>. HIDE DEF h, b, c, d
<1>0. \A s, t \in Seq(S) :
        /\ s \o t \in Seq(S) /\ Len(s \o t) = Len(s) + Len(t)
        /\ \A i \in 1..Len(s) : (s \o t)[i] = s[i]
        /\ \A i \in 1..Len(t) : (s \o t)[i + Len(s)] = t[i]
  BY Joined, ConcatProperties
<1> DEFINE f == h \o b
<1>5. /\ f \in Seq(S) /\ Len(f) = 7
      /\ f[1] = 9 /\ f[2] = 0
  <2>1. /\ f \in Seq(S) /\ Len(f) = Len(h) + Len(b)
        /\ \A i \in 1..Len(h) : f[i] = h[i]
    BY <1>0, <1>1, <1>2, Zenon
  <2>. HIDE DEF f
  <2>2. 1 \in 1..Len(h) /\ 2 \in 1..Len(h)
    BY <1>1
  <2>. QED
    BY <1>1, <1>2, <2>1, <2>2
<1>. HIDE DEF f
<1> DEFINE g == f \o c
<1>6. /\ g \in Seq(S) /\ Len(g) = 9 /\ g[1] = 9 /\ g[2] = 0
      /\ g[8] = c[1] /\ g[9] = c[2]
  <2>1. /\ g \in Seq(S) /\ Len(g) = Len(f) + Len(c)
        /\ \A i \in 1..Len(f) : g[i] = f[i]
        /\ \A i \in 1..Len(c) : g[i + Len(f)] = c[i]
    BY <1>0, <1>3, <1>5, ZenonT(60)
  <2>. HIDE DEF g
  <2>2. /\ 1 \in 1..Len(f) /\ 2 \in 1..Len(f) /\ 1 \in 1..Len(c) /\ 2 \in 1..Len(c)
        /\ 1 + Len(f) = 8 /\ 2 + Len(f) = 9 /\ Len(f) + Len(c) = 9
    BY <1>3, <1>5
  <2>3. g[1 + Len(f)] = c[1] /\ g[2 + Len(f)] = c[2] /\ g[1] = f[1] /\ g[2] = f[2]
    BY <2>1, <2>2
  <2>. QED
    BY <1>5, <2>1, <2>2, <2>3
<1>. HIDE DEF g
<1> DEFINE e == g \o d
<1>7. /\ e \in Seq(S) /\ Len(e) = 11 /\ e[1] = 9 /\ e[2] = 0
      /\ e[8] = c[1] /\ e[9] = c[2] /\ e[10] = d[1] /\ e[11] = d[2]
  <2>1. /\ e \in Seq(S) /\ Len(e) = Len(g) + Len(d)
        /\ \A i \in 1..Len(g) : e[i] = g[i]
        /\ \A i \in 1..Len(d) : e[i + Len(g)] = d[i]
    BY <1>0, <1>3, <1>6, ZenonT(60)
  <2>. HIDE DEF e
  <2>2. /\ 1 \in 1..Len(g) /\ 2 \in 1..Len(g) /\ 8 \in 1..Len(g) /\ 9 \in 1..Len(g)
        /\ 1 \in 1..Len(d) /\ 2 \in 1..Len(d)
        /\ 1 + Len(g) = 10 /\ 2 + Len(g) = 11 /\ Len(g) + Len(d) = 11
    BY <1>3, <1>6
  <2>3. /\ e[1 + Len(g)] = d[1] /\ e[2 + Len(g)] = d[2] /\ e[1] = g[1] /\ e[2] = g[2]
        /\ e[8] = g[8] /\ e[9] = g[9]
    BY <2>1, <2>2
  <2>. QED
    BY <1>6, <2>1, <2>2, <2>3
<1>8. e = Echo(a, at)
  BY <1>4 DEF e, f, g
<1>. HIDE DEF e
<1>. QED
  BY <1>3, <1>7, <1>8 DEF EchoIs

LEMMA EchoPlace ==
  ASSUME NEW a, NEW at \in Half \X Half
  PROVE  <<U16(Echo(a, at), 7), U16(Echo(a, at), 9)>> = at
<1> DEFINE S == Byte \cup {a % 256, a \div 256}
<1>1. Byte \subseteq S /\ a % 256 \in S /\ a \div 256 \in S
  OBVIOUS
<1>. HIDE DEF S
<1>2. LET e == Echo(a, at)
      IN  /\ e[8] = at[1] % 256 /\ e[9] = at[1] \div 256
          /\ e[10] = at[2] % 256 /\ e[11] = at[2] \div 256
  <2>1. EchoIs(Echo(a, at), S, at)
    BY <1>1, EchoBytes
  <2>. QED
    BY <2>1 DEF EchoIs
<1>3. /\ (at[1] % 256) + 256 * (at[1] \div 256) = at[1]
      /\ (at[2] % 256) + 256 * (at[2] \div 256) = at[2]
  <2>1. at[1] \in Half /\ at[2] \in Half
    OBVIOUS
  <2>. QED
    BY <2>1, LenBytesRead
<1>4. /\ U16(Echo(a, at), 7) = Echo(a, at)[8] + 256 * Echo(a, at)[9]
      /\ U16(Echo(a, at), 9) = Echo(a, at)[10] + 256 * Echo(a, at)[11]
  BY DEF U16, At
<1>. QED
  BY <1>2, <1>3, <1>4

-----------------------------------------------------------------------------
(* Each step keeps the handler's account.                                  *)
LEMMA ActorKept == UNCHANGED queues => UNCHANGED HasActor
BY DEF HasActor, SpawnFrames, FromServer, Recorded

LEMMA AnsweredSame ==
  ASSUME NEW k, UNCHANGED <<move, sent, queues>>, Answered(k),
         rpc' = rpc \/ rpc' = "gone" \/ (rpc = "listen" /\ rpc' = "read")
  PROVE  Answered(k)'
<1>1. /\ Len(sent)' = Len(sent) /\ \A n : EchoesBy(n)' = EchoesBy(n) /\ MovesBy(n)' = MovesBy(n)
      /\ EchoesBy(Len(sent))' = EchoesBy(Len(sent))
  BY DEF EchoesBy, MovesBy
<1>2. \A i, m : Answers(i, m)' <=> Answers(i, m)
  BY DEF Answers, EchoesBy, MovesBy
<1>3. HasActor' = HasActor
  BY ActorKept
<1>4. \A i \in EchoesBy(Len(sent))' : \E m \in MovesBy(k)' : Answers(i, m)'
  BY <1>1, <1>2 DEF Answered
<1>5. /\ rpc' = "echo" => rpc = "echo"
      /\ rpc' \in {"listen", "read"} => rpc \in {"listen", "read"}
  OBVIOUS
<1>6. rpc' = "echo" =>
       /\ KeepAlive /\ HasActor'
       /\ k \in MovesBy(k)' /\ move' = PosOf(ClientScript[k])
       /\ Cardinality(EchoesBy(Len(sent)))' + 1 = Cardinality(MovesBy(k))'
  BY <1>1, <1>3, <1>5 DEF Answered
<1>7. KeepAlive /\ HasActor' /\ rpc' \in {"listen", "read"} =>
        Cardinality(EchoesBy(Len(sent)))' = Cardinality(MovesBy(k))'
  BY <1>1, <1>3, <1>5 DEF Answered
<1>. QED
  BY <1>4, <1>6, <1>7, Zenon DEF Answered

LEMMA HandlerInvQuiet ==
  ASSUME HandlerInv, \A k \in 0..spoken : ReadTo(k) => ReadTo(k)',
         spoken \in Nat, spoken' \in Nat, spoken <= spoken',
         UNCHANGED <<move, sent, queues>>, ~open => ~open',
         \/ rpc' = rpc
         \/ rpc' = "gone" /\ ~open'
         \/ rpc = "listen" /\ rpc' = "read"
  PROVE  HandlerInv'
<1>1. PICK k \in 0..spoken : ReadTo(k) /\ Answered(k)
  BY DEF HandlerInv
<1>2. Answered(k)'
  BY <1>1, AnsweredSame
<1>3. k \in 0..spoken'
  OBVIOUS
<1>4. \E n \in 0..spoken' : ReadTo(n)' /\ Answered(n)'
  BY <1>1, <1>2, <1>3
<1>5. /\ rpc' \in {"listen", "read", "echo", "gone"} /\ (rpc' = "gone" => ~open')
      /\ sent' \in Seq({sent'[i] : i \in DOMAIN sent'})
  BY DEF HandlerInv
<1>. QED
  BY <1>4, <1>5 DEF HandlerInv

(* A frame handed to the socket keeps the answers there are.               *)
LEMMA AnswersKept ==
  ASSUME HandlerInv, NEW k, Answered(k), NEW what, NEW p,
         sent' = Append(sent, [what |-> what, plain |-> p])
  PROVE  \A i \in EchoesBy(Len(sent)) : \E m \in MovesBy(k)' : Answers(i, m)'
<1>1. /\ Len(sent) \in Nat
      /\ \A i \in 1..Len(sent) : sent'[i] = sent[i]
      /\ \A i \in 0..Len(sent) : EchoesBy(i)' = EchoesBy(i)
  <2>1. sent \in Seq({sent[i] : i \in DOMAIN sent})
    BY DEF HandlerInv
  <2>. QED
    BY <2>1, EchoesCounted
<1>. TAKE i \in EchoesBy(Len(sent))
<1>2. i \in 1..Len(sent) /\ i \in 0..Len(sent)
  BY <1>1 DEF EchoesBy
<1>3. PICK m \in MovesBy(k) : Answers(i, m)
  BY DEF Answered
<1>4. EchoesBy(i)' = EchoesBy(i) /\ sent'[i] = sent[i]
  BY <1>1, <1>2
<1>5. MovesBy(m)' = MovesBy(m) /\ MovesBy(k)' = MovesBy(k)
  BY DEF MovesBy
<1>6. Answers(i, m)'
  BY <1>3, <1>4, <1>5 DEF Answers
<1>. QED
  BY <1>3, <1>5, <1>6

LEMMA HandlerInvPush ==
  ASSUME HandlerInv, Push, UNCHANGED <<spoken, pos>>
  PROVE  HandlerInv'
<1>1. PICK k \in 0..spoken : ReadTo(k) /\ Answered(k)
  BY DEF HandlerInv
<1>2. PICK p : sent' = Append(sent, [what |-> "push", plain |-> p])
  BY DEF Push
<1>3. UNCHANGED <<queues, rpc, move, in, open>>
  BY DEF Push, readVars
<1>4. /\ sent' \in Seq({sent'[i] : i \in DOMAIN sent'})
      /\ EchoesBy(Len(sent))' = EchoesBy(Len(sent))
  <2>1. sent \in Seq({sent[i] : i \in DOMAIN sent})
    BY DEF HandlerInv
  <2>2. "push" # "echo"
    OBVIOUS
  <2>. QED
    BY <1>2, <2>1, <2>2, EchoesCounted
<1>5. \A i \in EchoesBy(Len(sent))' : \E m \in MovesBy(k)' : Answers(i, m)'
  BY <1>1, <1>2, <1>4, AnswersKept
<1>6. MovesBy(k)' = MovesBy(k) /\ HasActor' = HasActor
  BY <1>3, ActorKept DEF MovesBy
<1>7. Answered(k)'
  BY <1>1, <1>3, <1>4, <1>5, <1>6 DEF Answered
<1>8. ReadTo(k)'
  BY <1>1, <1>3 DEF ReadTo
<1>. QED
  BY <1>1, <1>3, <1>4, <1>7, <1>8 DEF HandlerInv

LEMMA MoveIsPlace ==
  ASSUME NEW k \in 1..Len(ClientScript), k \in MovesBy(k)
  PROVE  PosOf(ClientScript[k]) \in Half \X Half
<1> DEFINE p == ClientScript[k]
<1>1. p \in Seq(Byte) /\ Len(p) = 13
  BY ScriptFramed DEF Framed, MovesBy
<1>. HIDE DEF p
<1>2. p[10] \in Byte /\ p[11] \in Byte /\ p[12] \in Byte /\ p[13] \in Byte
  <2>1. 10 \in 1..Len(p) /\ 11 \in 1..Len(p) /\ 12 \in 1..Len(p) /\ 13 \in 1..Len(p)
    BY <1>1
  <2>. QED
    BY <1>1, <2>1, ElementOfSeq
<1>3. \A l, h \in Byte : l + 256 * h \in Half
  <2>. TAKE l, h \in Byte
  <2>1. 256 * h + l \in Half
    BY WordParts
  <2>2. 256 * h + l = l + 256 * h
    BY DEF Byte
  <2>. QED
    BY <2>1, <2>2
<1>4. PosOf(p) = <<p[10] + 256 * p[11], p[12] + 256 * p[13]>>
  BY DEF PosOf, U16, At
<1>. QED
  BY <1>2, <1>3, <1>4 DEF p

LEMMA HandlerInvEcho ==
  ASSUME ClientInv, HandlerInv, SendEcho, UNCHANGED <<spoken, pos>>
  PROVE  HandlerInv'
<1>1. PICK k \in 0..spoken : ReadTo(k) /\ Answered(k)
  BY DEF HandlerInv
<1> DEFINE p == Echo(ActorId, move)
           n == Len(sent)
<1>2. sent' = Append(sent, [what |-> "echo", plain |-> p])
  BY DEF SendEcho
<1>3. rpc = "echo" /\ rpc' = "read" /\ UNCHANGED <<queues, move, in, open>>
  BY DEF SendEcho
<1>4. /\ sent' \in Seq({sent'[i] : i \in DOMAIN sent'})
      /\ n \in Nat /\ sent'[n + 1].plain = p
      /\ EchoesBy(Len(sent))' = EchoesBy(n) \cup {n + 1}
      /\ Cardinality(EchoesBy(Len(sent)))' = Cardinality(EchoesBy(n)) + 1
      /\ Len(sent') = n + 1
  <2>1. sent \in Seq({sent[i] : i \in DOMAIN sent})
    BY DEF HandlerInv
  <2>. QED
    BY <1>2, <2>1, EchoesCounted
<1>5. /\ KeepAlive /\ HasActor /\ k \in MovesBy(k) /\ move = PosOf(ClientScript[k])
      /\ Cardinality(EchoesBy(n)) + 1 = Cardinality(MovesBy(k))
  BY <1>1, <1>3 DEF Answered
<1>6. MovesBy(k)' = MovesBy(k) /\ HasActor' = HasActor
  BY <1>3, ActorKept DEF MovesBy
<1>7. \A i \in EchoesBy(n) : \E m \in MovesBy(k)' : Answers(i, m)'
  BY <1>1, <1>2, AnswersKept
<1>8. <<U16(p, 7), U16(p, 9)>> = PosOf(ClientScript[k])
  <2>1. k \in 1..Len(ClientScript)
    BY <1>1, <1>5, ScriptLength DEF MovesBy, ClientInv
  <2>2. move \in Half \X Half
    BY <1>5, <2>1, MoveIsPlace
  <2>. QED
    BY <1>5, <2>2, EchoPlace
<1>9. \A i : i = n + 1 => Answers(i, k)'
  <2>1. Cardinality(EchoesBy(Len(sent)))' = Cardinality(MovesBy(k))
    BY <1>4, <1>5
  <2>2. \A i : i = n + 1 => EchoesBy(i)' = EchoesBy(Len(sent))'
    BY <1>4 DEF EchoesBy
  <2>. TAKE i
  <2>. HAVE i = n + 1
  <2>3. Cardinality(EchoesBy(i))' = Cardinality(MovesBy(k))'
    BY <1>6, <2>1, <2>2
  <2>4. sent'[i].plain = p
    BY <1>4
  <2>. HIDE DEF p, n
  <2>5. <<U16(sent'[i].plain, 7), U16(sent'[i].plain, 9)>> = PosOf(ClientScript[k])
    BY <1>8, <2>4
  <2>. QED
    BY <2>3, <2>5 DEF Answers
<1>10. \A i \in EchoesBy(Len(sent))' : \E m \in MovesBy(k)' : Answers(i, m)'
  BY <1>4, <1>5, <1>6, <1>7, <1>9
<1>11. Answered(k)'
  BY <1>3, <1>4, <1>5, <1>6, <1>10 DEF Answered
<1>12. ReadTo(k)'
  BY <1>1, <1>3 DEF ReadTo
<1>. QED
  BY <1>1, <1>3, <1>4, <1>11, <1>12 DEF HandlerInv

(* A move is a move when all but its checksum is recovered.                *)
LEMMA MoveRecovered ==
  ASSUME NEW p, Framed(p), NEW q, Recovers(q, p)
  PROVE  /\ IsMove(q) <=> IsMove(p)
         /\ HasPos(q) <=> Len(p) = 13
         /\ Len(p) = 13 => PosOf(q) = PosOf(p)
<1>1. /\ Len(q) = Len(p) /\ Len(p) \in Nat
      /\ \A i \in 1..Len(p) : i \notin 4..7 => q[i] = p[i]
  BY FramedParts DEF Recovers
<1>2. ASSUME Len(p) > 8 PROVE q[3] = p[3] /\ q[9] = p[9]
  <2>1. 3 \in 1..Len(p) /\ 9 \in 1..Len(p) /\ 3 \notin 4..7 /\ 9 \notin 4..7
    BY <1>1, <1>2
  <2>. QED
    BY <1>1, <2>1
<1>3. IsMove(q) <=> IsMove(p)
  BY <1>1, <1>2 DEF IsMove, At
<1>4. ASSUME Len(p) = 13 PROVE PosOf(q) = PosOf(p)
  <2>1. /\ 10 \in 1..Len(p) /\ 11 \in 1..Len(p) /\ 12 \in 1..Len(p) /\ 13 \in 1..Len(p)
        /\ 10 \notin 4..7 /\ 11 \notin 4..7 /\ 12 \notin 4..7 /\ 13 \notin 4..7
    BY <1>4
  <2>2. q[10] = p[10] /\ q[11] = p[11] /\ q[12] = p[12] /\ q[13] = p[13]
    BY <1>1, <2>1
  <2>. QED
    BY <2>2 DEF PosOf, U16, At
<1>. QED
  BY <1>1, <1>3, <1>4 DEF HasPos

LEMMA HandlerInvReads ==
  ASSUME ClientInv, HandlerInv, ReadMove \/ ReadOther, UNCHANGED <<cout, spoken, pos>>
  PROVE  ClientInv' /\ HandlerInv'
<1>1. PICK k \in 0..spoken : ReadTo(k) /\ Answered(k)
  BY DEF HandlerInv
<1>2. /\ HasFrame /\ Consumed /\ rpc = "read" /\ FrameRead.ok
      /\ UNCHANGED <<queues, sent, open>>
  BY DEF ReadMove, ReadOther, Reads, socketVars
<1> DEFINE n == k + 1
           p == ClientScript[n]
           q == FrameRead.plain
<1>3. ClientInv' /\ n \in 1..spoken /\ ReadTo(n)'
  BY <1>1, <1>2, ClientInvReads
<1>4. Recovers(q, p) /\ Framed(p)
  <2>1. k < spoken /\ Recovers(q, p)
    BY <1>1, <1>2, FrameInHand
  <2>2. Framed(p)
    BY <1>1, <2>1, NextInHand
  <2>. QED
    BY <2>1, <2>2
<1>5. /\ IsMove(q) <=> IsMove(p)
      /\ HasPos(q) <=> Len(p) = 13
      /\ Len(p) = 13 => PosOf(q) = PosOf(p)
  BY <1>4, MoveRecovered, Zenon
<1>6. k \in Nat /\ n \in Nat /\ n \in 1..n
  BY ScriptLength DEF ClientInv
<1>7. n \in MovesBy(n) <=> IsMove(p) /\ Len(p) = 13
  BY <1>6 DEF MovesBy
<1>8. /\ MovesBy(k) \subseteq MovesBy(n)
      /\ (n \notin MovesBy(n) => MovesBy(n) = MovesBy(k))
      /\ (n \in MovesBy(n) => Cardinality(MovesBy(n)) = Cardinality(MovesBy(k)) + 1)
  BY <1>6, MovesCounted
<1>9. /\ EchoesBy(Len(sent))' = EchoesBy(Len(sent)) /\ HasActor' = HasActor
      /\ \A i, m : Answers(i, m)' <=> Answers(i, m)
      /\ MovesBy(n)' = MovesBy(n)
  <2>1. \A i : EchoesBy(i)' = EchoesBy(i) /\ MovesBy(i)' = MovesBy(i)
    BY <1>2 DEF EchoesBy, MovesBy
  <2>2. HasActor' = HasActor
    BY <1>2, ActorKept
  <2>3. EchoesBy(Len(sent))' = EchoesBy(Len(sent))
    BY <1>2 DEF EchoesBy
  <2>4. MovesBy(n)' = MovesBy(n)
    BY DEF MovesBy
  <2>. QED
    BY <1>2, <2>1, <2>2, <2>3, <2>4 DEF Answers
<1>. HIDE DEF n, p, q
<1>10. \A i \in EchoesBy(Len(sent))' : \E m \in MovesBy(n)' : Answers(i, m)'
  BY <1>1, <1>8, <1>9 DEF Answered
<1>11. KeepAlive /\ HasActor => Cardinality(EchoesBy(Len(sent))) = Cardinality(MovesBy(k))
  BY <1>1, <1>2 DEF Answered
<1>12. \/ /\ rpc' = "echo" /\ KeepAlive /\ HasActor /\ n \in MovesBy(n) /\ move' = PosOf(p)
       \/ /\ rpc' = "read" /\ (KeepAlive /\ HasActor => n \notin MovesBy(n))
  <2>1. CASE ReadMove
    <3>1. /\ KeepAlive /\ IsMove(q)
          /\ IF HasPos(q) /\ HasActor
             THEN rpc' = "echo" /\ move' = PosOf(q)
             ELSE rpc' = rpc
      BY <1>2, <2>1 DEF ReadMove, Reads, q
    <3>. QED
      BY <1>2, <1>5, <1>7, <3>1
  <2>2. CASE ReadOther
    <3>1. rpc' = "read" /\ ~(KeepAlive /\ IsMove(q))
      BY <1>2, <2>2 DEF ReadOther, Reads, q
    <3>. QED
      BY <1>5, <1>7, <3>1
  <2>. QED
    BY <2>1, <2>2
<1>13. Answered(n)'
  <2>1. CASE rpc' = "read"
    <3>1. KeepAlive /\ HasActor' =>
            Cardinality(EchoesBy(Len(sent)))' = Cardinality(MovesBy(n))'
      BY <1>8, <1>9, <1>11, <1>12, <2>1
    <3>2. rpc' # "echo"
      BY <2>1
    <3>. QED
      BY <1>10, <3>1, <3>2, Zenon DEF Answered
  <2>2. CASE rpc' = "echo"
    <3>1. /\ KeepAlive /\ HasActor' /\ n \in MovesBy(n)' /\ move' = PosOf(ClientScript[n])
          /\ Cardinality(EchoesBy(Len(sent)))' + 1 = Cardinality(MovesBy(n))'
      BY <1>8, <1>9, <1>11, <1>12, <2>2 DEF p
    <3>2. rpc' \notin {"listen", "read"}
      BY <2>2
    <3>. QED
      BY <1>10, <3>1, <3>2, Zenon DEF Answered
  <2>. QED
    BY <1>12, <2>1, <2>2
<1>14. n \in 0..spoken'
  BY <1>3, <1>6
<1>15. \E m \in 0..spoken' : ReadTo(m)' /\ Answered(m)'
  BY <1>3, <1>13, <1>14
<1>16. /\ rpc' \in {"listen", "read", "echo", "gone"} /\ rpc' # "gone"
       /\ sent' \in Seq({sent'[i] : i \in DOMAIN sent'})
  BY <1>2, <1>12 DEF HandlerInv
<1>. QED
  BY <1>3, <1>15, <1>16 DEF HandlerInv

-----------------------------------------------------------------------------
LEMMA LinkInvInit == Init => LinkInv
<1>. SUFFICES ASSUME Init PROVE LinkInv
  OBVIOUS
<1>1. /\ in = <<>> /\ cout = <<>> /\ spoken = 0 /\ sent = <<>> /\ rpc = "listen"
      /\ pos = [f \in Flows |-> 0]
  BY DEF Init, KeepAliveInit
<1>2. in \in Seq(Byte) /\ cout \in Seq(Byte) /\ Len(in) = 0 /\ Len(cout) = 0
  BY <1>1
<1>3. DOMAIN pos = Flows /\ pos["c2s"] = 0
  BY <1>1, LinkAssumption
<1>4. ClientInv
  BY <1>1, <1>2, <1>3, EndsNext, ScriptLength DEF ClientInv
<1>5. EchoesBy(Len(sent)) = {} /\ MovesBy(0) = {}
  BY <1>1 DEF EchoesBy, MovesBy
<1>6. Answered(0) /\ ReadTo(0)
  <2>1. \A i \in EchoesBy(Len(sent)) : \E m \in MovesBy(0) : Answers(i, m)
    BY <1>5
  <2>2. Cardinality(EchoesBy(Len(sent))) = Cardinality(MovesBy(0))
    BY <1>5
  <2>3. rpc # "echo"
    BY <1>1
  <2>4. Answered(0)
    BY <2>1, <2>2, <2>3, Zenon DEF Answered
  <2>5. ReadTo(0)
    BY <1>2, <1>3, EndsNext DEF ReadTo
  <2>. QED
    BY <2>4, <2>5
<1>7. sent \in Seq({sent[i] : i \in DOMAIN sent})
  BY <1>1
<1>8. HandlerInv
  BY <1>1, <1>6, <1>7 DEF HandlerInv
<1>. QED
  BY <1>4, <1>8 DEF LinkInv

LEMMA LinkInvNext == LinkInv /\ [Next]_vars => LinkInv'
<1>. SUFFICES ASSUME LinkInv, [Next]_vars PROVE LinkInv'
  OBVIOUS
<1>0. /\ ClientInv /\ HandlerInv /\ spoken \in Nat
      /\ DOMAIN pos = Flows /\ "c2s" \in Flows
  BY ScriptLength, LinkAssumption DEF LinkInv, ClientInv
<1>1. ASSUME UNCHANGED <<in, cout, spoken, pos, move, sent, queues>>, ~open => ~open',
             \/ rpc' = rpc
             \/ rpc' = "gone" /\ ~open'
             \/ rpc = "listen" /\ rpc' = "read"
      PROVE  LinkInv'
  BY <1>0, <1>1, ClientInvQuiet, HandlerInvQuiet DEF LinkInv
<1>2. CASE UNCHANGED vars
  BY <1>1, <1>2 DEF vars, worldVars, linkVars
<1>3. CASE Emulating
  <2>0. UNCHANGED <<cout, spoken, pos>>
    BY <1>3 DEF Emulating, linkVars
  <2>1. CASE Connect
    BY <1>1, <2>0, <2>1 DEF Connect, socketVars
  <2>2. CASE Push
    <3>1. UNCHANGED in
      BY <2>2 DEF Push, readVars
    <3>. QED
      BY <1>0, <2>0, <2>2, <3>1, ClientInvQuiet, HandlerInvPush DEF LinkInv
  <2>3. CASE PushFails \/ PushStopped \/ PushDone
    BY <1>1, <2>0, <2>3 DEF PushFails, PushStopped, PushDone, readVars, socketVars
  <2>4. CASE ReadMove \/ ReadOther
    BY <1>0, <2>0, <2>4, HandlerInvReads DEF LinkInv
  <2>5. CASE SendEcho
    <3>1. UNCHANGED in
      BY <2>5 DEF SendEcho
    <3>. QED
      BY <1>0, <2>0, <2>5, <3>1, ClientInvQuiet, HandlerInvEcho DEF LinkInv
  <2>6. CASE EchoFails
    BY <1>1, <2>0, <2>6 DEF EchoFails, socketVars
  <2>7. CASE ReadCloses(~open /\ pos["c2s"] = Len(cout))
    <3>1. PICK k \in 0..spoken : ReadTo(k)
      BY <1>0 DEF HandlerInv
    <3>2. ~BadHead
      BY <1>0, <3>1, NeverBadHead
    <3>3. \A f \in Reads : f.ok
      BY <1>0, <3>1, FrameInHand DEF Reads
    <3>4. ~open
      BY <2>7, <3>2, <3>3 DEF ReadCloses
    <3>. QED
      BY <1>1, <2>0, <2>7, <3>4 DEF ReadCloses, socketVars
  <2>. QED
    BY <1>3, <2>1, <2>2, <2>3, <2>4, <2>5, <2>6, <2>7 DEF Emulating, Pusher, Handler
<1>4. CASE ClientSends
  <2>1. /\ spoken' = spoken + 1
        /\ UNCHANGED <<in, pos, move, sent, queues, open, rpc>>
    BY <1>4 DEF ClientSends, worldVars
  <2>2. \A k \in 0..spoken : ReadTo(k) => ReadTo(k)'
    BY <2>1 DEF ReadTo
  <2>. QED
    BY <1>0, <1>4, <2>1, <2>2, ClientInvSends, HandlerInvQuiet DEF LinkInv
<1>5. CASE ClientCloses
  BY <1>0, <1>1, <1>5 DEF ClientCloses, pushVars, readVars, socketVars, linkVars
<1>6. ASSUME NEW f \in Flows, Transmit(f) \/ Missed(f)
      PROVE  LinkInv'
  <2>1. /\ Sendable(f) /\ Arrives(f)
        /\ UNCHANGED <<cout, spoken, move, sent, queues, rpc, open>>
    BY <1>6 DEF Transmit, Missed, TcpUnchanged, pushVars, socketVars
  <2>2. CASE f = "c2s"
    <3>1. ClientInv' /\ \A k \in 0..spoken : ReadTo(k) => ReadTo(k)'
      BY <1>0, <2>1, <2>2, ClientInvArrives
    <3>. QED
      BY <1>0, <2>1, <3>1, HandlerInvQuiet DEF LinkInv
  <2>3. CASE f # "c2s"
    <3>1. in' = in /\ pos'["c2s"] = pos["c2s"]
      BY <1>0, <2>1, <2>3 DEF Arrives
    <3>2. DOMAIN pos' = Flows
      BY <1>0, <2>1 DEF Arrives
    <3>3. ClientInv' /\ \A k \in 0..spoken : ReadTo(k) => ReadTo(k)'
      BY <1>0, <2>1, <3>1, <3>2, ClientInvQuiet
    <3>. QED
      BY <1>0, <2>1, <3>3, HandlerInvQuiet DEF LinkInv
  <2>. QED
    BY <2>2, <2>3
<1>7. ASSUME NEW f \in Flows, Retransmit(f)
      PROVE  LinkInv'
  BY <1>1, <1>7 DEF Retransmit, TcpUnchanged, pushVars, socketVars
<1>. QED
  BY <1>2, <1>3, <1>4, <1>5, <1>6, <1>7 DEF Next

LEMMA LinkInvariant == Spec => []LinkInv
BY LinkInvInit, LinkInvNext, PTL DEF Spec

(* The handler leaves only after the client has: no frame of the client's  *)
(* is refused, whatever the pieces it arrives in.                          *)
THEOREM ClientNeverRefused == Spec => []StaysInWorld
<1>1. LinkInv => StaysInWorld
  BY DEF LinkInv, HandlerInv, StaysInWorld
<1>. QED
  BY <1>1, LinkInvariant, PTL

(* The i-th echo answers the i-th move of the client, with its position.   *)
THEOREM EchoesFollowMoves == Spec => []EchoOfMove
<1>1. LinkInv => EchoOfMove
  <2>. SUFFICES ASSUME LinkInv PROVE EchoOfMove
    OBVIOUS
  <2>1. PICK k \in 0..spoken : Answered(k)
    BY DEF LinkInv, HandlerInv
  <2>2. MovesBy(k) \subseteq MovesBy(spoken)
    BY MovesGrow, ScriptLength DEF LinkInv, ClientInv
  <2>. QED
    BY <2>1, <2>2 DEF Answered, EchoOfMove
<1>. QED
  BY <1>1, LinkInvariant, PTL

(* No move is left unanswered when the handler has read all there is.      *)
THEOREM NoMoveForgotten == Spec => []MovesAnswered
<1>1. LinkInv => MovesAnswered
  <2>. SUFFICES ASSUME LinkInv, KeepAlive, HasActor, rpc = "read", pos["c2s"] = Len(cout),
                       Reads = {}
                PROVE  Cardinality(EchoesBy(Len(sent))) = Cardinality(MovesBy(spoken))
    BY DEF MovesAnswered
  <2>1. PICK k \in 0..spoken : ReadTo(k) /\ Answered(k)
    BY DEF LinkInv, HandlerInv
  <2>2. ~HasFrame
    BY DEF Reads
  <2>3. ~(k < spoken)
    BY <2>1, <2>2, WholeInHand DEF LinkInv
  <2>4. k = spoken
    BY <2>1, <2>3, ScriptLength DEF LinkInv, ClientInv
  <2>. QED
    BY <2>1, <2>4 DEF Answered
<1>. QED
  BY <1>1, LinkInvariant, PTL

-----------------------------------------------------------------------------
(* What the emulator puts on the wire.                                     *)
LEMMA RecoveredSame ==
  ASSUME NEW p, Framed(p), NEW q, Recovers(q, p)
  PROVE  SameButChecksum(q, p)
<1>1. /\ p \in Seq(Byte) /\ q \in Seq(Byte) /\ Len(q) = Len(p) /\ Len(p) \in Nat /\ Len(p) >= 8
      /\ \A i \in 1..Len(p) : i \notin 4..7 => q[i] = p[i]
  BY FramedParts DEF Recovers
<1>2. ASSUME NEW m \in Nat, NEW n \in Nat, m + n <= Len(p),
             \A i \in 1..n : i + m \notin 4..7
      PROVE  SubSeq(q, m + 1, m + n) = SubSeq(p, m + 1, m + n)
  <2> DEFINE s == SubSeq(q, m + 1, m + n)
             t == SubSeq(p, m + 1, m + n)
  <2>1. t \in Seq(Byte) /\ Len(t) = n /\ \A i \in 1..n : t[i] = p[i + m]
    BY <1>1, <1>2, PieceOf
  <2>2. s \in Seq(Byte) /\ Len(s) = n /\ \A i \in 1..n : s[i] = q[i + m]
    BY <1>1, <1>2, PieceOf
  <2>. HIDE DEF s, t
  <2>3. \A i \in 1..n : s[i] = t[i]
    <3>. TAKE i \in 1..n
    <3>1. i + m \in 1..Len(p)
      BY <1>1, <1>2
    <3>. QED
      BY <1>1, <1>2, <2>1, <2>2, <3>1
  <2>4. s = t
    BY <2>1, <2>2, <2>3, SeqEqual
  <2>. QED
    BY <2>4 DEF s, t
<1>3. SubSeq(q, 1, 3) = SubSeq(p, 1, 3)
  <2>1. 0 + 3 <= Len(p) /\ \A i \in 1..3 : i + 0 \notin 4..7
    BY <1>1
  <2>2. SubSeq(q, 0 + 1, 0 + 3) = SubSeq(p, 0 + 1, 0 + 3)
    BY <1>2, <2>1
  <2>. QED
    BY <2>2
<1>4. SubSeq(q, 8, Len(p)) = SubSeq(p, 8, Len(p))
  <2> DEFINE n == Len(p) - 7
  <2>1. n \in Nat /\ 7 + n = Len(p) /\ \A i \in 1..n : i + 7 \notin 4..7
    BY <1>1
  <2>. HIDE DEF n
  <2>2. SubSeq(q, 7 + 1, 7 + n) = SubSeq(p, 7 + 1, 7 + n)
    BY <1>1, <1>2, <2>1
  <2>. QED
    BY <2>1, <2>2
<1>. QED
  BY <1>1, <1>3, <1>4 DEF SameButChecksum

(* What a cipher frame decodes to is the plain frame p.                    *)
ReadsAs(code, p) ==
  LET read == Decrypt(LenBytes(LengthDecode(code)) \o SubSeq(code, 3, Len(code)))
  IN  /\ LengthDecode(code) + 2 = Len(code)
      /\ read.ok /\ SameButChecksum(read.plain, p)

LEMMA CodeReads ==
  ASSUME NEW p, Framed(p), NEW s \in Seq(Byte), NEW t, t = s \o Pack(p)
  PROVE  t \in Seq(Byte) /\ ReadsAs(SubSeq(t, Len(s) + 1, Len(t)), p)
<1> DEFINE c == Pack(p)
           m == Len(s)
           n == Len(c)
           code == SubSeq(t, m + 1, m + n)
           read == Decrypt(LenBytes(LengthDecode(code)) \o SubSeq(code, 3, Len(code)))
<1>1. /\ p \in Seq(Byte) /\ ~Unsound(p) /\ Len16(p) \in Nat /\ Len16(p) >= 6
      /\ Len(p) \in Nat /\ Len(p) = Len16(p) + 2
  BY FramedParts
<1>2. c \in Seq(Byte) /\ n = Len(p)
  BY PackParts
<1>. HIDE DEF c
<1>3. /\ t \in Seq(Byte) /\ Len(t) = m + n /\ m \in Nat /\ n \in Nat
      /\ \A i \in 1..n : t[i + m] = c[i]
  <2>1. t = s \o c
    BY DEF c
  <2>2. m \in Nat /\ n \in Nat
    BY <1>2, LenProperties
  <2>3. s \o c \in Seq(Byte)
    BY <1>2, ConcatProperties
  <2>4. /\ Len(s \o c) = m + n
        /\ \A i \in 1..n : (s \o c)[i + m] = c[i]
    BY <1>2, BytesJoined
  <2>. QED
    BY <2>1, <2>2, <2>3, <2>4, Zenon
<1>. HIDE DEF m, n
<1>4. code \in Seq(Byte) /\ Len(code) = n /\ \A i \in 1..n : code[i] = c[i]
  <2>1. code \in Seq(Byte) /\ Len(code) = n /\ \A i \in 1..n : code[i] = t[i + m]
    <3>1. t \in Seq(Byte) /\ m \in Nat /\ n \in Nat /\ m + n <= Len(t) /\ m + n = Len(t)
      BY <1>3
    <3>2. LET u == SubSeq(t, m + 1, m + n)
          IN  u \in Seq(Byte) /\ Len(u) = n /\ \A i \in 1..n : u[i] = t[i + m]
      BY <3>1, PieceOf
    <3>3. code = SubSeq(t, m + 1, m + n)
      BY <3>1 DEF m
    <3>. HIDE DEF code
    <3>. QED
      BY <3>2, <3>3
  <2>. HIDE DEF code
  <2>. QED
    BY <1>3, <2>1
<1>. HIDE DEF code
<1>5. Len(code) = Len(p) /\ \A i \in 1..Len(p) : code[i] = Pack(p)[i]
  BY <1>2, <1>4 DEF c
<1>6. LengthDecode(code) = Len16(p)
  <2>1. Len(code) >= 4 /\ \A i \in 1..4 : code[i] = Pack(p)[i]
    BY <1>1, <1>5
  <2>. QED
    BY <1>4, <2>1, HeadRead
<1>7. LenBytes(Len16(p)) \o SubSeq(code, 3, Len16(p) + 2) = Encrypt(p)
  <2>1. Len(code) >= Len(p)
    BY <1>1, <1>5
  <2>. QED
    BY <1>4, <1>5, <2>1, FrameTaken
<1>8. read = Decrypt(Encrypt(p))
  BY <1>1, <1>5, <1>6, <1>7, Zenon
<1>9. read.ok /\ SameButChecksum(read.plain, p)
  <2>1. Decrypt(Encrypt(p)).ok /\ Recovers(Decrypt(Encrypt(p)).plain, p)
    BY <1>1, FrameRoundTrip
  <2>. QED
    BY <1>8, <2>1, RecoveredSame
<1>. HIDE DEF read
<1>10. Len(code) = LengthDecode(code) + 2
  BY <1>1, <1>5, <1>6
<1>11. ReadsAs(code, p)
  BY <1>9, <1>10 DEF read, ReadsAs
<1>12. code = SubSeq(t, Len(s) + 1, Len(t))
  BY <1>3 DEF code, m
<1>. QED
  BY <1>3, <1>11, <1>12

LEMMA MinIsIn ==
  ASSUME NEW S, S \subseteq Nat, S # {}
  PROVE  Min(S) \in S /\ \A m \in S : Min(S) <= m
<1>1. PICK n \in S : \A m \in S : ~ (<<m, n>> \in OpToRel(<, Nat))
  BY WFMin, NatLessThanWellFounded, Zenon
<1>2. ASSUME NEW m \in S PROVE n <= m
  <2>1. m \in Nat /\ n \in Nat /\ ~(<<m, n>> \in OpToRel(<, Nat))
    BY <1>1
  <2>2. ASSUME m < n PROVE FALSE
    <3>1. <<m, n>> \in OpToRel(<, Nat)
      BY <2>1, <2>2 DEF OpToRel
    <3>. QED
      BY <2>1, <3>1, Zenon
  <2>3. m \in Nat /\ n \in Nat
    OBVIOUS
  <2>. QED
    BY <2>2, <2>3
<1> DEFINE least == Min(S)
<1>3. least \in S /\ \A m \in S : least <= m
  <2>1. \E x \in S : \A y \in S : x <= y
    BY <1>2
  <2>. QED
    BY <2>1 DEF Min
<1>. QED
  BY <1>3

LEMMA ActorIsWord ==
  ASSUME WorldFramed, HasActor
  PROVE  ActorId \in Half
<1> DEFINE i == Min(SpawnFrames)
           p == Recorded(i).payload
<1>1. i \in SpawnFrames
  <2>1. SpawnFrames \subseteq Nat
    BY DEF SpawnFrames, FromServer
  <2>. QED
    BY <2>1, MinIsIn DEF HasActor
<1>. HIDE DEF i
<1>2. Framed(p) /\ Len(p) >= 11
  BY <1>1 DEF SpawnFrames, WorldFramed
<1>3. p \in Seq(Byte) /\ Len(p) \in Nat
  BY <1>2, FramedParts
<1>4. ActorId = p[10] + 256 * p[11]
  BY DEF ActorId, U16, At, i
<1>. HIDE DEF p
<1>5. p[10] \in Byte /\ p[11] \in Byte
  <2>1. 10 \in 1..Len(p) /\ 11 \in 1..Len(p)
    BY <1>2, <1>3
  <2>. QED
    BY <1>3, <2>1, ElementOfSeq
<1>6. 256 * p[11] + p[10] \in Half
  BY <1>5, WordParts
<1>7. 256 * p[11] + p[10] = p[10] + 256 * p[11]
  <2>1. \A l, h \in Byte : 256 * h + l = l + 256 * h
    BY DEF Byte
  <2>. QED
    BY <1>5, <2>1
<1>. QED
  BY <1>4, <1>6, <1>7

LEMMA EchoFramed ==
  ASSUME NEW a \in Half, NEW at \in Half \X Half
  PROVE  Framed(Echo(a, at)) /\ Len(Echo(a, at)) = 11
<1>1. a % 256 \in Byte /\ a \div 256 \in Byte
  BY WordParts
<1>2. EchoIs(Echo(a, at), Byte, at)
  BY <1>1, EchoBytes
<1> DEFINE e == Echo(a, at)
<1>3. e \in Seq(Byte) /\ Len(e) = 11 /\ e[1] = 9 /\ e[2] = 0
  BY <1>2 DEF EchoIs
<1>. HIDE DEF e
<1>4. Len16(e) = 9
  BY <1>3 DEF Len16
<1>5. Framed(e)
  BY <1>3, <1>4 DEF Framed, Unsound
<1>. QED
  BY <1>3, <1>5 DEF e

(* What is handed to the socket at a time is one frame, framed: one of the *)
(* recording, or an echo.                                                  *)
LEMMA HandsOneFrame ==
  ASSUME LinkInv, WorldFramed, Push \/ SendEcho
  PROVE  \E p, what : /\ Framed(p) /\ out' = out \o Pack(p)
                      /\ sent' = Append(sent, [what |-> what, plain |-> p])
                      /\ (Len(p) = 11 \/ \E i \in FromServer : p = Recorded(i).payload)
<1>1. CASE Push
  <2>1. PICK i \in Due : /\ out' = out \o Pack(Recorded(i).payload)
                         /\ sent' = Append(sent, [what |-> "push", plain |-> Recorded(i).payload])
    BY <1>1 DEF Push
  <2>2. i \in FromServer /\ Framed(Recorded(i).payload)
    BY DEF Due, Kept, WorldFramed
  <2>. QED
    BY <2>1, <2>2
<1>2. CASE SendEcho
  <2>1. PICK k \in 0..spoken : Answered(k)
    BY DEF LinkInv, HandlerInv
  <2>2. HasActor /\ k \in MovesBy(k) /\ move = PosOf(ClientScript[k])
    BY <1>2, <2>1 DEF SendEcho, Answered
  <2>3. k \in 1..Len(ClientScript)
    BY <2>2, ScriptLength DEF MovesBy, LinkInv, ClientInv
  <2>4. move \in Half \X Half
    BY <2>2, <2>3, MoveIsPlace
  <2>5. Framed(Echo(ActorId, move)) /\ Len(Echo(ActorId, move)) = 11
    BY <2>2, <2>4, ActorIsWord, EchoFramed
  <2>. QED
    BY <1>2, <2>5 DEF SendEcho
<1>. QED
  BY <1>1, <1>2

LEMMA LastSent ==
  ASSUME LinkInv, NEW what, NEW p, sent' = Append(sent, [what |-> what, plain |-> p])
  PROVE  Last(sent').plain = p
<1>1. sent \in Seq({sent[i] : i \in DOMAIN sent})
  BY DEF LinkInv, HandlerInv
<1>2. Len(sent') = Len(sent) + 1 /\ sent'[Len(sent) + 1] = [what |-> what, plain |-> p]
  BY <1>1, AppendAny
<1>. QED
  BY <1>1, <1>2 DEF Last

OutInv == WorldFramed /\ out \in Seq(Byte)

(* If the frames to be pushed are framed, each frame the emulator puts on  *)
(* the wire, pushed or echoed, is decoded to what was meant.               *)
THEOREM FramesDecode == Spec /\ WorldFramed => WireDecodes
<1>1. Init /\ WorldFramed => OutInv
  BY DEF Init, KeepAliveInit, OutInv
<1>2. ASSUME LinkInv, OutInv, [Next]_vars
      PROVE  /\ OutInv'
             /\ \/ UNCHANGED vars
                \/ out' # out =>
                     LET code == SubSeq(out', Len(out) + 1, Len(out'))
                         read == Decrypt(LenBytes(LengthDecode(code)) \o SubSeq(code, 3, Len(code)))
                     IN  /\ LengthDecode(code) + 2 = Len(code)
                         /\ read.ok /\ SameButChecksum(read.plain, Last(sent').plain)
  <2>1. UNCHANGED queues => WorldFramed'
    BY <1>2 DEF OutInv, WorldFramed, FromServer, Recorded
  <2>2. CASE UNCHANGED <<queues, out>>
    BY <1>2, <2>1, <2>2 DEF OutInv
  <2>3. CASE Push \/ SendEcho
    <3>1. PICK p : Framed(p) /\ out' = out \o Pack(p) /\ Last(sent').plain = p
      <4>1. WorldFramed
        BY <1>2 DEF OutInv
      <4>2. PICK p, what : /\ Framed(p) /\ out' = out \o Pack(p)
                           /\ sent' = Append(sent, [what |-> what, plain |-> p])
        BY <1>2, <2>3, <4>1, HandsOneFrame
      <4>3. Last(sent').plain = p
        BY <1>2, <4>2, LastSent
      <4>. QED
        BY <4>2, <4>3
    <3>2. UNCHANGED queues
      BY <2>3 DEF Push, SendEcho
    <3>3. out \in Seq(Byte)
      BY <1>2 DEF OutInv
    <3>4. out' \in Seq(Byte) /\ ReadsAs(SubSeq(out', Len(out) + 1, Len(out')), p)
      BY <3>1, <3>3, CodeReads
    <3>5. OutInv'
      BY <2>1, <3>2, <3>4 DEF OutInv
    <3>. QED
      BY <3>1, <3>4, <3>5 DEF ReadsAs
  <2>4. UNCHANGED <<queues, out>> \/ Push \/ SendEcho
    <3>1. CASE UNCHANGED vars
      BY <3>1 DEF vars, worldVars
    <3>2. CASE Emulating
      BY <3>2 DEF Emulating, Pusher, Handler, Connect, PushFails, PushStopped, PushDone,
                  ReadMove, ReadOther, EchoFails, ReadCloses, socketVars
    <3>3. CASE ClientSends \/ ClientCloses
      BY <3>3 DEF ClientSends, ClientCloses, worldVars, socketVars
    <3>4. ASSUME NEW f \in Flows, Transmit(f) \/ Missed(f) \/ Retransmit(f)
          PROVE  UNCHANGED <<queues, out>>
      BY <3>4 DEF Transmit, Missed, Retransmit, TcpUnchanged, socketVars
    <3>. QED
      BY <1>2, <3>1, <3>2, <3>3, <3>4 DEF Next
  <2>. QED
    BY <2>2, <2>3, <2>4
<1>. QED
  BY <1>1, <1>2, LinkInvariant, PTL DEF Spec, WireDecodes

-----------------------------------------------------------------------------
(* Cutting the frames out of what has been joined. *)

(* A step of Cut's recursion, from the bytes each frame takes and its line. *)
CutAt(from, L, n, line, i) ==
  IF n[i] = 0 \/ i + n[i] > L THEN [at |-> i, plain |-> <<>>]
  ELSE [at |-> from[i + n[i]].at, plain |-> <<line[i]>> \o from[i + n[i]].plain]

(* The recursion goes forward; it has a value.                             *)
LEMMA CutRuns ==
  ASSUME NEW L \in Nat, NEW n \in [0..L -> Nat], NEW line
  PROVE  \E from : /\ from = [i \in 0..L |-> from[i]]
                   /\ \A i \in 0..L : from[i] = CutAt(from, L, n, line, i)
<1> DEFINE Runs(g, d) == /\ g = [i \in 0..L |-> g[i]]
                         /\ \A i \in 0..L : i >= L - d => g[i] = CutAt(g, L, n, line, i)
           Good == {d \in Nat : \E g : Runs(g, d)}
<1>0. ASSUME NEW g, NEW h, NEW i \in 0..L, \A j \in 0..L : j > i => g[j] = h[j]
      PROVE  CutAt(g, L, n, line, i) = CutAt(h, L, n, line, i)
  <2>1. CASE n[i] = 0 \/ i + n[i] > L
    BY <2>1 DEF CutAt
  <2>2. CASE ~(n[i] = 0 \/ i + n[i] > L)
    <3> DEFINE j == i + n[i]
    <3>1. j \in 0..L /\ j > i
      BY <2>2
    <3>. HIDE DEF j
    <3>2. g[j] = h[j]
      BY <1>0, <3>1
    <3>. QED
      BY <2>2, <3>2 DEF CutAt, j
  <2>. QED
    BY <2>1, <2>2
<1>1. 0 \in Good
  <2> DEFINE g == [i \in 0..L |-> [at |-> i, plain |-> <<>>]]
             h == [i \in 0..L |-> CutAt(g, L, n, line, i)]
  <2>1. h = [i \in 0..L |-> h[i]]
    OBVIOUS
  <2>2. ASSUME NEW i \in 0..L, i >= L - 0 PROVE h[i] = CutAt(h, L, n, line, i)
    <3>1. \A j \in 0..L : j > i => g[j] = h[j]
      BY <2>2
    <3>2. CutAt(g, L, n, line, i) = CutAt(h, L, n, line, i)
      <4>. HIDE DEF g, h
      <4>. QED
        BY <1>0, <3>1
    <3>. QED
      BY <3>2
  <2>. HIDE DEF h
  <2>. QED
    BY <2>1, <2>2
<1>2. ASSUME NEW d \in Nat, d \in Good PROVE d + 1 \in Good
  <2>1. PICK g : Runs(g, d)
    BY <1>2
  <2> DEFINE k == L - (d + 1)
             h == [i \in 0..L |-> IF i = k THEN CutAt(g, L, n, line, i) ELSE g[i]]
  <2>2. h = [i \in 0..L |-> h[i]]
    OBVIOUS
  <2>3. ASSUME NEW i \in 0..L, i >= k PROVE h[i] = CutAt(h, L, n, line, i)
    <3>1. \A j \in 0..L : j > i => g[j] = h[j]
      BY <2>3
    <3>2. h[i] = CutAt(g, L, n, line, i)
      <4>1. CASE i = k
        BY <4>1
      <4>2. CASE i # k
        <5>1. i >= L - d
          BY <2>3, <4>2
        <5>2. h[i] = g[i]
          BY <4>2
        <5>. HIDE DEF h
        <5>. QED
          BY <2>1, <5>1, <5>2
      <4>. QED
        BY <4>1, <4>2
    <3>3. CutAt(g, L, n, line, i) = CutAt(h, L, n, line, i)
      <4>. HIDE DEF h
      <4>. QED
        BY <1>0, <3>1
    <3>. QED
      BY <3>2, <3>3
  <2>. HIDE DEF h
  <2>. QED
    BY <2>2, <2>3
<1>3. L \in Good
  <2>. HIDE DEF Good
  <2>. QED
    BY <1>1, <1>2, NatSetInduction
<1>4. PICK g : Runs(g, L)
  BY <1>3
<1>5. \A i \in 0..L : g[i] = CutAt(g, L, n, line, i)
  BY <1>4
<1>. QED
  BY <1>4, <1>5

CutRun(from, L, n, line) == \A i \in 0..L : from[i] = CutAt(from, L, n, line, i)

(* At the places o[0] to o[m - 1] a frame is there, at o[m] none.           *)
CutPlaces(o, m, L, n, line, S) ==
  /\ m \in Nat /\ o \in [0..m -> 0..L]
  /\ \A j \in 0..m : j < m => /\ n[o[j]] # 0 /\ o[j + 1] = o[j] + n[o[j]]
                               /\ line[o[j]] \in S
  /\ n[o[m]] = 0 \/ o[m] + n[o[m]] > L

(* Along frames that follow one another up to one that is not there yet,   *)
(* the recursion gives their lines and the place it stops at.              *)
LEMMA CutAlong ==
  ASSUME NEW L \in Nat, NEW n, NEW line, NEW from, CutRun(from, L, n, line),
         NEW S, NEW m, NEW o, CutPlaces(o, m, L, n, line, S)
  PROVE  /\ from[o[0]].at = o[m]
         /\ from[o[0]].plain \in Seq(S) /\ Len(from[o[0]].plain) = m
         /\ \A i \in 1..m : from[o[0]].plain[i] = line[o[i - 1]]
<1>0. /\ \A i \in 0..L : from[i] = CutAt(from, L, n, line, i)
      /\ m \in Nat /\ o \in [0..m -> 0..L]
      /\ \A j \in 0..m : j < m => /\ n[o[j]] # 0 /\ o[j + 1] = o[j] + n[o[j]]
                                  /\ line[o[j]] \in S
      /\ n[o[m]] = 0 \/ o[m] + n[o[m]] > L
  BY DEF CutRun, CutPlaces
<1> DEFINE Right(r, d) == /\ r.at = o[m] /\ r.plain \in Seq(S) /\ Len(r.plain) = d
                          /\ \A i \in 1..d : r.plain[i] = line[o[(m - d + i) - 1]]
           Good == {d \in Nat : d <= m => Right(from[o[m - d]], d)}
<1>1. 0 \in Good
  <2>1. from[o[m]] = [at |-> o[m], plain |-> <<>>]
    <3>1. o[m] \in 0..L
      BY <1>0
    <3>. QED
      BY <1>0, <3>1 DEF CutAt
  <2>2. m - 0 = m
    BY <1>0
  <2> DEFINE r == from[o[m]]
  <2>3. r.at = o[m] /\ r.plain = <<>>
    BY <2>1
  <2>4. <<>> \in Seq(S) /\ Len(<<>>) = 0
    BY EmptySeq
  <2>. HIDE DEF r
  <2>5. Right(r, 0)
    BY <2>3, <2>4
  <2>. QED
    BY <2>2, <2>5 DEF r
<1>2. ASSUME NEW d \in Nat, d \in Good PROVE d + 1 \in Good
  <2>. SUFFICES ASSUME d + 1 <= m PROVE Right(from[o[m - (d + 1)]], d + 1)
    OBVIOUS
  <2> DEFINE j == m - (d + 1)
             r == from[o[m - d]]
             x == line[o[j]]
  <2>1. j \in 0..m /\ j < m /\ j + 1 = m - d /\ d <= m
    BY <1>0
  <2>. HIDE DEF j
  <2>2. o[j] \in 0..L /\ o[j + 1] \in 0..L /\ n[o[j]] # 0 /\ o[j + 1] = o[j] + n[o[j]] /\ x \in S
    BY <1>0, <2>1
  <2>3. from[o[j]] = [at |-> r.at, plain |-> <<x>> \o r.plain]
    <3>1. ~(o[j] + n[o[j]] > L)
      BY <2>2
    <3>2. from[o[j]] = CutAt(from, L, n, line, o[j])
      BY <1>0, <2>2
    <3>. QED
      BY <2>1, <2>2, <3>1, <3>2 DEF CutAt
  <2>4. Right(r, d)
    BY <1>2, <2>1
  <2>. HIDE DEF r, x
  <2>5. /\ <<x>> \o r.plain \in Seq(S) /\ Len(<<x>> \o r.plain) = 1 + d
        /\ (<<x>> \o r.plain)[1] = x
        /\ \A i \in 1..d : (<<x>> \o r.plain)[i + 1] = r.plain[i]
    <3>1. <<x>> \in Seq(S) /\ Len(<<x>>) = 1 /\ <<x>>[1] = x
      BY <2>2
    <3>. DEFINE s == <<x>>
    <3>. HIDE DEF s
    <3>2. s \in Seq(S) /\ Len(s) = 1 /\ s[1] = x
      BY <3>1 DEF s
    <3>3. /\ s \o r.plain \in Seq(S) /\ Len(s \o r.plain) = 1 + d
          /\ (s \o r.plain)[1] = s[1]
          /\ \A i \in 1..d : (s \o r.plain)[i + 1] = r.plain[i]
      <4>1. r.plain \in Seq(S) /\ Len(r.plain) = d
        BY <2>4
      <4>2. s \o r.plain \in Seq(S)
        BY <3>2, <4>1, ConcatProperties
      <4>3. /\ Len(s \o r.plain) = Len(s) + Len(r.plain)
            /\ \A i \in 1..Len(s) : (s \o r.plain)[i] = s[i]
            /\ \A i \in 1..Len(r.plain) : (s \o r.plain)[i + Len(s)] = r.plain[i]
        <5>1. s \in Seq(S) /\ r.plain \in Seq(S)
          BY <3>2, <4>1
        <5>2. \A u, v \in Seq(S) :
                /\ Len(u \o v) = Len(u) + Len(v)
                /\ \A i \in 1..Len(u) : (u \o v)[i] = u[i]
                /\ \A i \in 1..Len(v) : (u \o v)[i + Len(u)] = v[i]
          BY Joined
        <5>. QED
          BY <5>1, <5>2, Zenon
      <4> DEFINE u == s \o r.plain
      <4>4. /\ u \in Seq(S) /\ Len(u) = 1 + d
            /\ \A i \in 1..1 : u[i] = s[i]
            /\ \A i \in 1..d : u[i + 1] = r.plain[i]
        BY <3>2, <4>1, <4>2, <4>3
      <4>. HIDE DEF u
      <4>5. u[1] = s[1]
        BY <4>4
      <4>. QED
        BY <4>4, <4>5 DEF u
    <3>. QED
      BY <3>2, <3>3 DEF s
  <2> DEFINE t == <<x>> \o r.plain
  <2>. HIDE DEF t
  <2>6. t \in Seq(S) /\ Len(t) = d + 1 /\ t[1] = x /\ \A i \in 1..d : t[i + 1] = r.plain[i]
    BY <2>5 DEF t
  <2>7. ASSUME NEW i \in 1..(d + 1) PROVE t[i] = line[o[(m - (d + 1) + i) - 1]]
    <3>1. CASE i = 1
      <4>1. (m - (d + 1) + i) - 1 = j
        BY <1>0, <3>1 DEF j
      <4>. QED
        BY <2>6, <3>1, <4>1 DEF x
    <3>2. CASE i # 1
      <4> DEFINE q == i - 1
      <4>1. q \in 1..d /\ q + 1 = i /\ (m - (d + 1) + i) - 1 = (m - d + q) - 1
        BY <1>0, <3>2
      <4>. HIDE DEF q
      <4>. QED
        BY <2>4, <2>6, <4>1
    <3>. QED
      BY <3>1, <3>2
  <2>8. from[o[j]] = [at |-> r.at, plain |-> t]
    BY <2>3 DEF t
  <2>9. Right(from[o[j]], d + 1)
    BY <2>4, <2>6, <2>7, <2>8
  <2>. QED
    BY <2>9 DEF j
<1>3. m \in Good
  <2>. HIDE DEF Good
  <2>. QED
    BY <1>0, <1>1, <1>2, NatSetInduction
<1>4. m - m = 0 /\ \A i \in 1..m : (m - m + i) - 1 = i - 1
  BY <1>0
<1>. QED
  BY <1>0, <1>3, <1>4

(* What Cut works with in flow f: at each place of s, the bytes the frame  *)
(* there takes, and the line it becomes.                                   *)
FrameSizes(f, s) ==
  [i \in 0..Len(s) |->
     IF f = "login"
     THEN IF Len(s) - i < 3 THEN 0 ELSE PlainSize(SubSeq(s, i + 1, i + 3))
     ELSE IF Len(s) - i < 4 THEN 0 ELSE CipherSize(SubSeq(s, i + 1, i + 4))]
FrameLines(f, s) ==
  [i \in 0..Len(s) |->
     LET g == SubSeq(s, i + 1, i + FrameSizes(f, s)[i])
     IN  IF f = "login" THEN g ELSE SnifferDecrypt(g, Len(g) - 2)]

CutOf(f, s) == IF FlowPort[f] = "18123" THEN CutCipher(s) ELSE CutPlain(s)

LEMMA LengthIsNat ==
  ASSUME NEW head \in Seq(Byte), Len(head) >= 4
  PROVE  ExtractLength(head) \in Nat
<1> DEFINE a == (head[3] % 7) + 1
           b == (head[4] % 7) + 1
           n == Len16(head)
           p == Ror16(n, a)
           q == Xor16(p, 49182)
<1>0. head[1] \in Byte /\ head[2] \in Byte /\ head[3] \in Byte /\ head[4] \in Byte
  <2>1. 1 \in 1..Len(head) /\ 2 \in 1..Len(head) /\ 3 \in 1..Len(head) /\ 4 \in 1..Len(head)
    BY LenProperties
  <2>. QED
    BY <2>1, ElementOfSeq
<1>1. a \in Nat /\ b \in Nat
  <2>1. \A x \in Byte : (x % 7) + 1 \in Nat
    BY DEF Byte
  <2>. QED
    BY <1>0, <2>1
<1>2. n \in Half
  <2>1. 256 * head[2] + head[1] \in Half
    BY <1>0, WordParts
  <2>2. n = 256 * head[2] + head[1]
    <3>1. \A x, y \in Byte : x + 256 * y = 256 * y + x
      BY DEF Byte
    <3>. QED
      BY <1>0, <3>1 DEF Len16
  <2>. QED
    BY <2>1, <2>2
<1>3. ExtractLength(head) = Rol16(q, b)
  BY DEF ExtractLength
<1>. HIDE DEF a, b, n
<1>4. p \in Half
  BY <1>1, <1>2, Turn16
<1>. HIDE DEF p
<1>5. q \in Half
  BY <1>4, Xor16Undo, MaskIsWord
<1>. HIDE DEF q
<1>6. Rol16(q, b) \in Half
  BY <1>1, <1>5, Turn16
<1>. QED
  BY <1>3, <1>6 DEF Half

LEMMA SizesAreNat ==
  ASSUME NEW f, NEW s \in Seq(Byte)
  PROVE  FrameSizes(f, s) \in [0..Len(s) -> Nat]
<1>1. Len(s) \in Nat
  BY LenProperties
<1>2. ASSUME NEW i \in 0..Len(s), NEW n \in Nat, n >= 3, ~(Len(s) - i < n)
      PROVE  LET g == SubSeq(s, i + 1, i + n) IN g \in Seq(Byte) /\ Len(g) = n
  <2>1. i \in Nat /\ i + n <= Len(s)
    BY <1>1, <1>2
  <2>. QED
    BY <2>1, PieceOf
<1>3. ASSUME NEW i \in 0..Len(s), ~(Len(s) - i < 4)
      PROVE  CipherSize(SubSeq(s, i + 1, i + 4)) \in Nat
  <2> DEFINE g == SubSeq(s, i + 1, i + 4)
  <2>1. g \in Seq(Byte) /\ Len(g) = 4
    BY <1>2, <1>3
  <2>. HIDE DEF g
  <2>1b. g \in Seq(Byte) /\ Len(g) >= 4
    BY <2>1
  <2>2. ExtractLength(g) \in Nat
    BY <2>1b, LengthIsNat
  <2>3. CipherSize(g) \in Nat
    BY <2>2 DEF CipherSize
  <2>. QED
    BY <2>3 DEF g
<1>4. ASSUME NEW i \in 0..Len(s), ~(Len(s) - i < 3)
      PROVE  PlainSize(SubSeq(s, i + 1, i + 3)) \in Nat
  <2> DEFINE g == SubSeq(s, i + 1, i + 3)
  <2>1. g \in Seq(Byte) /\ Len(g) = 3
    BY <1>2, <1>4
  <2>. HIDE DEF g
  <2>2. g[1] \in Byte /\ g[2] \in Byte
    <3>1. 1 \in 1..Len(g) /\ 2 \in 1..Len(g)
      BY <2>1
    <3>. QED
      BY <2>1, <3>1, ElementOfSeq
  <2>3. Len16(g) \in Nat
    <3>1. \A x, y \in Byte : x + 256 * y \in Nat
      BY DEF Byte
    <3>. QED
      BY <2>2, <3>1 DEF Len16
  <2>4. PlainSize(g) \in Nat
    BY <2>3 DEF PlainSize
  <2>. QED
    BY <2>4 DEF g
<1>. QED
  BY <1>3, <1>4 DEF FrameSizes

(* Cut is the recursion of CutRuns.                                        *)
LEMMA CutIsRun ==
  ASSUME NEW f \in Flows, NEW s \in Seq(Byte)
  PROVE  \E from : /\ CutOf(f, s) = from[0]
                   /\ \A i \in 0..Len(s) :
                        from[i] = CutAt(from, Len(s), FrameSizes(f, s), FrameLines(f, s), i)
<1>1. Len(s) \in Nat /\ 0 \in 0..Len(s)
  BY LenProperties
<1>2. PICK g : /\ g = [i \in 0..Len(s) |-> g[i]]
               /\ \A i \in 0..Len(s) :
                    g[i] = CutAt(g, Len(s), FrameSizes(f, s), FrameLines(f, s), i)
  <2> DEFINE L == Len(s)   n == FrameSizes(f, s)   line == FrameLines(f, s)
  <2>1. L \in Nat /\ n \in [0..L -> Nat]
    BY <1>1, SizesAreNat
  <2>. HIDE DEF L, n, line
  <2>2. \E h : /\ h = [i \in 0..L |-> h[i]]
               /\ \A i \in 0..L : h[i] = CutAt(h, L, n, line, i)
    BY <2>1, CutRuns
  <2>. QED
    BY <2>2 DEF L, n, line
<1>3. CASE f # "login"
  <2> DEFINE size(i) == IF Len(s) - i < 4 THEN 0 ELSE CipherSize(SubSeq(s, i + 1, i + 4))
             Line(h) == SnifferDecrypt(h, Len(h) - 2)
             from[i \in 0..Len(s)] ==
               LET n    == size(i)
                   rest == from[i + n]
               IN  IF n = 0 \/ i + n > Len(s) THEN [at |-> i, plain |-> <<>>]
                   ELSE [at |-> rest.at,
                         plain |-> <<Line(SubSeq(s, i + 1, i + n))>> \o rest.plain]
  <2>1. ASSUME NEW i \in 0..Len(s), NEW h
        PROVE  CutAt(h, Len(s), FrameSizes(f, s), FrameLines(f, s), i)
                 = LET n    == size(i)
                       rest == h[i + n]
                   IN  IF n = 0 \/ i + n > Len(s) THEN [at |-> i, plain |-> <<>>]
                       ELSE [at |-> rest.at,
                             plain |-> <<Line(SubSeq(s, i + 1, i + n))>> \o rest.plain]
    BY <1>3 DEF CutAt, FrameSizes, FrameLines
  <2>2. CutOf(f, s) = from[0]
    BY <1>3, LinkAssumption DEF CutOf, CutCipher, Cut
  <2>. HIDE DEF size, Line
  <2>3. g = [i \in 0..Len(s) |->
               LET n    == size(i)
                   rest == g[i + n]
               IN  IF n = 0 \/ i + n > Len(s) THEN [at |-> i, plain |-> <<>>]
                   ELSE [at |-> rest.at,
                         plain |-> <<Line(SubSeq(s, i + 1, i + n))>> \o rest.plain]]
    BY <1>2, <2>1, Zenon
  <2>4. from = [i \in 0..Len(s) |->
               LET n    == size(i)
                   rest == from[i + n]
               IN  IF n = 0 \/ i + n > Len(s) THEN [at |-> i, plain |-> <<>>]
                   ELSE [at |-> rest.at,
                         plain |-> <<Line(SubSeq(s, i + 1, i + n))>> \o rest.plain]]
    BY <2>3, Zenon
  <2>. HIDE DEF from
  <2>5. \A i \in 0..Len(s) :
          from[i] = CutAt(from, Len(s), FrameSizes(f, s), FrameLines(f, s), i)
    BY <2>1, <2>4
  <2>. QED
    BY <2>2, <2>5
<1>4. CASE f = "login"
  <2> DEFINE size(i) == IF Len(s) - i < 3 THEN 0 ELSE PlainSize(SubSeq(s, i + 1, i + 3))
             Line(h) == h
             from[i \in 0..Len(s)] ==
               LET n    == size(i)
                   rest == from[i + n]
               IN  IF n = 0 \/ i + n > Len(s) THEN [at |-> i, plain |-> <<>>]
                   ELSE [at |-> rest.at,
                         plain |-> <<Line(SubSeq(s, i + 1, i + n))>> \o rest.plain]
  <2>1. ASSUME NEW i \in 0..Len(s), NEW h
        PROVE  CutAt(h, Len(s), FrameSizes(f, s), FrameLines(f, s), i)
                 = LET n    == size(i)
                       rest == h[i + n]
                   IN  IF n = 0 \/ i + n > Len(s) THEN [at |-> i, plain |-> <<>>]
                       ELSE [at |-> rest.at,
                             plain |-> <<Line(SubSeq(s, i + 1, i + n))>> \o rest.plain]
    BY <1>4 DEF CutAt, FrameSizes, FrameLines
  <2>2. CutOf(f, s) = from[0]
    BY <1>4, LinkAssumption DEF CutOf, CutPlain, Cut
  <2>. HIDE DEF size, Line
  <2>3. g = [i \in 0..Len(s) |->
               LET n    == size(i)
                   rest == g[i + n]
               IN  IF n = 0 \/ i + n > Len(s) THEN [at |-> i, plain |-> <<>>]
                   ELSE [at |-> rest.at,
                         plain |-> <<Line(SubSeq(s, i + 1, i + n))>> \o rest.plain]]
    BY <1>2, <2>1
  <2>4. from = [i \in 0..Len(s) |->
               LET n    == size(i)
                   rest == from[i + n]
               IN  IF n = 0 \/ i + n > Len(s) THEN [at |-> i, plain |-> <<>>]
                   ELSE [at |-> rest.at,
                         plain |-> <<Line(SubSeq(s, i + 1, i + n))>> \o rest.plain]]
    BY <2>3
  <2>. HIDE DEF from
  <2>5. \A i \in 0..Len(s) :
          from[i] = CutAt(from, Len(s), FrameSizes(f, s), FrameLines(f, s), i)
    BY <2>1, <2>4
  <2>. QED
    BY <2>2, <2>5
<1>. QED
  BY <1>3, <1>4

-----------------------------------------------------------------------------
(* The frames of a flow.                                                   *)

(* A frame the recorder can take in, the bytes it is on the wire, and what *)
(* the recorder makes of them.                                             *)
Whole(f, p) ==
  /\ p \in Seq(Byte) /\ Len(p) = Len16(p) + 2
  /\ IF f = "login" THEN Len(p) >= 3 ELSE Framed(p) /\ Len(p) <= MaxCipherBuf + 1
Wired(f, p)   == IF f = "login" THEN p ELSE Pack(p)
Told(f, q, p) == IF f = "login" THEN q = p ELSE SameButChecksum(q, p)

LEMMA WholeParts ==
  ASSUME NEW f, NEW p, Whole(f, p)
  PROVE  /\ Wired(f, p) \in Seq(Byte) /\ Len(Wired(f, p)) = Len(p)
         /\ Len(p) \in Nat /\ Len16(p) \in Nat /\ Len(p) = Len16(p) + 2
         /\ Len(p) >= (IF f = "login" THEN 3 ELSE 8)
<1>1. p \in Seq(Byte) /\ Len(p) = Len16(p) + 2 /\ Len(p) \in Nat
  BY LenProperties DEF Whole
<1>2. CASE f = "login"
  <2>1. Len(p) >= 3
    BY <1>2 DEF Whole
  <2>2. p[1] \in Byte /\ p[2] \in Byte
    <3>1. 1 \in 1..Len(p) /\ 2 \in 1..Len(p)
      BY <1>1, <2>1
    <3>. QED
      BY <1>1, <3>1, ElementOfSeq
  <2>3. Len16(p) \in Nat
    <3>1. \A x, y \in Byte : x + 256 * y \in Nat
      BY DEF Byte
    <3>. QED
      BY <2>2, <3>1 DEF Len16
  <2>. QED
    BY <1>1, <1>2, <2>1, <2>3 DEF Wired
<1>3. CASE f # "login"
  <2>1. Framed(p)
    BY <1>3 DEF Whole
  <2>2. Len16(p) \in Nat /\ Len16(p) >= 6 /\ Len(Pack(p)) = Len(p) /\ Pack(p) \in Seq(Byte)
    BY <2>1, FramedParts, PackParts
  <2>. QED
    BY <1>1, <1>3, <2>2 DEF Wired
<1>. QED
  BY <1>2, <1>3

(* At a place where such a frame begins, its first bytes give its size.    *)
LEMMA SizeSaid ==
  ASSUME NEW f \in Flows, NEW s \in Seq(Byte), NEW i \in 0..Len(s), NEW p, Whole(f, p),
         Len(s) - i >= (IF f = "login" THEN 3 ELSE 4),
         \A j \in 1..Len(p) : i + j <= Len(s) => s[i + j] = Wired(f, p)[j]
  PROVE  FrameSizes(f, s)[i] = Len(p)
<1>1. Len(s) \in Nat /\ i \in Nat
  BY LenProperties
<1>2. /\ Len(p) \in Nat /\ Len16(p) \in Nat /\ Len(p) = Len16(p) + 2
      /\ Len(p) >= (IF f = "login" THEN 3 ELSE 8)
  BY WholeParts
<1>3. ASSUME NEW n \in {3, 4}, i + n <= Len(s), n <= Len(p)
      PROVE  LET g == SubSeq(s, i + 1, i + n)
             IN  g \in Seq(Byte) /\ Len(g) = n /\ \A j \in 1..n : g[j] = Wired(f, p)[j]
  <2> DEFINE g == SubSeq(s, i + 1, i + n)
  <2>1. n \in Nat
    BY <1>3
  <2>2. g \in Seq(Byte) /\ Len(g) = n /\ \A j \in 1..n : g[j] = s[j + i]
    BY <1>1, <1>3, <2>1, PieceOf
  <2>. HIDE DEF g
  <2>3. ASSUME NEW j \in 1..n PROVE g[j] = Wired(f, p)[j]
    <3>1. j \in 1..Len(p) /\ i + j <= Len(s) /\ j + i = i + j
      BY <1>1, <1>2, <1>3, <2>1
    <3>. QED
      BY <2>2, <3>1
  <2>. QED
    BY <2>2, <2>3 DEF g
<1>4. CASE f = "login"
  <2> DEFINE g == SubSeq(s, i + 1, i + 3)
  <2>1. g \in Seq(Byte) /\ Len(g) = 3 /\ \A j \in 1..3 : g[j] = Wired(f, p)[j]
    <3>1. i + 3 <= Len(s) /\ 3 <= Len(p)
      BY <1>1, <1>2, <1>4
    <3>. QED
      BY <1>3, <3>1
  <2>2. FrameSizes(f, s)[i] = PlainSize(g)
    BY <1>1, <1>4 DEF FrameSizes
  <2>. HIDE DEF g
  <2>3. Len16(g) = Len16(p)
    BY <1>4, <2>1 DEF Len16, Wired
  <2>4. PlainSize(g) = Len16(p) + 2
    BY <1>2, <1>4, <2>3 DEF PlainSize
  <2>. QED
    BY <1>2, <2>2, <2>4
<1>5. CASE f # "login"
  <2> DEFINE g == SubSeq(s, i + 1, i + 4)
  <2>1. g \in Seq(Byte) /\ Len(g) = 4 /\ \A j \in 1..4 : g[j] = Wired(f, p)[j]
    <3>1. i + 4 <= Len(s) /\ 4 <= Len(p)
      BY <1>1, <1>2, <1>5
    <3>. QED
      BY <1>3, <3>1
  <2>2. FrameSizes(f, s)[i] = CipherSize(g)
    BY <1>1, <1>5 DEF FrameSizes
  <2>. HIDE DEF g
  <2>3. Framed(p) /\ Len(g) >= 4 /\ \A j \in 1..4 : g[j] = Pack(p)[j]
    BY <1>5, <2>1 DEF Wired, Whole
  <2>4. ExtractLength(g) = Len16(p)
    BY <2>1, <2>3, HeadRead
  <2>5. CipherSize(g) = Len16(p) + 2
    BY <1>2, <1>5, <2>4 DEF CipherSize
  <2>. QED
    BY <1>2, <2>2, <2>5
<1>. QED
  BY <1>4, <1>5

(* With all its bytes there, its line tells what was meant.                *)
LEMMA LineTells ==
  ASSUME NEW f \in Flows, NEW s \in Seq(Byte), NEW i \in 0..Len(s), NEW p, Whole(f, p),
         i + Len(p) <= Len(s),
         \A j \in 1..Len(p) : s[i + j] = Wired(f, p)[j]
  PROVE  FrameLines(f, s)[i] \in Seq(Byte) /\ Told(f, FrameLines(f, s)[i], p)
<1> DEFINE n == Len(p)
           w == Wired(f, p)
           g == SubSeq(s, i + 1, i + n)
<1>1. Len(s) \in Nat /\ i \in Nat
  BY LenProperties
<1>2. /\ w \in Seq(Byte) /\ Len(w) = n /\ n \in Nat /\ Len16(p) \in Nat /\ n = Len16(p) + 2
      /\ n >= (IF f = "login" THEN 3 ELSE 8)
  BY WholeParts
<1>3. FrameSizes(f, s)[i] = n
  <2>1. Len(s) - i >= (IF f = "login" THEN 3 ELSE 4)
    BY <1>1, <1>2
  <2>. QED
    BY <2>1, SizeSaid, SMTT(60)
<1>4. FrameLines(f, s)[i] = IF f = "login" THEN g ELSE SnifferDecrypt(g, Len(g) - 2)
  BY <1>3 DEF FrameLines
<1>. HIDE DEF n, w
<1>5. g \in Seq(Byte) /\ Len(g) = n /\ \A j \in 1..n : g[j] = s[j + i]
  BY <1>1, <1>2, PieceOf, SMTT(60) DEF n
<1>. HIDE DEF g
<1>6. g = w
  <2>1. ASSUME NEW j \in 1..n PROVE g[j] = w[j]
    <3>1. j + i = i + j
      BY <1>1, <1>2
    <3>2. s[i + j] = w[j]
      BY DEF n, w
    <3>. QED
      BY <1>5, <3>1, <3>2
  <2>. QED
    BY <1>2, <1>5, <2>1, SeqEqual
<1>7. CASE f = "login"
  <2>1. FrameLines(f, s)[i] = p
    BY <1>4, <1>6, <1>7 DEF w, Wired
  <2>. QED
    BY <1>7, <2>1 DEF Told, Whole
<1>8. CASE f # "login"
  <2>1. Framed(p) /\ g = Pack(p) /\ p \in Seq(Byte) /\ ~Unsound(p)
    BY <1>6, <1>8, FramedParts DEF Whole, Wired, w
  <2>2. LenBytes(Len16(p)) \o SubSeq(g, 3, Len16(p) + 2) = Encrypt(p)
    <3>1. Len(g) >= Len(p) /\ \A j \in 1..Len(p) : g[j] = Pack(p)[j]
      BY <1>2, <1>5, <2>1 DEF n
    <3>. QED
      BY <1>5, <2>1, <3>1, FrameTaken
  <2>3. Len(g) = Len16(p) + 2 /\ Len(g) - 2 = Len16(p)
    BY <1>2, <1>5
  <2>4. SnifferDecrypt(g, Len(g) - 2) = SnifferOpen(Encrypt(p))
    BY <2>2, <2>3 DEF SnifferDecrypt, Relabelled
  <2>5. Recovers(SnifferOpen(Encrypt(p)), p)
    BY <2>1, SnifferRoundTrip
  <2>6. SameButChecksum(SnifferOpen(Encrypt(p)), p)
    BY <2>1, <2>5, RecoveredSame
  <2>7. FrameLines(f, s)[i] = SnifferOpen(Encrypt(p))
    BY <1>4, <1>8, <2>4
  <2>. QED
    BY <1>8, <2>5, <2>6, <2>7 DEF Told, Recovers
<1>. QED
  BY <1>7, <1>8

(* Frames of flow f, one behind the other, and the bytes they are.         *)
Laid(f, plains, s) ==
  /\ Len(plains) \in Nat /\ \A k \in 1..Len(plains) : Whole(f, plains[k])
  /\ s \in Seq(Byte) /\ Len(s) = EndsOf(plains)[Len(plains)]
  /\ \A k \in 1..Len(plains) : \A j \in 1..Len(plains[k]) :
       s[EndsOf(plains)[k - 1] + j] = Wired(f, plains[k])[j]

(* Of the first n bytes, k frames are whole.                               *)
Passed(plains, n, k) ==
  /\ k \in 0..Len(plains) /\ EndsOf(plains)[k] <= n
  /\ k < Len(plains) => n < EndsOf(plains)[k + 1]

(* What is held of s are its bytes after a up to b.                        *)
Stretch(held, s, a, b) ==
  /\ held \in Seq(Byte) /\ Len(held) = b - a
  /\ \A j \in 1..Len(held) : held[j] = s[a + j]

LEMMA LaidSized ==
  ASSUME NEW f, NEW plains, NEW s, Laid(f, plains, s)
  PROVE  /\ Sized(plains) /\ Len(plains) \in Nat /\ Len(s) \in Nat
         /\ EndsOf(plains)[0] = 0
         /\ \A k \in 0..Len(plains) : EndsOf(plains)[k] \in Nat /\ EndsOf(plains)[k] <= Len(s)
         /\ \A k \in 1..Len(plains) :
              /\ EndsOf(plains)[k] = EndsOf(plains)[k - 1] + Len(plains[k])
              /\ Len(plains[k]) \in Nat /\ Len(plains[k]) >= 3
<1>1. /\ Len(plains) \in Nat /\ Len(s) = EndsOf(plains)[Len(plains)] /\ Len(s) \in Nat
      /\ \A k \in 1..Len(plains) : Whole(f, plains[k])
  BY LenProperties DEF Laid
<1>2. ASSUME NEW k \in 1..Len(plains) PROVE Len(plains[k]) \in Nat /\ Len(plains[k]) >= 3
  <2>1. Whole(f, plains[k])
    BY <1>1
  <2>2. Len(plains[k]) \in Nat /\ Len(plains[k]) >= (IF f = "login" THEN 3 ELSE 8)
    BY <2>1, WholeParts
  <2>. QED
    BY <2>2
<1>3. Sized(plains)
  BY <1>1, <1>2 DEF Sized
<1>4. /\ EndsOf(plains)[0] = 0
      /\ \A k \in 0..Len(plains) : EndsOf(plains)[k] \in Nat
      /\ \A k \in 1..Len(plains) :
           EndsOf(plains)[k] = EndsOf(plains)[k - 1] + Len(plains[k])
  BY <1>3, EndsAdvance
<1>5. \A k \in 0..Len(plains) : EndsOf(plains)[k] <= Len(s)
  <2>. TAKE k \in 0..Len(plains)
  <2>1. Len(plains) \in 0..Len(plains) /\ k <= Len(plains)
    BY <1>1
  <2>2. EndsOf(plains)[k] <= EndsOf(plains)[Len(plains)]
    BY <1>3, <2>1, EndsRise
  <2>. QED
    BY <1>1, <2>2
<1>. QED
  BY <1>1, <1>2, <1>3, <1>4, <1>5

LEMMA SomePassed ==
  ASSUME NEW plains, Len(plains) \in Nat, NEW n, NEW k \in 0..Len(plains),
         EndsOf(plains)[k] <= n,
         n \in Nat, \A i \in 0..Len(plains) : EndsOf(plains)[i] \in Nat
  PROVE  \E m \in k..Len(plains) : Passed(plains, n, m)
<1>. SUFFICES ASSUME \A m \in k..Len(plains) : ~Passed(plains, n, m) PROVE FALSE
  OBVIOUS
<1> DEFINE Good == {d \in Nat : k + d <= Len(plains) /\ EndsOf(plains)[k + d] <= n}
<1>1. 0 \in Good
  BY k + 0 = k
<1>2. ASSUME NEW d \in Nat, d \in Good PROVE d + 1 \in Good
  <2>1. k + d \in k..Len(plains) /\ k + d \in 0..Len(plains) /\ EndsOf(plains)[k + d] <= n
    BY <1>2
  <2>2. k + d < Len(plains) /\ ~(n < EndsOf(plains)[(k + d) + 1])
    BY <2>1 DEF Passed
  <2>3. (k + d) + 1 = k + (d + 1) /\ k + (d + 1) \in 0..Len(plains)
    BY <2>2
  <2>4. EndsOf(plains)[k + (d + 1)] <= n
    BY <2>2, <2>3
  <2>. QED
    BY <2>3, <2>4
<1>3. Nat \subseteq Good
  <2>. HIDE DEF Good
  <2>. QED
    BY <1>1, <1>2, NatSetInduction
<1>4. Len(plains) + 1 \in Good
  BY <1>3
<1>. QED
  BY <1>4

(* What is held from the end of the first k frames to the byte b is cut    *)
(* into the frames that have passed by b; the rest stays.                  *)
LEMMA CutTells ==
  ASSUME NEW f \in Flows, NEW plains, NEW s, Laid(f, plains, s),
         NEW k \in 0..Len(plains), NEW b \in 0..Len(s), EndsOf(plains)[k] <= b,
         NEW held, Stretch(held, s, EndsOf(plains)[k], b)
  PROVE  \E m \in k..Len(plains) :
           /\ Passed(plains, b, m)
           /\ CutOf(f, held).at = EndsOf(plains)[m] - EndsOf(plains)[k]
           /\ CutOf(f, held).plain \in Seq(Seq(Byte))
           /\ Len(CutOf(f, held).plain) = m - k
           /\ \A i \in 1..(m - k) : Told(f, CutOf(f, held).plain[i], plains[k + i])
<1> DEFINE ends == EndsOf(plains)
           N == Len(plains)
           L == Len(held)
           size == FrameSizes(f, held)
           line == FrameLines(f, held)
<1>1. /\ N \in Nat /\ Len(s) \in Nat /\ Sized(plains)
      /\ \A i \in 0..N : ends[i] \in Nat /\ ends[i] <= Len(s)
      /\ \A i \in 1..N : /\ ends[i] = ends[i - 1] + Len(plains[i])
                         /\ Len(plains[i]) \in Nat /\ Len(plains[i]) >= 3
  BY LaidSized
<1>2. /\ held \in Seq(Byte) /\ L \in Nat /\ L = b - ends[k]
      /\ \A j \in 1..L : held[j] = s[ends[k] + j]
  BY LenProperties DEF Stretch
<1>3. PICK m \in k..N : Passed(plains, b, m)
  <2>1. b \in Nat
    BY <1>1
  <2>. QED
    BY <1>1, <2>1, SomePassed
<1>4. /\ m \in 0..N /\ ends[m] <= b /\ (m < N => b < ends[m + 1])
  BY <1>3 DEF Passed
<1>5. \A i, j \in 0..N : i <= j => ends[i] <= ends[j]
  BY <1>1, EndsRise
<1> DEFINE d == m - k
           o == [j \in 0..d |-> ends[k + j] - ends[k]]
<1>6. d \in Nat /\ k \in Nat /\ k + d = m /\ \A j \in 0..d : k + j \in 0..N /\ k + j <= m
  BY <1>1, <1>4
<1>7. b \in Nat /\ b <= Len(s) /\ ends[k] \in Nat /\ ends[m] \in Nat /\ ends[k] <= b
  BY <1>1, <1>4
<1>. HIDE DEF ends, N, L, size, line, d
<1>8. ASSUME NEW j \in 0..d
      PROVE  /\ ends[k + j] \in Nat /\ ends[k] <= ends[k + j] /\ ends[k + j] <= ends[m]
             /\ o[j] \in 0..L /\ o[j] = ends[k + j] - ends[k]
  <2>1. k + j \in 0..N /\ k \in 0..N /\ k <= k + j /\ k + j <= m /\ m \in 0..N
    BY <1>4, <1>6 DEF N
  <2>2. ends[k + j] \in Nat /\ ends[k] <= ends[k + j] /\ ends[k + j] <= ends[m]
    BY <1>1, <1>5, <2>1
  <2>3. o[j] = ends[k + j] - ends[k]
    OBVIOUS
  <2> DEFINE x == ends[k]   y == ends[k + j]   z == ends[m]
  <2>4. x \in Nat /\ y \in Nat /\ z \in Nat /\ x <= y /\ y <= z /\ z <= b /\ L = b - x /\ b \in Nat
    BY <1>2, <1>4, <1>7, <2>2
  <2>. HIDE DEF o, x, y, z
  <2>5. y - x \in 0..L
    BY <2>4
  <2>. QED
    BY <2>2, <2>3, <2>5 DEF x, y
<1>9. o \in [0..d -> 0..L]
  BY <1>8
<1>. HIDE DEF o
(* The frame after the first k + j begins at place o[j] of what is held.   *)
<1>10. ASSUME NEW j \in 0..d, k + j < N
       PROVE  /\ Whole(f, plains[(k + j) + 1]) /\ Len(plains[(k + j) + 1]) \in Nat
              /\ ends[(k + j) + 1] = ends[k + j] + Len(plains[(k + j) + 1])
              /\ \A q \in 1..Len(plains[(k + j) + 1]) :
                   o[j] + q <= L => held[o[j] + q] = Wired(f, plains[(k + j) + 1])[q]
  <2> DEFINE i == (k + j) + 1
             p == plains[i]
  <2>1. i \in 1..N /\ i - 1 = k + j
    BY <1>1, <1>6, <1>10
  <2>2. Whole(f, p)
    BY <2>1 DEF Laid, N
  <2>3. Len(p) \in Nat /\ ends[i] = ends[k + j] + Len(p)
    BY <1>1, <2>1
  <2>4. ASSUME NEW q \in 1..Len(p), o[j] + q <= L PROVE held[o[j] + q] = Wired(f, p)[q]
    <3>1. o[j] + q \in 1..L /\ ends[k] + (o[j] + q) = ends[k + j] + q
      <4>1. o[j] = ends[k + j] - ends[k] /\ ends[k + j] \in Nat /\ o[j] \in Nat
        BY <1>2, <1>8
      <4>2. q \in Nat \ {0} /\ L \in Nat /\ ends[k] \in Nat
        BY <1>2, <1>7, <2>3
      <4>3. o[j] + q <= L
        BY <2>4
      <4> DEFINE x == ends[k]   y == ends[k + j]   e == o[j]
      <4>. HIDE DEF x, y, e
      <4>4. e = y - x /\ x \in Nat /\ y \in Nat /\ e \in Nat /\ e + q <= L
        BY <4>1, <4>2, <4>3 DEF x, y, e
      <4>5. e + q \in 1..L /\ x + (e + q) = y + q
        BY <4>2, <4>4
      <4>. QED
        BY <4>5 DEF x, y, e
    <3>2. held[o[j] + q] = s[ends[k + j] + q]
      BY <1>2, <3>1
    <3>3. s[ends[i - 1] + q] = Wired(f, p)[q]
      BY <2>1 DEF Laid, N, ends
    <3>. QED
      BY <2>1, <3>2, <3>3
  <2>. QED
    BY <2>2, <2>3, <2>4
<1>11. ASSUME NEW j \in 0..d, j < d
       PROVE  /\ size[o[j]] # 0 /\ o[j + 1] = o[j] + size[o[j]]
              /\ line[o[j]] \in Seq(Byte) /\ Told(f, line[o[j]], plains[(k + j) + 1])
  <2> DEFINE p == plains[(k + j) + 1]
  <2>1. k + j < N /\ j + 1 \in 0..d /\ k + (j + 1) = (k + j) + 1
    BY <1>1, <1>4, <1>6, <1>11
  <2>2. /\ Whole(f, p) /\ Len(p) \in Nat /\ ends[(k + j) + 1] = ends[k + j] + Len(p)
        /\ \A q \in 1..Len(p) : o[j] + q <= L => held[o[j] + q] = Wired(f, p)[q]
    BY <1>10, <2>1
  <2>2b. Len(p) >= (IF f = "login" THEN 3 ELSE 8)
    BY <2>2, WholeParts
  <2>. HIDE DEF p
  <2>3. o[j + 1] = o[j] + Len(p) /\ o[j + 1] \in 0..L /\ o[j] \in 0..L
    <3>1. o[j + 1] = ends[(k + j) + 1] - ends[k] /\ o[j + 1] \in 0..L
      BY <1>8, <2>1
    <3>2. o[j] = ends[k + j] - ends[k] /\ ends[k + j] \in Nat /\ o[j] \in 0..L
      BY <1>8
    <3>3. ends[k] \in Nat
      BY <1>7
    <3>4. o[j + 1] = (ends[k + j] + Len(p)) - ends[k]
      BY <2>2, <3>1
    <3> DEFINE x == ends[k]   y == ends[k + j]   r == Len(p)
    <3>5. x \in Nat /\ y \in Nat /\ r \in Nat
      BY <2>2, <3>2, <3>3
    <3>. HIDE DEF x, y, r
    <3>6. (y + r) - x = (y - x) + r
      BY <3>5
    <3>7. (ends[k + j] + Len(p)) - ends[k] = (ends[k + j] - ends[k]) + Len(p)
      BY <3>6 DEF x, y, r
    <3>. QED
      BY <3>1, <3>2, <3>4, <3>7
  <2>4. /\ L - o[j] >= (IF f = "login" THEN 3 ELSE 4) /\ o[j] + Len(p) <= L
        /\ \A q \in 1..Len(p) : o[j] + q <= L
    <3> DEFINE x == o[j]   y == o[j + 1]   n == Len(p)
    <3>1. x \in Nat /\ y = x + n /\ y <= L /\ L \in Nat /\ n \in Nat
      BY <1>2, <2>2, <2>3
    <3>2. n >= 4 \/ (f = "login" /\ n >= 3)
      BY <2>2, <2>2b
    <3>. HIDE DEF x, y, n
    <3>3. x + n <= L /\ \A q \in 1..n : x + q <= L
      BY <3>1
    <3>4. L - x >= (IF f = "login" THEN 3 ELSE 4)
      BY <3>1, <3>2
    <3>. QED
      BY <3>3, <3>4 DEF x, n
  <2>5. size[o[j]] = Len(p)
    <3>1. /\ o[j] \in 0..Len(held) /\ Len(held) - o[j] >= (IF f = "login" THEN 3 ELSE 4)
          /\ \A q \in 1..Len(p) : o[j] + q <= Len(held) => held[o[j] + q] = Wired(f, p)[q]
      BY <2>2, <2>3, <2>4 DEF L
    <3>2. FrameSizes(f, held)[o[j]] = Len(p)
      <4> DEFINE e == o[j]
      <4>. HIDE DEF e
      <4>1. /\ e \in 0..Len(held) /\ Len(held) - e >= (IF f = "login" THEN 3 ELSE 4)
            /\ \A q \in 1..Len(p) : e + q <= Len(held) => held[e + q] = Wired(f, p)[q]
        BY <3>1 DEF e
      <4>2. held \in Seq(Byte) /\ Whole(f, p)
        BY <1>2, <2>2
      <4>3. FrameSizes(f, held)[e] = Len(p)
        BY <4>1, <4>2, SizeSaid, ZenonT(60)
      <4>. QED
        BY <4>3 DEF e
    <3>. QED
      BY <3>2 DEF size
  <2>6. line[o[j]] \in Seq(Byte) /\ Told(f, line[o[j]], p)
    <3>1. \A q \in 1..Len(p) : held[o[j] + q] = Wired(f, p)[q]
      BY <2>2, <2>4
    <3>. QED
      BY <1>2, <2>2, <2>3, <2>4, <3>1, LineTells DEF L, line
  <2>. QED
    BY <2>2, <2>2b, <2>3, <2>5, <2>6 DEF p
<1>12. size[o[d]] = 0 \/ o[d] + size[o[d]] > L
  <2>1. o[d] = ends[m] - ends[k] /\ o[d] \in 0..L /\ d \in 0..d
    <3>1. d \in 0..d
      BY <1>6
    <3>2. o[d] = ends[k + d] - ends[k] /\ o[d] \in 0..L
      BY <1>8, <3>1
    <3>. QED
      BY <1>6, <3>1, <3>2
  <2>2. CASE m = N
    <3>1. ends[N] = Len(s)
      BY DEF Laid, ends, N
    <3>2. L - o[d] = 0
      BY <1>1, <1>2, <1>4, <1>7, <2>1, <2>2, <3>1
    <3>3. size[o[d]] = 0
      BY <2>1, <3>2 DEF size, FrameSizes, L
    <3>. QED
      BY <3>3
  <2>3. CASE m # N
    <3> DEFINE p == plains[m + 1]
    <3>1. m < N
      BY <1>1, <1>4, <2>3
    <3>2. /\ Whole(f, p) /\ Len(p) \in Nat /\ ends[m + 1] = ends[m] + Len(p)
          /\ \A q \in 1..Len(p) : o[d] + q <= L => held[o[d] + q] = Wired(f, p)[q]
      BY <1>6, <1>10, <2>1, <3>1
    <3>. HIDE DEF p
    <3>3. L - o[d] < Len(p)
      <4> DEFINE x == ends[k]   z == ends[m]   y == ends[m + 1]   e == o[d]   n == Len(p)
      <4>1. x \in Nat /\ z \in Nat /\ n \in Nat /\ y = z + n /\ b < y /\ e = z - x /\ L = b - x
            /\ b \in Nat
        BY <1>2, <1>4, <1>7, <2>1, <3>1, <3>2
      <4>. HIDE DEF x, y, z, e, n
      <4>2. L - e < n
        BY <4>1
      <4>. QED
        BY <4>2 DEF e, n
    <3>4. CASE L - o[d] >= (IF f = "login" THEN 3 ELSE 4)
      <4>1. size[o[d]] = Len(p)
        <5>1. /\ o[d] \in 0..Len(held) /\ Len(held) - o[d] >= (IF f = "login" THEN 3 ELSE 4)
              /\ \A q \in 1..Len(p) : o[d] + q <= Len(held) => held[o[d] + q] = Wired(f, p)[q]
          BY <2>1, <3>2, <3>4 DEF L
        <5>2. FrameSizes(f, held)[o[d]] = Len(p)
          <6> DEFINE e == o[d]
          <6>. HIDE DEF e
          <6>1. /\ e \in 0..Len(held) /\ Len(held) - e >= (IF f = "login" THEN 3 ELSE 4)
                /\ \A q \in 1..Len(p) : e + q <= Len(held) => held[e + q] = Wired(f, p)[q]
            BY <5>1 DEF e
          <6>2. held \in Seq(Byte) /\ Whole(f, p)
            BY <1>2, <3>2
          <6>3. FrameSizes(f, held)[e] = Len(p)
            BY <6>1, <6>2, SizeSaid
          <6>. QED
            BY <6>3 DEF e
        <5>. QED
          BY <5>2 DEF size
      <4>. QED
        BY <1>2, <2>1, <3>2, <3>3, <4>1
    <3>5. CASE ~(L - o[d] >= (IF f = "login" THEN 3 ELSE 4))
      <4>1. size[o[d]] = 0
        BY <1>2, <2>1, <3>5, SMTT(60) DEF size, FrameSizes, L
      <4>. QED
        BY <4>1
    <3>. QED
      BY <3>4, <3>5
  <2>. QED
    BY <2>2, <2>3
<1>13. PICK from : /\ CutOf(f, held) = from[0]
                   /\ \A i \in 0..L : from[i] = CutAt(from, L, size, line, i)
  BY <1>2, CutIsRun DEF L, size, line
<1>14. /\ from[o[0]].at = o[d]
       /\ from[o[0]].plain \in Seq(Seq(Byte)) /\ Len(from[o[0]].plain) = d
       /\ \A i \in 1..d : from[o[0]].plain[i] = line[o[i - 1]]
  <2>1. \A j \in 0..d : j < d => /\ size[o[j]] # 0 /\ o[j + 1] = o[j] + size[o[j]]
                                 /\ line[o[j]] \in Seq(Byte)
    BY <1>11
  <2>2. \A i \in 0..L : from[i] = CutAt(from, L, size, line, i)
    BY <1>13
  <2> DEFINE S == Seq(Byte)
  <2>3. \A j \in 0..d : j < d => /\ size[o[j]] # 0 /\ o[j + 1] = o[j] + size[o[j]]
                                 /\ line[o[j]] \in S
    BY <2>1
  <2>. HIDE DEF S
  <2>3b. CutRun(from, L, size, line) /\ CutPlaces(o, d, L, size, line, S)
    BY <1>6, <1>9, <1>12, <2>2, <2>3 DEF CutRun, CutPlaces
  <2>4. /\ from[o[0]].at = o[d]
        /\ from[o[0]].plain \in Seq(S) /\ Len(from[o[0]].plain) = d
        /\ \A i \in 1..d : from[o[0]].plain[i] = line[o[i - 1]]
    BY <1>2, <2>3b, CutAlong, SMTT(60)
  <2>. QED
    BY <2>4 DEF S
<1>15. o[0] = 0 /\ o[d] = ends[m] - ends[k]
  <2>1. 0 \in 0..d /\ d \in 0..d /\ k + 0 = k
    BY <1>6
  <2>. QED
    <3>1. o[0] = ends[k + 0] - ends[k] /\ o[d] = ends[k + d] - ends[k]
      BY <1>8, <2>1
    <3>. QED
      BY <1>6, <1>7, <2>1, <3>1
<1>16. ASSUME NEW i \in 1..d PROVE Told(f, from[o[0]].plain[i], plains[k + i])
  <2>1. i - 1 \in 0..d /\ i - 1 < d /\ (k + (i - 1)) + 1 = k + i
    BY <1>6
  <2>. QED
    BY <1>11, <1>14, <2>1
<1>17. /\ CutOf(f, held).at = ends[m] - ends[k]
       /\ CutOf(f, held).plain \in Seq(Seq(Byte)) /\ Len(CutOf(f, held).plain) = d
       /\ \A i \in 1..d : Told(f, CutOf(f, held).plain[i], plains[k + i])
  BY <1>13, <1>14, <1>15, <1>16
<1>. QED
  BY <1>3, <1>17 DEF ends, d, N

(* What the recorder has of flow f when n bytes of s have passed.          *)
Taken(f, plains, s, n, held, lines) ==
  \E k \in 0..Len(plains) :
    /\ Passed(plains, n, k)
    /\ Stretch(held, s, EndsOf(plains)[k], n)
    /\ lines \in Seq(Seq(Byte)) /\ Len(lines) = k
    /\ \A i \in 1..k : Told(f, lines[i], plains[i])

LEMMA TakenAtStart ==
  ASSUME NEW f, NEW plains, NEW s, Laid(f, plains, s)
  PROVE  Taken(f, plains, s, 0, <<>>, <<>>)
<1>1. /\ Len(plains) \in Nat /\ EndsOf(plains)[0] = 0
      /\ \A k \in 1..Len(plains) :
           /\ EndsOf(plains)[k] = EndsOf(plains)[k - 1] + Len(plains[k])
           /\ Len(plains[k]) \in Nat /\ Len(plains[k]) >= 3
  BY LaidSized
<1>2. Passed(plains, 0, 0)
  <2>1. ASSUME 0 < Len(plains) PROVE 0 < EndsOf(plains)[0 + 1]
    <3>1. 1 \in 1..Len(plains) /\ 1 - 1 = 0 /\ 0 + 1 = 1
      BY <1>1, <2>1
    <3>. QED
      BY <1>1, <3>1
  <2>. QED
    BY <1>1, <2>1 DEF Passed
<1>3. Stretch(<<>>, s, EndsOf(plains)[0], 0)
  BY <1>1, EmptySeq DEF Stretch
<1>4. <<>> \in Seq(Seq(Byte)) /\ Len(<<>>) = 0
  BY EmptySeq
<1>5. 0 \in 0..Len(plains) /\ 1..0 = {}
  BY <1>1
<1>. QED
  BY <1>2, <1>3, <1>4, <1>5 DEF Taken

(* A further stretch of the flow is taken in, and none of it is dropped.   *)
LEMMA TakenMore ==
  ASSUME NEW f \in Flows, NEW plains, NEW s, Laid(f, plains, s),
         NEW a \in Nat, NEW b \in 0..Len(s), a <= b,
         NEW held, NEW lines, Taken(f, plains, s, a, held, lines),
         NEW bytes, Stretch(bytes, s, a, b), NEW all, all = held \o bytes
  PROVE  /\ f # "login" => ~(Len(all) - CutOf(f, all).at > MaxCipherBuf)
         /\ Taken(f, plains, s, b, SubSeq(all, CutOf(f, all).at + 1, Len(all)),
                  lines \o CutOf(f, all).plain)
<1> DEFINE ends == EndsOf(plains)
           cut == CutOf(f, all)
<1>1. PICK k \in 0..Len(plains) :
        /\ Passed(plains, a, k) /\ Stretch(held, s, ends[k], a)
        /\ lines \in Seq(Seq(Byte)) /\ Len(lines) = k
        /\ \A i \in 1..k : Told(f, lines[i], plains[i])
  BY DEF Taken
<1>2. /\ Len(plains) \in Nat /\ Len(s) \in Nat
      /\ \A i \in 0..Len(plains) : ends[i] \in Nat /\ ends[i] <= Len(s)
      /\ \A i \in 1..Len(plains) : ends[i] = ends[i - 1] + Len(plains[i])
  BY LaidSized
<1>3. /\ held \in Seq(Byte) /\ bytes \in Seq(Byte) /\ Len(held) \in Nat /\ Len(bytes) \in Nat
      /\ Len(held) = a - ends[k] /\ Len(bytes) = b - a
      /\ \A j \in 1..Len(held) : held[j] = s[ends[k] + j]
      /\ \A j \in 1..Len(bytes) : bytes[j] = s[a + j]
  BY <1>1, LenProperties DEF Stretch
<1>4. ends[k] \in Nat /\ ends[k] <= a /\ b \in Nat
  BY <1>1, <1>2 DEF Passed
<1>. HIDE DEF ends
<1>5. /\ all \in Seq(Byte) /\ Len(all) = Len(held) + Len(bytes)
      /\ \A i \in 1..Len(held) : all[i] = held[i]
      /\ \A i \in 1..Len(bytes) : all[i + Len(held)] = bytes[i]
  BY <1>3, BytesJoined, ConcatProperties
<1>6. Len(all) = b - ends[k] /\ Len(all) \in Nat
  BY <1>3, <1>4, <1>5, SMTT(60)
<1>7. ASSUME NEW j \in 1..Len(all) PROVE all[j] = s[ends[k] + j]
  <2>1. CASE j <= Len(held)
    BY <1>3, <1>5, <2>1, SMTT(60)
  <2>2. CASE ~(j <= Len(held))
    <3> DEFINE i == j - Len(held)
    <3>1. i \in 1..Len(bytes) /\ i + Len(held) = j /\ a + i = ends[k] + j
      <4> DEFINE x == ends[k]   h == Len(held)   g == Len(bytes)
      <4>1. /\ x \in Nat /\ h \in Nat /\ g \in Nat /\ h = a - x /\ j \in 1..(h + g) /\ ~(j <= h)
        BY <1>3, <1>4, <1>5, <2>2
      <4>. HIDE DEF x, h, g
      <4>2. j - h \in 1..g /\ (j - h) + h = j /\ a + (j - h) = x + j
        BY <4>1
      <4>. QED
        BY <4>2 DEF x, h, g
    <3>. HIDE DEF i
    <3>. QED
      BY <1>3, <1>5, <3>1
  <2>. QED
    BY <2>1, <2>2
<1>8. Stretch(all, s, ends[k], b) /\ ends[k] <= b
  <2>1. ends[k] <= b
    BY <1>4
  <2>. QED
    BY <1>5, <1>6, <1>7, <2>1 DEF Stretch
<1>9. PICK m \in k..Len(plains) :
        /\ Passed(plains, b, m)
        /\ cut.at = ends[m] - ends[k]
        /\ cut.plain \in Seq(Seq(Byte)) /\ Len(cut.plain) = m - k
        /\ \A i \in 1..(m - k) : Told(f, cut.plain[i], plains[k + i])
  BY <1>8, CutTells DEF ends
<1>. HIDE DEF cut
<1>10. /\ m \in 0..Len(plains) /\ ends[m] <= b /\ (m < Len(plains) => b < ends[m + 1])
       /\ ends[m] \in Nat /\ ends[m] <= Len(s)
  BY <1>2, <1>9 DEF Passed, ends
<1>11. ends[k] <= ends[m]
  <2>1. Sized(plains) /\ k <= m
    BY <1>2, <1>9, LaidSized
  <2>. QED
    BY <1>10, <2>1, EndsRise DEF ends
<1>12. cut.at \in Nat /\ cut.at <= Len(all) /\ Len(all) - cut.at = b - ends[m]
  <2> DEFINE x == ends[k]   y == ends[m]   z == Len(all)   c == cut.at
  <2>1. /\ x \in Nat /\ y \in Nat /\ b \in Nat /\ x <= y /\ y <= b
        /\ z = b - x /\ c = y - x
    BY <1>4, <1>6, <1>9, <1>10, <1>11
  <2>. HIDE DEF x, y, z, c
  <2>2. c \in Nat /\ c <= z /\ z - c = b - y
    BY <2>1
  <2>. QED
    BY <2>2 DEF y, z, c
<1>13. ASSUME f # "login" PROVE ~(Len(all) - cut.at > MaxCipherBuf)
  <2>1. CASE m < Len(plains)
    <3>1. m + 1 \in 1..Len(plains) /\ (m + 1) - 1 = m
      BY <1>2, <1>10, <2>1
    <3>2. Whole(f, plains[m + 1]) /\ ends[m + 1] = ends[m] + Len(plains[m + 1])
      BY <1>2, <3>1 DEF Laid
    <3>3. Len(plains[m + 1]) <= MaxCipherBuf + 1 /\ Len(plains[m + 1]) \in Nat
      BY <1>13, <3>2, WholeParts DEF Whole
    <3>. QED
      BY <1>4, <1>10, <1>12, <2>1, <3>2, <3>3, FlowAssumption, SMTT(60)
  <2>2. CASE ~(m < Len(plains))
    <3>1. m = Len(plains)
      BY <1>2, <1>10, <2>2
    <3>2. ends[m] = Len(s)
      BY <3>1 DEF Laid, ends
    <3>. QED
      BY <1>4, <1>2, <1>10, <1>12, <3>2, FlowAssumption
  <2>. QED
    BY <2>1, <2>2
<1>14. Stretch(SubSeq(all, cut.at + 1, Len(all)), s, ends[m], b)
  <2> DEFINE x == cut.at
             n == Len(all) - x
             t == SubSeq(all, x + 1, x + n)
  <2>1. x \in Nat /\ n \in Nat /\ x + n = Len(all) /\ n = b - ends[m] /\ x = ends[m] - ends[k]
    BY <1>6, <1>9, <1>12
  <2>. HIDE DEF x, n
  <2>2. t \in Seq(Byte) /\ Len(t) = n /\ \A i \in 1..n : t[i] = all[i + x]
    <3>1. x + n <= Len(all)
      BY <1>6, <2>1
    <3>2. all \in Seq(Byte) /\ x \in Nat /\ n \in Nat
      BY <1>5, <2>1
    <3>3. LET u == SubSeq(all, x + 1, x + n)
          IN  u \in Seq(Byte) /\ Len(u) = n /\ \A i \in 1..n : u[i] = all[i + x]
      BY <3>1, <3>2, PieceOf, ZenonT(60)
    <3>. QED
      BY <3>3
  <2>. HIDE DEF t
  <2>3. ASSUME NEW i \in 1..n PROVE t[i] = s[ends[m] + i]
    <3>1. i + x \in 1..Len(all) /\ ends[k] + (i + x) = ends[m] + i
      <4> DEFINE y == ends[k]   z == ends[m]   g == Len(all)
      <4>1. y \in Nat /\ z \in Nat /\ g \in Nat /\ x = z - y /\ x + n = g /\ x \in Nat /\ n \in Nat
        BY <1>4, <1>6, <1>10, <2>1
      <4>. HIDE DEF y, z, g
      <4>2. i + x \in 1..g /\ y + (i + x) = z + i
        BY <4>1
      <4>. QED
        BY <4>2 DEF y, z, g
    <3>. QED
      BY <1>7, <2>2, <3>1
  <2>4. Stretch(t, s, ends[m], b)
    BY <2>1, <2>2, <2>3 DEF Stretch
  <2>. QED
    BY <2>1, <2>4 DEF t, x
<1>15. /\ lines \o cut.plain \in Seq(Seq(Byte)) /\ Len(lines \o cut.plain) = m
       /\ \A i \in 1..m : Told(f, (lines \o cut.plain)[i], plains[i])
  <2> DEFINE S == Seq(Byte)   new == cut.plain   u == lines \o new
  <2>1. lines \in Seq(S) /\ new \in Seq(S) /\ Len(lines) = k /\ Len(new) = m - k
    BY <1>1, <1>9
  <2>. HIDE DEF S
  <2>2. u \in Seq(S)
    BY <2>1, ConcatProperties
  <2>3. /\ Len(u) = Len(lines) + Len(new)
        /\ \A i \in 1..Len(lines) : u[i] = lines[i]
        /\ \A i \in 1..Len(new) : u[i + Len(lines)] = new[i]
    <3>1. \A x, y \in Seq(S) :
            /\ Len(x \o y) = Len(x) + Len(y)
            /\ \A i \in 1..Len(x) : (x \o y)[i] = x[i]
            /\ \A i \in 1..Len(y) : (x \o y)[i + Len(x)] = y[i]
      BY Joined
    <3>. HIDE DEF new
    <3>. QED
      BY <2>1, <3>1, Zenon
  <2>4. \A i \in 1..(m - k) : Told(f, new[i], plains[k + i])
    BY <1>9
  <2>. HIDE DEF u, new
  <2>5. k \in Nat /\ m \in Nat /\ k <= m /\ Len(u) = m
    BY <1>2, <1>9, <2>1, <2>3
  <2>6. ASSUME NEW i \in 1..m PROVE Told(f, u[i], plains[i])
    <3>1. CASE i <= k
      <4>1. i \in 1..k
        BY <2>5, <3>1
      <4>. QED
        BY <1>1, <2>1, <2>3, <4>1
    <3>2. CASE ~(i <= k)
      <4> DEFINE j == i - k
      <4>1. j \in 1..(m - k) /\ j + k = i /\ k + j = i
        BY <2>5, <3>2
      <4>. HIDE DEF j
      <4>2. u[i] = new[j]
        BY <2>1, <2>3, <4>1
      <4>. QED
        BY <2>4, <4>1, <4>2
    <3>. QED
      BY <3>1, <3>2
  <2>. QED
    BY <2>2, <2>5, <2>6 DEF S, u, new
<1>16. Taken(f, plains, s, b, SubSeq(all, cut.at + 1, Len(all)), lines \o cut.plain)
  BY <1>9, <1>10, <1>14, <1>15 DEF Taken, ends
<1>. QED
  BY <1>13, <1>16 DEF cut

(* A frame is added behind the others.                                     *)
Extends(longer, plains, p) ==
  /\ Len(longer) = Len(plains) + 1 /\ longer[Len(plains) + 1] = p
  /\ \A k \in 1..Len(plains) : longer[k] = plains[k]

LEMMA OneMore ==
  ASSUME NEW f, NEW plains, NEW s, Laid(f, plains, s), NEW p, Whole(f, p),
         NEW longer, Extends(longer, plains, p),
         NEW t, t = s \o Wired(f, p)
  PROVE  /\ Laid(f, longer, t) /\ Len(s) \in Nat /\ Len(s) <= Len(t)
         /\ \A n \in 0..Len(s) : \A held, lines :
              Taken(f, plains, s, n, held, lines) => Taken(f, longer, t, n, held, lines)
<1> DEFINE N == Len(plains)
           ends == EndsOf(plains)
           more == EndsOf(longer)
           w == Wired(f, p)
<1>1. /\ N \in Nat /\ Len(s) \in Nat /\ ends[0] = 0 /\ s \in Seq(Byte) /\ Len(s) = ends[N]
      /\ \A k \in 0..N : ends[k] \in Nat /\ ends[k] <= Len(s)
      /\ \A k \in 1..N : /\ ends[k] = ends[k - 1] + Len(plains[k])
                         /\ Len(plains[k]) \in Nat /\ Len(plains[k]) >= 3
  <2>1. s \in Seq(Byte) /\ Len(s) = ends[N]
    BY DEF Laid
  <2>2. /\ N \in Nat /\ Len(s) \in Nat /\ ends[0] = 0
        /\ \A k \in 0..N : ends[k] \in Nat /\ ends[k] <= Len(s)
        /\ \A k \in 1..N : /\ ends[k] = ends[k - 1] + Len(plains[k])
                           /\ Len(plains[k]) \in Nat /\ Len(plains[k]) >= 3
    BY LaidSized
  <2>. QED
    BY <2>1, <2>2
<1>2. w \in Seq(Byte) /\ Len(w) = Len(p) /\ Len(p) \in Nat /\ Len(p) >= 3
  <2>1. /\ w \in Seq(Byte) /\ Len(w) = Len(p) /\ Len(p) \in Nat
        /\ Len(p) >= (IF f = "login" THEN 3 ELSE 8)
    BY WholeParts
  <2>. QED
    BY <2>1
<1>3. /\ Len(longer) = N + 1 /\ longer[N + 1] = p /\ \A k \in 1..N : longer[k] = plains[k]
      /\ t = s \o w
  BY DEF Extends
<1>. HIDE DEF N, ends, more, w
<1>4. \A k \in 1..(N + 1) : k \in 1..N \/ k = N + 1
  BY <1>1
<1>5. \A k \in 1..(N + 1) : Len(longer[k]) \in Nat /\ Whole(f, longer[k])
  BY <1>1, <1>2, <1>3, <1>4 DEF Laid, N
<1>6. /\ more[0] = 0 /\ \A k \in 0..(N + 1) : more[k] \in Nat
      /\ \A k \in 1..(N + 1) : more[k] = more[k - 1] + Len(longer[k])
  <2>1. Sized(longer)
    BY <1>1, <1>3, <1>5 DEF Sized
  <2>. QED
    BY <1>3, <2>1, EndsAdvance DEF more
<1>7. \A k \in 0..N : more[k] = ends[k]
  <2> DEFINE Good == {k \in Nat : k <= N => more[k] = ends[k]}
  <2>1. 0 \in Good
    BY <1>1, <1>6
  <2>2. ASSUME NEW k \in Nat, k \in Good PROVE k + 1 \in Good
    <3>. SUFFICES ASSUME k + 1 <= N PROVE more[k + 1] = ends[k + 1]
      OBVIOUS
    <3> DEFINE i == k + 1
    <3>1. i \in 1..N /\ i \in 1..(N + 1) /\ i - 1 = k /\ more[k] = ends[k]
      BY <1>1, <2>2
    <3>. HIDE DEF i
    <3>2. more[i] = ends[i]
      BY <1>1, <1>3, <1>6, <3>1
    <3>. QED
      BY <3>2 DEF i
  <2>3. Nat \subseteq Good
    <3>. HIDE DEF Good
    <3>. QED
      BY <2>1, <2>2, NatSetInduction
  <2>. QED
    BY <1>1, <2>3
<1>8. more[N + 1] = Len(s) + Len(p)
  <2>1. N + 1 \in 1..(N + 1) /\ (N + 1) - 1 = N /\ N \in 0..N
    BY <1>1
  <2>. QED
    BY <1>1, <1>3, <1>6, <1>7, <2>1
<1>9. /\ t \in Seq(Byte) /\ Len(t) = Len(s) + Len(p)
      /\ \A i \in 1..Len(s) : t[i] = s[i]
      /\ \A i \in 1..Len(p) : t[i + Len(s)] = w[i]
  <2>1. t \in Seq(Byte)
    BY <1>1, <1>2, <1>3, ConcatProperties
  <2>2. /\ Len(s \o w) = Len(s) + Len(w)
        /\ \A i \in 1..Len(s) : (s \o w)[i] = s[i]
        /\ \A i \in 1..Len(w) : (s \o w)[i + Len(s)] = w[i]
    BY <1>1, <1>2, BytesJoined
  <2>. QED
    BY <1>2, <1>3, <2>1, <2>2
<1>10. ASSUME NEW k \in 1..(N + 1), NEW j \in 1..Len(longer[k])
       PROVE  t[more[k - 1] + j] = Wired(f, longer[k])[j]
  <2>1. CASE k \in 1..N
    <3>1. k - 1 \in 0..N /\ more[k - 1] = ends[k - 1] /\ longer[k] = plains[k]
      BY <1>1, <1>3, <1>7, <2>1
    <3>2. s[ends[k - 1] + j] = Wired(f, plains[k])[j]
      BY <2>1, <3>1 DEF Laid, N, ends
    <3>3. ends[k - 1] + j \in 1..Len(s)
      <4>1. /\ ends[k] = ends[k - 1] + Len(plains[k]) /\ ends[k] <= Len(s) /\ ends[k - 1] \in Nat
            /\ Len(plains[k]) \in Nat /\ j \in 1..Len(plains[k])
        BY <1>1, <2>1, <3>1
      <4>. QED
        BY <1>1, <4>1, SMTT(60)
    <3>. QED
      BY <1>9, <3>1, <3>2, <3>3
  <2>2. CASE k = N + 1
    <3>1. k - 1 = N /\ N \in 0..N /\ more[k - 1] = Len(s) /\ longer[k] = p
      BY <1>1, <1>3, <1>7, <2>2
    <3>2. t[j + Len(s)] = w[j]
      BY <1>9, <3>1
    <3>3. Len(s) + j = j + Len(s)
      BY <1>1, <1>2, <3>1
    <3>. QED
      BY <3>1, <3>2, <3>3 DEF w
  <2>. QED
    BY <1>4, <2>1, <2>2
<1>11. Laid(f, longer, t)
  <2>1. Len(longer) \in Nat
    BY <1>1, <1>3
  <2>. QED
    BY <1>3, <1>5, <1>8, <1>9, <1>10, <2>1 DEF Laid, more
<1>12. ASSUME NEW n \in 0..Len(s), NEW held, NEW lines, Taken(f, plains, s, n, held, lines)
       PROVE  Taken(f, longer, t, n, held, lines)
  <2>1. PICK k \in 0..N :
          /\ Passed(plains, n, k) /\ Stretch(held, s, ends[k], n)
          /\ lines \in Seq(Seq(Byte)) /\ Len(lines) = k
          /\ \A i \in 1..k : Told(f, lines[i], plains[i])
    BY <1>12 DEF Taken, N, ends
  <2>2. more[k] = ends[k] /\ ends[k] \in Nat /\ ends[k] <= n /\ (k < N => n < ends[k + 1])
    BY <1>1, <1>7, <2>1 DEF Passed, N, ends
  <2>3. k + 1 \in 0..(N + 1) /\ k \in 0..(N + 1) /\ n < more[k + 1]
    <3>1. CASE k < N
      <4>1. k + 1 \in 0..N
        BY <1>1, <3>1
      <4>. QED
        BY <1>1, <1>7, <2>2, <3>1, <4>1
    <3>2. CASE ~(k < N)
      <4>1. k = N
        BY <1>1, <3>2
      <4>. QED
        BY <1>1, <1>2, <1>8, <4>1
    <3>. QED
      BY <3>1, <3>2
  <2>4. Passed(longer, n, k)
    BY <1>3, <2>2, <2>3 DEF Passed, more
  <2>5. Stretch(held, t, more[k], n)
    <3>1. held \in Seq(Byte) /\ Len(held) = n - ends[k] /\ \A j \in 1..Len(held) : held[j] = s[ends[k] + j]
      BY <2>1 DEF Stretch
    <3>2. ASSUME NEW j \in 1..Len(held) PROVE ends[k] + j \in 1..Len(s)
      <4> DEFINE x == ends[k]   h == Len(held)   g == Len(s)
      <4>1. x \in Nat /\ g \in Nat /\ n \in 0..g /\ h = n - x /\ j \in 1..h
        BY <1>1, <2>2, <3>1
      <4>. HIDE DEF x, h, g
      <4>2. x + j \in 1..g
        BY <4>1
      <4>. QED
        BY <4>2 DEF x, g
    <3>. QED
      BY <1>9, <2>2, <3>1, <3>2 DEF Stretch
  <2>6. \A i \in 1..k : longer[i] = plains[i]
    <3>. TAKE i \in 1..k
    <3>1. i \in 1..N
      BY <1>1
    <3>. QED
      BY <1>3, <3>1
  <2>7. Stretch(held, t, EndsOf(longer)[k], n) /\ k \in 0..Len(longer)
    BY <1>3, <2>3, <2>5 DEF more
  <2>. QED
    BY <2>1, <2>4, <2>6, <2>7 DEF Taken
<1>13. Len(s) <= Len(t)
  BY <1>1, <1>2, <1>9
<1>. QED
  BY <1>1, <1>11, <1>12, <1>13

(* No frame, no byte.                                                      *)
LEMMA NothingLaid ==
  ASSUME NEW f, NEW plains, Len(plains) = 0
  PROVE  Laid(f, plains, <<>>)
<1>1. Sized(plains) /\ Len(plains) \in Nat /\ 1..0 = {}
  BY DEF Sized
<1>2. EndsOf(plains)[0] = 0
  BY <1>1, EndsAdvance
<1>3. <<>> \in Seq(Byte) /\ Len(<<>>) = 0
  BY EmptySeq
<1>. QED
  BY <1>1, <1>2, <1>3 DEF Laid

(* The recursion of FlattenSeq has a value.                                *)
LEMMA FlattenRuns ==
  ASSUME NEW n \in Nat, NEW plains
  PROVE  \E g : /\ g = [i \in 1..n |-> g[i]]
                /\ \A i \in 1..n : g[i] = IF i = 1 THEN plains[i] ELSE g[i - 1] \o plains[i]
<1> DEFINE Step(g, i) == g[i] = IF i = 1 THEN plains[i] ELSE g[i - 1] \o plains[i]
           Good == {m \in Nat : \E g : g = [i \in 1..m |-> g[i]] /\ \A i \in 1..m : Step(g, i)}
<1>1. 0 \in Good
  <2> DEFINE g == [i \in 1..0 |-> 0]
  <2>1. g = [i \in 1..0 |-> g[i]] /\ \A i \in 1..0 : Step(g, i)
    OBVIOUS
  <2>. QED
    BY <2>1
<1>2. ASSUME NEW m \in Nat, m \in Good PROVE m + 1 \in Good
  <2>1. PICK g : g = [i \in 1..m |-> g[i]] /\ \A i \in 1..m : Step(g, i)
    BY <1>2, Zenon
  <2> DEFINE new == IF m + 1 = 1 THEN plains[m + 1] ELSE g[m] \o plains[m + 1]
             h == [i \in 1..(m + 1) |-> IF i = m + 1 THEN new ELSE g[i]]
  <2>. HIDE DEF new
  <2>2. h = [i \in 1..(m + 1) |-> h[i]]
    OBVIOUS
  <2>3. ASSUME NEW i \in 1..(m + 1) PROVE Step(h, i)
    <3>1. CASE i = m + 1
      <4>1. i # 1 => i - 1 = m /\ m \in 1..(m + 1) /\ m # m + 1
        BY <3>1
      <4>2. h[i] = new /\ (i # 1 => h[i - 1] = g[m])
        BY <3>1, <4>1
      <4>. HIDE DEF h
      <4>. QED
        BY <3>1, <4>2 DEF new
    <3>2. CASE i # m + 1
      <4>1. i \in 1..m /\ (i # 1 => i - 1 \in 1..(m + 1) /\ i - 1 # m + 1)
        BY <3>2
      <4>2. h[i] = g[i] /\ (i # 1 => h[i - 1] = g[i - 1])
        BY <3>2, <4>1
      <4>. HIDE DEF h
      <4>3. Step(g, i)
        BY <2>1, <4>1
      <4>. QED
        BY <4>2, <4>3
    <3>. QED
      BY <3>1, <3>2
  <2>. HIDE DEF h
  <2>4. \E q : q = [i \in 1..(m + 1) |-> q[i]] /\ \A i \in 1..(m + 1) : Step(q, i)
    BY <2>2, <2>3
  <2>5. m + 1 \in Nat
    OBVIOUS
  <2>. HIDE DEF Step
  <2>. QED
    BY <2>4, <2>5
<1>3. n \in Good
  <2>1. Nat \subseteq Good
    <3>. HIDE DEF Good
    <3>. QED
      BY <1>1, <1>2, NatSetInduction
  <2>. QED
    BY <2>1
<1>. QED
  BY <1>3, Zenon

(* The login frames stand one behind the other in the login's bytes.       *)
LEMMA FlattenLaid ==
  ASSUME NEW plains \in Seq(Seq(Byte)), \A k \in 1..Len(plains) : Whole("login", plains[k])
  PROVE  Laid("login", plains, FlattenSeq(plains))
<1> DEFINE n == Len(plains)
<1>1. n \in Nat
  BY LenProperties
<1>2. CASE n = 0
  <2>1. plains = <<>>
    BY <1>2, EmptySeq
  <2>2. FlattenSeq(plains) = <<>>
    BY <1>2, <2>1 DEF FlattenSeq
  <2>. QED
    BY <1>2, <2>2, NothingLaid
<1>3. CASE n # 0
  <2> DEFINE flat[i \in 1..n] == IF i = 1 THEN plains[i] ELSE flat[i - 1] \o plains[i]
             Firsts(i) == [k \in 1..i |-> plains[k]]
  <2>1. /\ FlattenSeq(plains) = flat[n]
        /\ \A i \in 1..n : flat[i] = IF i = 1 THEN plains[i] ELSE flat[i - 1] \o plains[i]
    <3>1. FlattenSeq(plains) = flat[n]
      BY <1>3 DEF FlattenSeq
    <3>2. \E g : /\ g = [i \in 1..n |-> g[i]]
                 /\ \A i \in 1..n : g[i] = IF i = 1 THEN plains[i] ELSE g[i - 1] \o plains[i]
      BY <1>1, FlattenRuns, ZenonT(60)
    <3>3. \E g : g = [i \in 1..n |-> IF i = 1 THEN plains[i] ELSE g[i - 1] \o plains[i]]
      BY <3>2, ZenonT(60)
    <3>4. flat = [i \in 1..n |-> IF i = 1 THEN plains[i] ELSE flat[i - 1] \o plains[i]]
      BY <3>3, Zenon
    <3>. HIDE DEF flat
    <3>. QED
      BY <3>1, <3>4
  <2>. HIDE DEF flat
  <2>2. ASSUME NEW i \in 0..n
        PROVE  Len(Firsts(i)) = i /\ \A k \in 1..i : Firsts(i)[k] = plains[k]
    <3>1. Firsts(i) \in Seq(Seq(Byte)) /\ DOMAIN Firsts(i) = 1..i
      <4>1. \A k \in 1..i : plains[k] \in Seq(Byte)
        BY <1>1, ElementOfSeq
      <4>. QED
        BY <1>1, <4>1, IsASeq
    <3>2. Len(Firsts(i)) = i
      BY <1>1, <3>1, LenProperties
    <3>. QED
      BY <3>2
  <2>. HIDE DEF Firsts
  <2>3. ASSUME NEW i \in 1..n, NEW s, Laid("login", Firsts(i - 1), s)
        PROVE  Laid("login", Firsts(i), s \o plains[i])
    <3> DEFINE short == Firsts(i - 1)   long == Firsts(i)   p == plains[i]
    <3>1. /\ i - 1 \in 0..n /\ i \in 0..n /\ (i - 1) + 1 = i /\ Whole("login", p)
          /\ \A k \in 1..(i - 1) : k \in 1..i
      BY <1>1
    <3>2. /\ Len(short) = i - 1 /\ Len(long) = i /\ long[i] = p
          /\ \A k \in 1..(i - 1) : short[k] = plains[k] /\ long[k] = plains[k]
      <4>1. i \in 1..i
        OBVIOUS
      <4>. QED
        BY <2>2, <3>1, <4>1
    <3>3. Extends(long, short, p)
      BY <3>1, <3>2 DEF Extends
    <3>4. s \o p = s \o Wired("login", p)
      BY DEF Wired
    <3>5. Laid("login", short, s)
      BY <2>3
    <3>. HIDE DEF short, long, p
    <3>6. Laid("login", long, s \o p)
      BY <3>1, <3>3, <3>4, <3>5, OneMore
    <3>. QED
      BY <3>6 DEF long, p
  <2> DEFINE Good == {i \in Nat : i + 1 <= n => Laid("login", Firsts(i + 1), flat[i + 1])}
  <2>4. 0 \in Good
    <3>1. 1 \in 1..n /\ 1 - 1 = 0 /\ 0 \in 0..n /\ 0 + 1 = 1
      BY <1>1, <1>3
    <3>2. Laid("login", Firsts(1 - 1), <<>>)
      BY <2>2, <3>1, NothingLaid
    <3>3. <<>> \o plains[1] = plains[1] /\ flat[1] = plains[1]
      <4>1. plains[1] \in Seq(Byte)
        BY <1>1, <3>1, ElementOfSeq
      <4>. QED
        BY <2>1, <3>1, <4>1, ConcatEmptySeq
    <3>4. Laid("login", Firsts(1), <<>> \o plains[1])
      BY <2>3, <3>1, <3>2
    <3>. QED
      BY <3>1, <3>3, <3>4
  <2>5. ASSUME NEW i \in Nat, i \in Good PROVE i + 1 \in Good
    <3>. SUFFICES ASSUME (i + 1) + 1 <= n PROVE Laid("login", Firsts((i + 1) + 1), flat[(i + 1) + 1])
      OBVIOUS
    <3> DEFINE j == (i + 1) + 1
    <3>1. j \in 1..n /\ j # 1 /\ j - 1 = i + 1 /\ i + 1 <= n
      BY <1>1
    <3>2. Laid("login", Firsts(i + 1), flat[i + 1])
      BY <2>5, <3>1
    <3>. HIDE DEF j
    <3>3. flat[j] = flat[i + 1] \o plains[j]
      BY <2>1, <3>1
    <3>4. Laid("login", Firsts(j), flat[i + 1] \o plains[j])
      BY <2>3, <3>1, <3>2
    <3>. QED
      BY <3>3, <3>4 DEF j
  <2>6. n - 1 \in Good
    <3>1. Nat \subseteq Good
      <4>. HIDE DEF Good
      <4>. QED
        BY <2>4, <2>5, NatSetInduction
    <3>2. n - 1 \in Nat
      BY <1>1, <1>3
    <3>. QED
      BY <3>1, <3>2
  <2>7. Laid("login", Firsts(n), flat[n])
    <3>1. (n - 1) + 1 = n
      BY <1>1
    <3>. QED
      BY <1>1, <2>6, <3>1
  <2>8. Firsts(n) = plains
    BY <1>1, LenProperties DEF Firsts
  <2>. QED
    BY <2>1, <2>7, <2>8
<1>. QED
  BY <1>2, <1>3

-----------------------------------------------------------------------------
(* What the recorder has of a flow, and how the steps keep it.             *)
FlowIs(f, plains, s, n, unharmed, held, lines) ==
  /\ Laid(f, plains, s) /\ n \in 0..Len(s)
  /\ unharmed => Taken(f, plains, s, n, held, lines)

FlowInv(f) == FlowIs(f, Meant(f), Stream(f), pos[f], clean[f], seg[f], net[f])

FlowsInv ==
  /\ WorldFramed /\ FramesFit
  /\ DOMAIN pos = Flows /\ DOMAIN clean = Flows /\ DOMAIN seg = Flows /\ DOMAIN net = Flows
  /\ \A f \in Flows : FlowInv(f)

LEMMA FlowStarts ==
  ASSUME NEW f, NEW plains, NEW s, Laid(f, plains, s), NEW unharmed
  PROVE  FlowIs(f, plains, s, 0, unharmed, <<>>, <<>>)
<1>1. 0 \in 0..Len(s)
  BY LaidSized
<1>. QED
  BY <1>1, TakenAtStart DEF FlowIs

(* A frame is added to the flow.                                           *)
LEMMA FlowGrows ==
  ASSUME NEW f, NEW plains, NEW s, NEW n, NEW unharmed, NEW held, NEW lines,
         FlowIs(f, plains, s, n, unharmed, held, lines), NEW p, Whole(f, p),
         NEW longer, Extends(longer, plains, p),
         NEW t, t = s \o Wired(f, p)
  PROVE  FlowIs(f, longer, t, n, unharmed, held, lines)
<1>1. Laid(f, plains, s) /\ n \in 0..Len(s) /\ (unharmed => Taken(f, plains, s, n, held, lines))
  BY DEF FlowIs
<1>2. /\ Laid(f, longer, t) /\ Len(s) \in Nat /\ Len(s) <= Len(t)
      /\ Taken(f, plains, s, n, held, lines) => Taken(f, longer, t, n, held, lines)
  <2>1. /\ Laid(f, longer, t) /\ Len(s) \in Nat /\ Len(s) <= Len(t)
        /\ \A i \in 0..Len(s) : \A h, x :
             Taken(f, plains, s, i, h, x) => Taken(f, longer, t, i, h, x)
    BY <1>1, OneMore
  <2>. QED
    BY <1>1, <2>1
<1>3. n \in 0..Len(t)
  <2>1. Len(t) \in Nat
    BY <1>2, LaidSized
  <2>. QED
    BY <1>1, <1>2, <2>1
<1>. QED
  BY <1>1, <1>2, <1>3 DEF FlowIs

(* The capture has lost count of the flow.                                 *)
LEMMA FlowHarmed ==
  ASSUME NEW f, NEW plains, NEW s, Laid(f, plains, s), NEW n \in 0..Len(s),
         NEW held, NEW lines
  PROVE  FlowIs(f, plains, s, n, FALSE, held, lines)
BY DEF FlowIs

(* A packet is its payload again when the padding is cut off.              *)
LEMMA PaddingOff ==
  ASSUME NEW s \in Seq(Byte)
  PROVE  TcpPayload(Captured(s)) = s
<1> DEFINE n == Len(s)
           z == [i \in 1..(IF n < 6 THEN 6 - n ELSE 0) |-> 0]
           d == s \o z
<1>1. n \in Nat
  BY LenProperties
<1>. HIDE DEF n
<1>2. z \in Seq(Byte) /\ Len(z) \in Nat
  <2>1. (IF n < 6 THEN 6 - n ELSE 0) \in Nat /\ 0 \in Byte
    BY <1>1 DEF Byte
  <2>. QED
    BY <2>1, IsASeq, LenProperties
<1>. HIDE DEF z
<1>3. d \in Seq(Byte) /\ Len(d) = n + Len(z) /\ \A i \in 1..n : d[i] = s[i]
  BY <1>2, BytesJoined, ConcatProperties DEF n
<1>4. Captured(s) = [length |-> n, data |-> d]
  BY DEF Captured, n, z
<1>. HIDE DEF d
<1>5. Min({n, Len(d)}) = n
  <2>1. Len(d) \in Nat /\ n <= Len(d)
    BY <1>1, <1>2, <1>3
  <2>. QED
    BY <1>1, <2>1, MinOfTwo
<1>6. TcpPayload(Captured(s)) = SubSeq(d, 1, n)
  <2>1. Captured(s).length = n /\ Captured(s).data = d
    BY <1>4
  <2>2. TcpPayload(Captured(s)) = SubSeq(Captured(s).data, 1, Min({Captured(s).length, Len(Captured(s).data)}))
    BY DEF TcpPayload
  <2>. QED
    BY <1>5, <2>1, <2>2
<1>7. SubSeq(d, 1, n) \in Seq(Byte) /\ Len(SubSeq(d, 1, n)) = n /\ \A i \in 1..n : SubSeq(d, 1, n)[i] = d[i]
  <2>1. 0 + n <= Len(d) /\ d \in Seq(Byte) /\ n \in Nat /\ 0 \in Nat /\ 0 + 1 = 1 /\ 0 + n = n
    BY <1>1, <1>2, <1>3
  <2>2. LET u == SubSeq(d, 0 + 1, 0 + n)
        IN  u \in Seq(Byte) /\ Len(u) = n /\ \A i \in 1..n : u[i] = d[i + 0]
    BY <2>1, PieceOf
  <2>3. SubSeq(d, 0 + 1, 0 + n) = SubSeq(d, 1, n)
    BY <2>1
  <2>4. \A i \in 1..n : i + 0 = i
    BY <1>1
  <2>. QED
    BY <2>2, <2>3, <2>4
<1> DEFINE u == SubSeq(d, 1, n)
<1>8. u \in Seq(Byte) /\ Len(u) = n /\ \A i \in 1..n : u[i] = s[i]
  BY <1>3, <1>7
<1>. HIDE DEF u
<1>9. u = s
  <2>1. s \in Seq(Byte) /\ Len(s) = n
    BY DEF n
  <2>. QED
    BY <1>8, <2>1, SeqEqual
<1>. QED
  BY <1>6, <1>9 DEF u

(* A segment is the next stretch of its flow.                              *)
LEMMA SegmentIs ==
  ASSUME NEW f \in Flows, Stream(f) \in Seq(Byte), pos[f] \in Nat, pos[f] < Len(Stream(f))
  PROVE  /\ Len(Segment(f)) \in Nat /\ pos[f] + Len(Segment(f)) <= Len(Stream(f))
         /\ Stretch(Segment(f), Stream(f), pos[f], pos[f] + Len(Segment(f)))
<1> DEFINE a == pos[f]
           s == Stream(f)
           z == SegmentSize[f]
           n == Min({a + z, Len(s)}) - a
           u == SubSeq(s, a + 1, a + n)
<1>1. a \in Nat /\ z \in Nat \ {0} /\ a < Len(s) /\ Len(s) \in Nat /\ s \in Seq(Byte)
  BY LinkAssumption, LenProperties
<1>. HIDE DEF a, s, z
<1>2. n \in Nat /\ a + n <= Len(s) /\ Min({a + z, Len(s)}) = a + n
  <2>1. Min({a + z, Len(s)}) = IF a + z <= Len(s) THEN a + z ELSE Len(s)
    BY <1>1, MinOfTwo
  <2>. QED
    BY <1>1, <2>1
<1>3. Segment(f) = u
  BY <1>2 DEF Segment, a, s, z
<1>. HIDE DEF n
<1>4. u \in Seq(Byte) /\ Len(u) = n /\ \A i \in 1..n : u[i] = s[i + a]
  <2>1. LET t == SubSeq(s, a + 1, a + n)
        IN  t \in Seq(Byte) /\ Len(t) = n /\ \A i \in 1..n : t[i] = s[i + a]
    BY <1>1, <1>2, PieceOf
  <2>. QED
    BY <2>1
<1>. HIDE DEF u
<1>5. Len(u) = (a + n) - a /\ \A i \in 1..n : i + a = a + i
  BY <1>1, <1>2, <1>4
<1>6. Stretch(u, s, a, a + n)
  BY <1>4, <1>5 DEF Stretch
<1>. QED
  BY <1>2, <1>3, <1>4, <1>6 DEF a, s

(* The recorder takes the segment in.                                      *)
LEMMA FlowTransmits ==
  ASSUME FlowsInv, NEW f \in Flows, Transmit(f)
  PROVE  /\ FlowIs(f, Meant(f), Stream(f), pos'[f], clean[f], seg'[f], net'[f])
         /\ DOMAIN seg' = Flows /\ DOMAIN net' = Flows
         /\ \A g \in Flows \ {f} : seg'[g] = seg[g] /\ net'[g] = net[g]
<1> DEFINE s == Stream(f)
           u == Segment(f)
           a == pos[f]
           b == a + Len(u)
           all == seg[f] \o u
           cut == CutOf(f, all)
<1>1. FlowIs(f, Meant(f), s, a, clean[f], seg[f], net[f])
  BY DEF FlowsInv, FlowInv
<1>2. /\ Laid(f, Meant(f), s) /\ a \in Nat /\ a < Len(s) /\ s \in Seq(Byte) /\ Len(s) \in Nat
      /\ clean[f] => Taken(f, Meant(f), s, a, seg[f], net[f])
  <2>1. Laid(f, Meant(f), s) /\ a \in 0..Len(s)
    BY <1>1 DEF FlowIs
  <2>2. s \in Seq(Byte) /\ Len(s) \in Nat
    BY <2>1, LenProperties DEF Laid
  <2>3. a < Len(s)
    BY DEF Transmit, Sendable
  <2>. QED
    BY <1>1, <2>1, <2>2, <2>3 DEF FlowIs
<1>3. Len(u) \in Nat /\ b <= Len(s) /\ Stretch(u, s, a, b) /\ u \in Seq(Byte)
  <2>1. Len(u) \in Nat /\ b <= Len(s) /\ Stretch(u, s, a, b)
    BY <1>2, SegmentIs
  <2>. QED
    BY <2>1 DEF Stretch
<1>4. b \in 0..Len(s) /\ a <= b
  BY <1>2, <1>3
<1>5. pos'[f] = b
  BY DEF Transmit, Arrives, FlowsInv
<1>6. TcpPayload(Captured(u)) = u
  BY <1>3, PaddingOff
<1>7. (FlowPort[f] = "18123" <=> f # "login")
      /\ cut = (IF FlowPort[f] = "18123" THEN CutCipher(all) ELSE CutPlain(all))
  BY LinkAssumption DEF CutOf
<1> DEFINE over == FlowPort[f] = "18123" /\ Len(all) - cut.at > MaxCipherBuf /\ ~warned[f]
<1>8. /\ seg' = [seg EXCEPT ![f] = IF over THEN <<>> ELSE SubSeq(all, cut.at + 1, Len(all))]
      /\ net' = [net EXCEPT ![f] = @ \o cut.plain]
  <2>. HIDE DEF cut, all, u
  <2>1. Observe(f, Captured(u))
    BY DEF Transmit, u
  <2>2. all = seg[f] \o TcpPayload(Captured(u))
    BY <1>6 DEF all
  <2>. QED
    BY <1>7, <2>1, <2>2 DEF Observe
<1>. HIDE DEF cut, all, u, s, a, b
<1>9. /\ DOMAIN seg' = Flows /\ DOMAIN net' = Flows
      /\ \A g \in Flows \ {f} : seg'[g] = seg[g] /\ net'[g] = net[g]
      /\ net'[f] = net[f] \o cut.plain
      /\ ~over => seg'[f] = SubSeq(all, cut.at + 1, Len(all))
  <2>1. DOMAIN seg = Flows /\ DOMAIN net = Flows
    BY DEF FlowsInv
  <2>. HIDE DEF over
  <2>. QED
    BY <1>8, <2>1
<1>10. ASSUME clean[f] PROVE Taken(f, Meant(f), s, b, seg'[f], net'[f])
  <2> DEFINE plains == Meant(f)   held == seg[f]   lines == net[f]
  <2>1. Laid(f, plains, s) /\ Taken(f, plains, s, a, held, lines) /\ all = held \o u
    BY <1>2, <1>10 DEF all
  <2>. HIDE DEF plains, held, lines
  <2>2. /\ f # "login" => ~(Len(all) - CutOf(f, all).at > MaxCipherBuf)
        /\ Taken(f, plains, s, b, SubSeq(all, CutOf(f, all).at + 1, Len(all)),
                 lines \o CutOf(f, all).plain)
    BY <1>2, <1>3, <1>4, <2>1, TakenMore
  <2>3. ~over
    BY <1>7, <2>2 DEF cut
  <2>. QED
    BY <1>9, <2>2, <2>3 DEF cut, plains, lines
<1>. QED
  BY <1>2, <1>4, <1>5, <1>9, <1>10 DEF FlowIs, s

-----------------------------------------------------------------------------
LEMMA FlowsInvInit == Init /\ Recordable => FlowsInv
<1>. SUFFICES ASSUME Init, Recordable PROVE FlowsInv
  OBVIOUS
<1>1. /\ login = LoginFrames /\ wire = FlattenSeq(login) /\ out = <<>> /\ cout = <<>>
      /\ sent = <<>> /\ spoken = 0
      /\ pos = [f \in Flows |-> 0] /\ clean = [f \in Flows |-> TRUE]
      /\ seg = [f \in Flows |-> <<>>] /\ net = [f \in Flows |-> <<>>]
  BY DEF Init, KeepAliveInit, FlowInit
<1>2. Laid("login", Meant("login"), Stream("login"))
  <2>1. /\ login \in Seq(Seq(Byte))
        /\ \A k \in 1..Len(login) : Len(login[k]) = Len16(login[k]) + 2 /\ Len(login[k]) >= 3
    BY DEF Recordable, LoginFramed
  <2>2. \A k \in 1..Len(login) : login[k] \in Seq(Byte)
    BY <2>1, ElementOfSeq
  <2>3. \A k \in 1..Len(login) : Whole("login", login[k])
    BY <2>1, <2>2 DEF Whole
  <2>4. Laid("login", login, FlattenSeq(login))
    BY <2>1, <2>3, FlattenLaid
  <2>. QED
    BY <1>1, <2>4 DEF Meant, Stream
<1>3. Laid("s2c", Meant("s2c"), Stream("s2c"))
  <2>1. Meant("s2c") = [i \in 1..0 |-> sent[i].plain] /\ Stream("s2c") = <<>>
    BY <1>1 DEF Meant, Stream
  <2>2. [i \in 1..0 |-> sent[i].plain] = <<>> /\ Len(<<>>) = 0
    BY EmptySeq
  <2>. QED
    BY <2>1, <2>2, NothingLaid
<1>4. Laid("c2s", Meant("c2s"), Stream("c2s"))
  <2>1. Meant("c2s") = SubSeq(ClientScript, 1, 0) /\ Stream("c2s") = <<>>
    BY <1>1 DEF Meant, Stream
  <2>2. Len(SubSeq(ClientScript, 1, 0)) = 0
    BY ScriptAssumption, ScriptLength
  <2>. QED
    BY <2>1, <2>2, NothingLaid
<1>5. \A f \in Flows : f = "login" \/ f = "s2c" \/ f = "c2s"
  BY LinkAssumption
<1>6. ASSUME NEW f \in Flows PROVE FlowInv(f)
  <2>1. pos[f] = 0 /\ seg[f] = <<>> /\ net[f] = <<>>
    BY <1>1
  <2>2. Laid(f, Meant(f), Stream(f))
    BY <1>2, <1>3, <1>4, <1>5
  <2>3. FlowIs(f, Meant(f), Stream(f), 0, clean[f], <<>>, <<>>)
    BY <2>2, FlowStarts
  <2>. QED
    BY <2>1, <2>3 DEF FlowInv
<1>7. DOMAIN pos = Flows /\ DOMAIN clean = Flows /\ DOMAIN seg = Flows /\ DOMAIN net = Flows
  BY <1>1
<1>. QED
  BY <1>6, <1>7 DEF FlowsInv, Recordable

LEMMA FlowSame ==
  ASSUME NEW f, FlowInv(f), UNCHANGED <<Meant(f), Stream(f)>>,
         pos'[f] = pos[f], clean'[f] = clean[f], seg'[f] = seg[f], net'[f] = net[f]
  PROVE  FlowInv(f)'
BY DEF FlowInv

LEMMA ShapesKept ==
  ASSUME WorldFramed, FramesFit, UNCHANGED queues
  PROVE  WorldFramed' /\ FramesFit'
<1>1. FromServer' = FromServer /\ \A i : Recorded(i)' = Recorded(i)
  BY DEF FromServer, Recorded
<1>. QED
  BY <1>1 DEF WorldFramed, FramesFit

(* The emulator hands a frame to its socket.                               *)
LEMMA ServerFlowGrows ==
  ASSUME LinkInv, FlowsInv, Push \/ SendEcho, UNCHANGED <<pos, clean, seg, net>>
  PROVE  FlowInv("s2c")'
<1>1. PICK p, what : /\ Framed(p) /\ out' = out \o Pack(p)
                     /\ sent' = Append(sent, [what |-> what, plain |-> p])
                     /\ (Len(p) = 11 \/ \E i \in FromServer : p = Recorded(i).payload)
  <2>1. WorldFramed
    BY DEF FlowsInv
  <2>. QED
    BY <2>1, HandsOneFrame
<1>2. Whole("s2c", p)
  <2>1. p \in Seq(Byte) /\ Len(p) = Len16(p) + 2
    BY <1>1, FramedParts
  <2>2. Len(p) <= MaxCipherBuf + 1
    BY <1>1 DEF FlowsInv, FramesFit
  <2>. QED
    BY <1>1, <2>1, <2>2 DEF Whole
<1> DEFINE n == Len(sent)
           plains == Meant("s2c")
           longer == Meant("s2c")'
<1>3. /\ n \in Nat /\ Len(sent') = n + 1 /\ sent'[n + 1].plain = p
      /\ \A i \in 1..n : sent'[i] = sent[i]
  <2>1. sent \in Seq({sent[i] : i \in DOMAIN sent})
    BY DEF LinkInv, HandlerInv
  <2>2. /\ Len(sent) \in Nat /\ Len(sent') = Len(sent) + 1
        /\ sent'[Len(sent) + 1] = [what |-> what, plain |-> p]
        /\ \A i \in 1..Len(sent) : sent'[i] = sent[i]
    BY <1>1, <2>1, AppendAny
  <2>. QED
    BY <2>2
<1>. HIDE DEF n
<1>4. /\ plains = [i \in 1..n |-> sent[i].plain]
      /\ longer = [i \in 1..(n + 1) |-> sent'[i].plain]
  <2>1. plains = [i \in 1..Len(sent) |-> sent[i].plain]
    BY DEF Meant
  <2>2. longer = [i \in 1..Len(sent') |-> sent'[i].plain]
    BY DEF Meant
  <2>. QED
    BY <1>3, <2>1, <2>2 DEF n
<1>5. \A m \in Nat : \A x : Len([i \in 1..m |-> x[i].plain]) = m
  <2>. TAKE m \in Nat
  <2>. TAKE x
  <2> DEFINE h == [i \in 1..m |-> x[i].plain]
  <2>1. h \in Seq({x[i].plain : i \in 1..m}) /\ DOMAIN h = 1..m
    BY IsASeq
  <2>. HIDE DEF h
  <2>2. Len(h) = m
    BY <2>1, LenProperties
  <2>. QED
    BY <2>2 DEF h
<1>6. Len(plains) = n /\ Len(longer) = n + 1
  BY <1>3, <1>4, <1>5
<1>. HIDE DEF plains, longer
<1>7. Extends(longer, plains, p)
  <2>1. n + 1 \in 1..(n + 1) /\ \A i \in 1..n : i \in 1..(n + 1)
    BY <1>3
  <2>. QED
    BY <1>3, <1>4, <1>6, <2>1 DEF Extends
<1>8. /\ FlowIs("s2c", plains, out, pos["s2c"], clean["s2c"], seg["s2c"], net["s2c"])
      /\ out' = out \o Wired("s2c", p)
  <2>1. FlowInv("s2c")
    BY LinkAssumption DEF FlowsInv
  <2>2. Stream("s2c") = out
    BY DEF Stream
  <2>3. Wired("s2c", p) = Pack(p)
    BY DEF Wired
  <2>. QED
    BY <1>1, <2>1, <2>2, <2>3 DEF FlowInv, plains
<1>9. FlowIs("s2c", longer, out', pos["s2c"], clean["s2c"], seg["s2c"], net["s2c"])
  BY <1>2, <1>7, <1>8, FlowGrows
<1>10. Stream("s2c")' = out'
  BY DEF Stream
<1>. QED
  BY <1>9, <1>10 DEF FlowInv, longer

(* The client sends a frame.                                               *)
LEMMA ClientFlowGrows ==
  ASSUME LinkInv, FlowsInv, ClientSends
  PROVE  FlowInv("c2s")'
<1> DEFINE p == ClientScript[spoken + 1]
           plains == SubSeq(ClientScript, 1, spoken)
           longer == SubSeq(ClientScript, 1, spoken + 1)
<1>1. /\ spoken \in Nat /\ spoken + 1 \in 1..Len(ClientScript) /\ spoken' = spoken + 1
      /\ cout' = cout \o Pack(p) /\ UNCHANGED <<pos, clean, seg, net>>
  BY ScriptLength DEF ClientSends, LinkInv, ClientInv, flowVars
<1>2. Whole("c2s", p)
  <2>1. Framed(p) /\ Len(p) <= MaxCipherBuf + 1
    BY <1>1, ScriptFramed DEF FlowsInv, FramesFit
  <2>2. p \in Seq(Byte) /\ Len(p) = Len16(p) + 2
    BY <2>1, FramedParts
  <2>. QED
    BY <2>1, <2>2 DEF Whole
<1>3. \A n \in 0..Len(ClientScript) :
        /\ Len(SubSeq(ClientScript, 1, n)) = n
        /\ \A i \in 1..n : SubSeq(ClientScript, 1, n)[i] = ClientScript[i]
  <2>. TAKE n \in 0..Len(ClientScript)
  <2>1. /\ ClientScript \in Seq(Seq(Byte)) /\ 0 \in Nat /\ n \in Nat /\ 0 + n <= Len(ClientScript)
        /\ 0 + 1 = 1 /\ 0 + n = n /\ \A i \in 1..n : i + 0 = i
    BY ScriptAssumption, ScriptLength
  <2>2. LET t == SubSeq(ClientScript, 0 + 1, 0 + n)
        IN  t \in Seq(Seq(Byte)) /\ Len(t) = n /\ \A i \in 1..n : t[i] = ClientScript[i + 0]
    BY <2>1, PieceOf
  <2>. QED
    BY <2>1, <2>2
<1>4. /\ Len(plains) = spoken /\ Len(longer) = spoken + 1 /\ longer[spoken + 1] = p
      /\ \A i \in 1..spoken : longer[i] = plains[i]
  <2>1. spoken \in 0..Len(ClientScript) /\ spoken + 1 \in 0..Len(ClientScript)
        /\ spoken + 1 \in 1..(spoken + 1) /\ \A i \in 1..spoken : i \in 1..(spoken + 1)
    BY <1>1, ScriptLength
  <2>. QED
    BY <1>3, <2>1
<1>5. Meant("c2s") = plains /\ Meant("c2s")' = longer /\ Stream("c2s") = cout /\ Stream("c2s")' = cout'
  BY <1>1 DEF Meant, Stream
<1>. HIDE DEF p, plains, longer
<1>6. Extends(longer, plains, p)
  BY <1>4 DEF Extends
<1>7. /\ FlowIs("c2s", plains, cout, pos["c2s"], clean["c2s"], seg["c2s"], net["c2s"])
      /\ cout' = cout \o Wired("c2s", p)
  <2>1. FlowInv("c2s")
    BY LinkAssumption DEF FlowsInv
  <2>2. Wired("c2s", p) = Pack(p)
    BY DEF Wired
  <2>. QED
    BY <1>1, <1>5, <2>1, <2>2 DEF FlowInv
<1>8. FlowIs("c2s", longer, cout', pos["c2s"], clean["c2s"], seg["c2s"], net["c2s"])
  BY <1>2, <1>6, <1>7, FlowGrows
<1>. QED
  BY <1>1, <1>5, <1>8 DEF FlowInv

LEMMA MeantSame ==
  UNCHANGED <<login, sent, spoken, wire, out, cout>> =>
    \A f : Meant(f)' = Meant(f) /\ Stream(f)' = Stream(f)
BY DEF Meant, Stream

(* Of the other flows nothing changes.                                     *)
LEMMA OthersKept ==
  ASSUME FlowsInv, WorldFramed', FramesFit', NEW f \in Flows, FlowInv(f)',
         DOMAIN pos' = Flows, DOMAIN clean' = Flows, DOMAIN seg' = Flows, DOMAIN net' = Flows,
         \A g \in Flows \ {f} : /\ pos'[g] = pos[g] /\ clean'[g] = clean[g]
                                /\ seg'[g] = seg[g] /\ net'[g] = net[g]
                                /\ Meant(g)' = Meant(g) /\ Stream(g)' = Stream(g)
  PROVE  FlowsInv'
<1>1. ASSUME NEW g \in Flows PROVE FlowInv(g)'
  <2>1. CASE g = f
    BY <2>1
  <2>2. CASE g # f
    <3>1. FlowInv(g)
      BY DEF FlowsInv
    <3>2. /\ pos'[g] = pos[g] /\ clean'[g] = clean[g] /\ seg'[g] = seg[g] /\ net'[g] = net[g]
          /\ Meant(g)' = Meant(g) /\ Stream(g)' = Stream(g)
      BY <2>2
    <3>. QED
      BY <3>1, <3>2, FlowSame
  <2>. QED
    BY <2>1, <2>2
<1>. QED
  BY <1>1 DEF FlowsInv

LEMMA FlowsInvNext == LinkInv /\ FlowsInv /\ [Next]_vars => FlowsInv'
<1>. SUFFICES ASSUME LinkInv, FlowsInv, [Next]_vars PROVE FlowsInv'
  OBVIOUS
<1>1. /\ DOMAIN pos = Flows /\ DOMAIN clean = Flows /\ DOMAIN seg = Flows /\ DOMAIN net = Flows
      /\ WorldFramed /\ FramesFit
      /\ "s2c" \in Flows /\ "c2s" \in Flows
  BY LinkAssumption DEF FlowsInv
<1>2. UNCHANGED queues => WorldFramed' /\ FramesFit'
  BY <1>1, ShapesKept
<1>3. ASSUME UNCHANGED <<queues, login, sent, spoken, wire, out, cout, pos, clean, seg, net>>
      PROVE  FlowsInv'
  <2>1. \A f \in Flows : FlowInv(f)'
    BY <1>3, MeantSame, FlowSame DEF FlowsInv
  <2>. QED
    BY <1>1, <1>2, <1>3, <2>1 DEF FlowsInv
<1>4. CASE UNCHANGED vars
  BY <1>3, <1>4 DEF vars, worldVars, flowVars, linkVars
<1>5. CASE Emulating
  <2>1. UNCHANGED <<login, spoken, wire, cout, pos, clean, seg, net>>
    BY <1>5 DEF Emulating, flowVars, linkVars
  <2>2. CASE UNCHANGED <<queues, out, sent>>
    BY <1>3, <2>1, <2>2
  <2>3. CASE Push \/ SendEcho
    <3>1. FlowInv("s2c")'
      BY <2>1, <2>3, ServerFlowGrows
    <3>2. UNCHANGED queues
      BY <2>3 DEF Push, SendEcho
    <3>3. \A g \in Flows \ {"s2c"} : Meant(g)' = Meant(g) /\ Stream(g)' = Stream(g)
      BY <2>1, LinkAssumption DEF Meant, Stream
    <3>. QED
      BY <1>1, <1>2, <2>1, <3>1, <3>2, <3>3, OthersKept
  <2>4. UNCHANGED <<queues, out, sent>> \/ Push \/ SendEcho
    BY <1>5 DEF Emulating, Pusher, Handler, Connect, PushFails, PushStopped, PushDone,
                ReadMove, ReadOther, EchoFails, ReadCloses, socketVars
  <2>. QED
    BY <2>2, <2>3, <2>4
<1>6. CASE ClientSends
  <2>1. FlowInv("c2s")'
    BY <1>6, ClientFlowGrows
  <2>2. UNCHANGED <<queues, login, sent, wire, out, pos, clean, seg, net>>
    BY <1>6 DEF ClientSends, worldVars, flowVars
  <2>3. \A g \in Flows \ {"c2s"} : Meant(g)' = Meant(g) /\ Stream(g)' = Stream(g)
    BY <2>2, LinkAssumption DEF Meant, Stream
  <2>. QED
    BY <1>1, <1>2, <2>1, <2>2, <2>3, OthersKept
<1>7. CASE ClientCloses
  BY <1>3, <1>7 DEF ClientCloses, socketVars, flowVars, linkVars
<1>8. ASSUME TcpUnchanged
      PROVE  /\ UNCHANGED queues
             /\ \A g \in Flows : Meant(g)' = Meant(g) /\ Stream(g)' = Stream(g)
  <2>1. UNCHANGED <<queues, login, sent, spoken, wire, out, cout>>
    BY <1>8 DEF TcpUnchanged, socketVars
  <2>. QED
    BY <2>1, MeantSame
<1>9. ASSUME NEW f \in Flows, Transmit(f) PROVE FlowsInv'
  <2>1. /\ UNCHANGED queues
        /\ \A g \in Flows : Meant(g)' = Meant(g) /\ Stream(g)' = Stream(g)
    BY <1>8, <1>9 DEF Transmit
  <2>2. /\ FlowIs(f, Meant(f), Stream(f), pos'[f], clean[f], seg'[f], net'[f])
        /\ DOMAIN seg' = Flows /\ DOMAIN net' = Flows
        /\ \A g \in Flows \ {f} : seg'[g] = seg[g] /\ net'[g] = net[g]
    BY <1>9, FlowTransmits
  <2>3. /\ clean' = clean /\ DOMAIN pos' = Flows
        /\ \A g \in Flows \ {f} : pos'[g] = pos[g]
    BY <1>1, <1>9 DEF Transmit, Arrives
  <2>4. FlowInv(f)'
    BY <2>1, <2>2, <2>3 DEF FlowInv
  <2>. QED
    BY <1>1, <1>2, <2>1, <2>2, <2>3, <2>4, OthersKept
<1>10. ASSUME NEW f \in Flows PROVE Laid(f, Meant(f), Stream(f)) /\ pos[f] \in 0..Len(Stream(f))
  BY DEF FlowsInv, FlowInv, FlowIs
<1>11. ASSUME NEW f \in Flows, Missed(f) PROVE FlowsInv'
  <2>1. /\ UNCHANGED queues
        /\ \A g \in Flows : Meant(g)' = Meant(g) /\ Stream(g)' = Stream(g)
    BY <1>8, <1>11 DEF Missed
  <2>2. /\ UNCHANGED <<seg, net>> /\ DOMAIN pos' = Flows /\ DOMAIN clean' = Flows
        /\ pos'[f] = pos[f] + Len(Segment(f)) /\ clean'[f] = FALSE
        /\ \A g \in Flows \ {f} : pos'[g] = pos[g] /\ clean'[g] = clean[g]
    BY <1>1, <1>11 DEF Missed, Arrives, flowVars
  <2>3. pos'[f] \in 0..Len(Stream(f))
    <3>1. /\ Stream(f) \in Seq(Byte) /\ Len(Stream(f)) \in Nat /\ pos[f] \in Nat
          /\ pos[f] < Len(Stream(f))
      BY <1>10, <1>11, LenProperties DEF Laid, Missed, Sendable
    <3>2. Len(Segment(f)) \in Nat /\ pos[f] + Len(Segment(f)) <= Len(Stream(f))
      BY <3>1, SegmentIs
    <3>. QED
      BY <2>2, <3>1, <3>2
  <2>4. FlowInv(f)'
    BY <1>10, <2>1, <2>2, <2>3, FlowHarmed DEF FlowInv
  <2>. QED
    BY <1>1, <1>2, <2>1, <2>2, <2>4, OthersKept
<1>12. ASSUME NEW f \in Flows, Retransmit(f) PROVE FlowsInv'
  <2>1. /\ UNCHANGED queues
        /\ \A g \in Flows : Meant(g)' = Meant(g) /\ Stream(g)' = Stream(g)
    BY <1>8, <1>12 DEF Retransmit
  <2>2. /\ UNCHANGED pos /\ DOMAIN clean' = Flows /\ clean'[f] = FALSE
        /\ \A g \in Flows \ {f} : clean'[g] = clean[g]
    BY <1>1, <1>12, SMTT(60) DEF Retransmit
  <2>3. /\ DOMAIN seg' = Flows /\ DOMAIN net' = Flows
        /\ \A g \in Flows \ {f} : seg'[g] = seg[g] /\ net'[g] = net[g]
    BY <1>1, <1>12 DEF Retransmit, Observe
  <2>4. FlowInv(f)'
    BY <1>10, <2>1, <2>2, FlowHarmed DEF FlowInv
  <2>. QED
    BY <1>1, <1>2, <2>1, <2>2, <2>3, <2>4, OthersKept
<1>. QED
  BY <1>4, <1>5, <1>6, <1>7, <1>9, <1>11, <1>12 DEF Next

(* How many frames are whole is counted by their ends, which rise.         *)
LEMMA WholeIsPassed ==
  ASSUME NEW plains, Sized(plains), NEW n \in Nat, NEW k, Passed(plains, n, k)
  PROVE  WholeBy(plains, n) = k
<1> DEFINE L == Len(plains)
           ends == EndsOf(plains)
           W == {i \in 1..L : ends[i] <= n}
<1>1. L \in Nat /\ k \in 0..L /\ ends[k] <= n /\ (k < L => n < ends[k + 1])
  BY DEF Sized, Passed
<1>2. \A i \in 0..L : ends[i] \in Nat
  BY EndsAdvance
<1>3. \A a, b \in 0..L : a <= b => ends[a] <= ends[b]
  BY EndsRise
<1>4. WholeBy(plains, n) = Cardinality(W)
  BY DEF WholeBy, EndsOf
<1>. HIDE DEF L, ends
<1>5. ASSUME NEW i \in 1..L PROVE ends[i] <= n <=> i <= k
  <2>1. CASE i <= k
    <3>1. ends[i] <= ends[k]
      BY <1>1, <1>3, <2>1
    <3>. QED
      BY <1>1, <1>2, <2>1, <3>1
  <2>2. CASE ~(i <= k)
    <3>1. k < L /\ k + 1 \in 0..L /\ k + 1 <= i /\ i \in 0..L
      BY <1>1, <2>2
    <3>2. ends[k + 1] <= ends[i] /\ n < ends[k + 1]
      BY <1>1, <1>3, <3>1
    <3>3. ~(ends[i] <= n)
      BY <1>2, <3>1, <3>2
    <3>. QED
      BY <2>2, <3>3
  <2>. QED
    BY <2>1, <2>2
<1>6. W = 1..k
  <2>1. \A i : i \in 1..k <=> i \in 1..L /\ i <= k
    BY <1>1
  <2>. QED
    BY <1>5, <2>1
<1>7. Cardinality(1..k) = k
  <2>1. 1 \in Int /\ k \in Int /\ k \in Nat
    BY <1>1
  <2>2. Cardinality(1..k) = IF 1 > k THEN 0 ELSE k - 1 + 1
    BY <2>1, FS_Interval
  <2>. QED
    BY <2>1, <2>2
<1>. QED
  BY <1>4, <1>6, <1>7

(* The recorder writes the frames that have passed whole, each once, in    *)
(* order and as they were meant, however TCP cuts the flow.                *)
THEOREM FlowsRecorded == Spec /\ Recordable => []FramesRecorded
<1>1. FlowsInv => FramesRecorded
  <2>. SUFFICES ASSUME FlowsInv, NEW f \in Flows, clean[f]
                PROVE  /\ Len(net[f]) = WholeBy(Meant(f), pos[f])
                       /\ \A i \in 1..Len(net[f]) :
                            IF f = "login" THEN net[f][i] = login[i]
                                           ELSE SameButChecksum(net[f][i], Meant(f)[i])
    BY DEF FramesRecorded
  <2>1. /\ Laid(f, Meant(f), Stream(f)) /\ pos[f] \in 0..Len(Stream(f))
        /\ Taken(f, Meant(f), Stream(f), pos[f], seg[f], net[f])
    BY DEF FlowsInv, FlowInv, FlowIs
  <2>2. PICK k \in 0..Len(Meant(f)) :
          /\ Passed(Meant(f), pos[f], k) /\ Len(net[f]) = k
          /\ \A i \in 1..k : Told(f, net[f][i], Meant(f)[i])
    BY <2>1 DEF Taken
  <2>3. Sized(Meant(f)) /\ pos[f] \in Nat
    BY <2>1, LaidSized
  <2>4. WholeBy(Meant(f), pos[f]) = k
    BY <2>2, <2>3, WholeIsPassed
  <2>5. f = "login" => Meant(f) = login
    BY DEF Meant
  <2>. QED
    BY <2>2, <2>4, <2>5 DEF Told
<1>. QED
  BY <1>1, FlowsInvInit, FlowsInvNext, LinkInvariant, PTL DEF Spec


-----------------------------------------------------------------------------
(* Filtering a list, in order. *)

(* A recursion along 1..n has a value.                                     *)
IsStep(step, n, D) == step \in [1..n -> [D -> D]]
Iterates(g, n, D, base, step) ==
  /\ g \in [0..n -> D] /\ g[0] = base
  /\ \A k \in 1..n : g[k] = step[k][g[k - 1]]

LEMMA Iterated ==
  ASSUME NEW n \in Nat, NEW D, NEW base \in D, NEW step, IsStep(step, n, D)
  PROVE  \E g : Iterates(g, n, D, base, step)
<1>0. step \in [1..n -> [D -> D]]
  BY DEF IsStep
<1> DEFINE Runs(g, m) == /\ g \in [0..m -> D] /\ g[0] = base
                         /\ \A k \in 1..m : g[k] = step[k][g[k - 1]]
           Good == {m \in Nat : m <= n => \E g : Runs(g, m)}
<1>1. 0 \in Good
  <2> DEFINE g == [k \in 0..0 |-> base]
  <2>1. Runs(g, 0)
    OBVIOUS
  <2>. HIDE DEF Runs
  <2>. QED
    BY <2>1
<1>2. ASSUME NEW m \in Nat, m \in Good PROVE m + 1 \in Good
  <2>. SUFFICES ASSUME m + 1 <= n PROVE \E g : Runs(g, m + 1)
    OBVIOUS
  <2>1. PICK g : Runs(g, m)
    BY <1>2
  <2> DEFINE new == step[m + 1][g[m]]
             h == [k \in 0..(m + 1) |-> IF k = m + 1 THEN new ELSE g[k]]
  <2>2. new \in D
    <3>1. m + 1 \in 1..n /\ m \in 0..m
      OBVIOUS
    <3>2. g[m] \in D /\ step[m + 1] \in [D -> D]
      BY <1>0, <2>1, <3>1
    <3>. QED
      BY <3>2
  <2>. HIDE DEF new
  <2>3. h \in [0..(m + 1) -> D] /\ h[0] = base
    BY <2>1, <2>2
  <2>4. ASSUME NEW k \in 1..(m + 1) PROVE h[k] = step[k][h[k - 1]]
    <3>1. k - 1 \in 0..m /\ k - 1 \in 0..(m + 1) /\ k - 1 # m + 1 /\ k \in 0..(m + 1)
      OBVIOUS
    <3>2. h[k - 1] = g[k - 1]
      BY <3>1
    <3>3. CASE k = m + 1
      <4>1. h[k] = new /\ k - 1 = m
        BY <3>1, <3>3
      <4>. QED
        BY <3>2, <3>3, <4>1 DEF new
    <3>4. CASE k # m + 1
      <4>1. h[k] = g[k] /\ k \in 1..m
        BY <3>1, <3>4
      <4>. QED
        BY <2>1, <3>2, <4>1
    <3>. QED
      BY <3>3, <3>4
  <2>. HIDE DEF h
  <2>5. Runs(h, m + 1)
    BY <2>3, <2>4
  <2>. HIDE DEF Runs
  <2>. QED
    BY <2>5
<1>3. n \in Good
  <2>. HIDE DEF Good
  <2>. QED
    BY <1>1, <1>2, NatSetInduction
<1>. QED
  BY <1>3 DEF Iterates

(* What Ascending gives: the members of P up to n, all of them.            *)
LEMMA AscendingIs ==
  ASSUME NEW n \in Nat, NEW P
  PROVE  /\ Ascending(n, P) \in Seq(P \cap 1..n)
         /\ \A p \in P \cap 1..n : \E i \in 1..Len(Ascending(n, P)) : Ascending(n, P)[i] = p
<1> DEFINE upto[k \in 0..n] == CASE k = 0            -> <<>>
                                 [] k > 0 /\ k \in P -> Append(upto[k - 1], k)
                                 [] OTHER            -> upto[k - 1]
<1>1. Ascending(n, P) = upto[n]
  BY DEF Ascending
<1>2. upto = [k \in 0..n |-> CASE k = 0            -> <<>>
                                 [] k > 0 /\ k \in P -> Append(upto[k - 1], k)
                                 [] OTHER            -> upto[k - 1]]
  <2> DEFINE step == [k \in 1..n |-> [s \in Seq(Nat) |-> IF k \in P THEN Append(s, k) ELSE s]]
  <2>1. step \in [1..n -> [Seq(Nat) -> Seq(Nat)]]
    OBVIOUS
  <2>2. <<>> \in Seq(Nat)
    OBVIOUS
  <2>. HIDE DEF step
  <2>3. PICK g : /\ g \in [0..n -> Seq(Nat)] /\ g[0] = <<>>
                 /\ \A k \in 1..n : g[k] = step[k][g[k - 1]]
    <3>1. IsStep(step, n, Seq(Nat))
      BY <2>1 DEF IsStep
    <3>2. \E g : Iterates(g, n, Seq(Nat), <<>>, step)
      BY <2>2, <3>1, Iterated
    <3>. QED
      BY <3>2 DEF Iterates
  <2>4. ASSUME NEW k \in 0..n
        PROVE  g[k] = CASE k = 0            -> <<>>
                        [] k > 0 /\ k \in P -> Append(g[k - 1], k)
                        [] OTHER            -> g[k - 1]
    <3>1. CASE k = 0
      BY <2>3, <3>1
    <3>2. CASE k # 0
      <4>1. k \in 1..n /\ k - 1 \in 0..n
        BY <3>2
      <4>2. g[k - 1] \in Seq(Nat) /\ g[k] = step[k][g[k - 1]]
        BY <2>3, <4>1
      <4>3. g[k] = IF k \in P THEN Append(g[k - 1], k) ELSE g[k - 1]
        BY <4>1, <4>2 DEF step
      <4>. QED
        BY <4>1, <4>3
    <3>. QED
      BY <3>1, <3>2
  <2>5. g = [k \in 0..n |-> CASE k = 0            -> <<>>
                              [] k > 0 /\ k \in P -> Append(g[k - 1], k)
                              [] OTHER            -> g[k - 1]]
    BY <2>3, <2>4
  <2>. QED
    BY <2>5, Zenon
<1>. HIDE DEF upto
<1> DEFINE Right(s, k) == /\ s \in Seq(P \cap 1..k)
                          /\ \A p \in P \cap 1..k : \E i \in 1..Len(s) : s[i] = p
           Good == {k \in Nat : k <= n => Right(upto[k], k)}
<1>3. 0 \in Good
  <2>1. 0 \in 0..n
    OBVIOUS
  <2>2. upto[0] = <<>>
    BY <1>2, <2>1
  <2>3. <<>> \in Seq(P \cap 1..0) /\ P \cap 1..0 = {}
    BY EmptySeq
  <2>4. Right(<<>>, 0)
    BY <2>3
  <2>. HIDE DEF Right
  <2>. QED
    BY <2>2, <2>4
<1>4. ASSUME NEW k \in Nat, k \in Good PROVE k + 1 \in Good
  <2>. SUFFICES ASSUME k + 1 <= n PROVE Right(upto[k + 1], k + 1)
    OBVIOUS
  <2> DEFINE s == upto[k]
             t == upto[k + 1]
  <2>1. t = IF k + 1 \in P THEN Append(s, k + 1) ELSE s
    <3>1. k + 1 \in 0..n /\ k + 1 > 0 /\ (k + 1) - 1 = k
      OBVIOUS
    <3>2. upto[k + 1] = CASE k + 1 = 0                -> <<>>
                          [] k + 1 > 0 /\ k + 1 \in P -> Append(upto[(k + 1) - 1], k + 1)
                          [] OTHER                    -> upto[(k + 1) - 1]
      BY <1>2, <3>1
    <3>3. k + 1 # 0
      OBVIOUS
    <3>. QED
      BY <3>1, <3>2, <3>3
  <2>2. Right(s, k)
    BY <1>4
  <2>. HIDE DEF s, t
  <2>3. s \in Seq(P \cap 1..(k + 1)) /\ Len(s) \in Nat
    <3>1. P \cap 1..k \subseteq P \cap 1..(k + 1)
      OBVIOUS
    <3>. QED
      BY <2>2, <3>1, SeqMonotonic, LenProperties
  <2>4. CASE k + 1 \in P
    <3>1. k + 1 \in P \cap 1..(k + 1)
      BY <2>4
    <3>2. /\ t \in Seq(P \cap 1..(k + 1)) /\ Len(t) = Len(s) + 1 /\ t[Len(s) + 1] = k + 1
          /\ \A i \in 1..Len(s) : t[i] = s[i]
      BY <2>1, <2>3, <2>4, <3>1
    <3>3. ASSUME NEW p \in P \cap 1..(k + 1) PROVE \E i \in 1..Len(t) : t[i] = p
      <4>1. CASE p = k + 1
        <5>1. Len(s) + 1 \in 1..Len(t)
          BY <2>3, <3>2
        <5>. QED
          BY <3>2, <4>1, <5>1
      <4>2. CASE p # k + 1
        <5>1. p \in P \cap 1..k
          BY <4>2
        <5>2. PICK i \in 1..Len(s) : s[i] = p
          BY <2>2, <5>1
        <5>3. i \in 1..Len(t)
          BY <2>3, <3>2
        <5>. QED
          BY <3>2, <5>2, <5>3
      <4>. QED
        BY <4>1, <4>2
    <3>. QED
      BY <3>2, <3>3 DEF t
  <2>5. CASE k + 1 \notin P
    <3>1. P \cap 1..(k + 1) = P \cap 1..k /\ t = s
      BY <2>1, <2>5
    <3>. QED
      BY <2>2, <3>1 DEF t
  <2>. QED
    BY <2>4, <2>5
<1>5. n \in Good
  <2>. HIDE DEF Good
  <2>. QED
    BY <1>3, <1>4, NatSetInduction
<1>. QED
  BY <1>1, <1>5

(* The elements at the places of P, and the places they come from.         *)
LEMMA ThoseAre ==
  ASSUME NEW S, NEW s \in Seq(S), NEW P
  PROVE  /\ Those(s, P) \in Seq({s[i] : i \in P \cap 1..Len(s)})
         /\ Len(Those(s, P)) = Len(Ascending(Len(s), P))
         /\ \A i \in 1..Len(Those(s, P)) :
              /\ Ascending(Len(s), P)[i] \in P \cap 1..Len(s)
              /\ Those(s, P)[i] = s[Ascending(Len(s), P)[i]]
<1> DEFINE at == Ascending(Len(s), P)
           R == {s[i] : i \in P \cap 1..Len(s)}
<1>1. Len(s) \in Nat
  BY LenProperties
<1>2. at \in Seq(P \cap 1..Len(s))
  BY <1>1, AscendingIs
<1>3. Those(s, P) = [i \in 1..Len(at) |-> s[at[i]]]
  BY DEF Those
<1>. HIDE DEF at
<1>4. Len(at) \in Nat /\ \A i \in 1..Len(at) : at[i] \in P \cap 1..Len(s)
  BY <1>2, LenProperties, ElementOfSeq
<1>5. \A i \in 1..Len(at) : s[at[i]] \in R
  BY <1>4
<1>6. Those(s, P) \in Seq(R)
  <2>. HIDE DEF R
  <2>. QED
    BY <1>3, <1>4, <1>5, IsASeq
<1>7. Len(Those(s, P)) = Len(at)
  <2>1. DOMAIN Those(s, P) = 1..Len(Those(s, P)) /\ Len(Those(s, P)) \in Nat
    <3>. HIDE DEF R
    <3>. QED
      BY <1>6, LenProperties
  <2>2. DOMAIN Those(s, P) = 1..Len(at)
    BY <1>3
  <2>. QED
    BY <1>4, <2>1, <2>2
<1>. QED
  BY <1>3, <1>4, <1>6, <1>7 DEF at

-----------------------------------------------------------------------------
(* One pass over a payload. H are the places where it finds what it looks  *)
(* for, with[j] is what belongs to the place j.                            *)
PassAt(from, s, n, H, with, k) ==
  LET found == {j \in H : j >= k}
      j     == Min(found)
  IN  IF found = {} THEN SubSeq(s, k, Len(s))
      ELSE SubSeq(s, k, j - 1) \o with[j] \o from[j + n]

(* The places lie in a payload of L bytes, each has n bytes put there.     *)
Fits(L, n, H, with) ==
  /\ L \in Nat /\ n \in Nat \ {0} /\ H \subseteq 1..L
  /\ \A j \in H : j + n <= L + 1 /\ with[j] \in Seq(Byte) /\ Len(with[j]) = n

LEMMA NextHit ==
  ASSUME NEW L, NEW n, NEW H, NEW with, Fits(L, n, H, with), NEW k \in 1..(L + 1),
         {j \in H : j >= k} # {}
  PROVE  LET j == Min({i \in H : i >= k})
         IN  /\ j \in H /\ k <= j /\ j + n \in 1..(L + 1) /\ j + n > k
             /\ \A i \in H : i >= k => i >= j
<1> DEFINE found == {j \in H : j >= k}
           j == Min(found)
<1>1. found \subseteq Nat /\ found # {} /\ L \in Nat /\ n \in Nat /\ n > 0
  <2>1. L \in Nat /\ n \in Nat /\ n > 0 /\ H \subseteq 1..L
    BY DEF Fits
  <2>2. ASSUME NEW x \in found PROVE x \in Nat
    <3>1. x \in H
      OBVIOUS
    <3>. HIDE DEF found
    <3>2. x \in 1..L
      BY <2>1, <3>1
    <3>. QED
      BY <2>1, <3>2
  <2>3. found # {}
    OBVIOUS
  <2>. HIDE DEF found
  <2>. QED
    BY <2>1, <2>2, <2>3
<1>2. j \in found /\ \A i \in found : j <= i
  <2>. HIDE DEF found
  <2>. QED
    BY <1>1, MinIsIn
<1>3. j \in H /\ k <= j /\ \A i \in H : i >= k => i >= j
  BY <1>2 DEF Fits
<1>. HIDE DEF j
<1>4. j + n <= L + 1 /\ j \in 1..L
  BY <1>3 DEF Fits
<1>5. j + n \in 1..(L + 1) /\ j + n > k
  BY <1>1, <1>3, <1>4
<1>. QED
  BY <1>3, <1>5 DEF j

LEMMA PassAtSame ==
  ASSUME NEW s, NEW L, NEW n, NEW H, NEW with, Fits(L, n, H, with), NEW k \in 1..(L + 1),
         NEW g, NEW h, \A i \in 1..(L + 1) : i > k => g[i] = h[i]
  PROVE  PassAt(g, s, n, H, with, k) = PassAt(h, s, n, H, with, k)
<1>1. CASE {j \in H : j >= k} = {}
  BY <1>1 DEF PassAt
<1>2. CASE {j \in H : j >= k} # {}
  <2> DEFINE j == Min({i \in H : i >= k})
  <2>1. j + n \in 1..(L + 1) /\ j + n > k
    BY <1>2, NextHit
  <2>. HIDE DEF j
  <2>2. g[j + n] = h[j + n]
    BY <2>1
  <2>. QED
    BY <1>2, <2>2 DEF PassAt, j
<1>. QED
  BY <1>1, <1>2

(* The recursion of the pass goes forward; it has a value.                 *)
PassRun(from, s, L, n, H, with) ==
  /\ from = [k \in 1..(L + 1) |-> from[k]]
  /\ \A k \in 1..(L + 1) : from[k] = PassAt(from, s, n, H, with, k)

LEMMA PassRuns ==
  ASSUME NEW s, NEW L, NEW n, NEW H, NEW with, Fits(L, n, H, with)
  PROVE  \E from : PassRun(from, s, L, n, H, with)
<1> DEFINE TargetOf(g, k) == PassAt(g, s, n, H, with, k)
           Runs(g, d) == /\ g = [k \in 1..(L + 1) |-> g[k]]
                         /\ \A k \in 1..(L + 1) : k >= (L + 1) - d => g[k] = TargetOf(g, k)
           Good == {d \in Nat : \E g : Runs(g, d)}
<1>0. L \in Nat
  BY DEF Fits
<1>1. ASSUME NEW g, NEW h, NEW k \in 1..(L + 1), \A i \in 1..(L + 1) : i > k => g[i] = h[i]
      PROVE  TargetOf(g, k) = TargetOf(h, k)
  BY <1>1, PassAtSame
<1>. HIDE DEF TargetOf
<1>2. 0 \in Good
  <2> DEFINE g == [k \in 1..(L + 1) |-> <<>>]
             h == [k \in 1..(L + 1) |-> TargetOf(g, k)]
  <2>1. h = [k \in 1..(L + 1) |-> h[k]]
    OBVIOUS
  <2>2. ASSUME NEW k \in 1..(L + 1), k >= (L + 1) - 0 PROVE h[k] = TargetOf(h, k)
    <3>1. \A i \in 1..(L + 1) : i > k => g[i] = h[i]
      BY <1>0, <2>2
    <3>2. TargetOf(g, k) = TargetOf(h, k)
      <4>. HIDE DEF g, h
      <4>. QED
        BY <1>1, <3>1
    <3>. QED
      BY <3>2
  <2>. HIDE DEF h
  <2>. QED
    BY <2>1, <2>2
<1>3. ASSUME NEW d \in Nat, d \in Good PROVE d + 1 \in Good
  <2>1. PICK g : Runs(g, d)
    BY <1>3
  <2> DEFINE m == (L + 1) - (d + 1)
             h == [k \in 1..(L + 1) |-> IF k = m THEN TargetOf(g, k) ELSE g[k]]
  <2>2. h = [k \in 1..(L + 1) |-> h[k]]
    OBVIOUS
  <2>3. ASSUME NEW k \in 1..(L + 1), k >= m PROVE h[k] = TargetOf(h, k)
    <3>1. \A i \in 1..(L + 1) : i > k => g[i] = h[i]
      BY <1>0, <2>3
    <3>2. h[k] = TargetOf(g, k)
      <4>1. CASE k = m
        BY <4>1
      <4>2. CASE k # m
        <5>1. k >= (L + 1) - d
          BY <1>0, <2>3, <4>2
        <5>2. h[k] = g[k]
          BY <4>2
        <5>. HIDE DEF h
        <5>. QED
          BY <2>1, <5>1, <5>2
      <4>. QED
        BY <4>1, <4>2
    <3>3. TargetOf(g, k) = TargetOf(h, k)
      <4>. HIDE DEF h
      <4>. QED
        BY <1>1, <3>1
    <3>. QED
      BY <3>2, <3>3
  <2>. HIDE DEF h
  <2>4. Runs(h, d + 1)
    BY <2>2, <2>3
  <2>5. d + 1 \in Nat
    OBVIOUS
  <2>. HIDE DEF Runs
  <2>. QED
    BY <2>4, <2>5
<1>4. L + 1 \in Good
  <2>1. L + 1 \in Nat
    BY <1>0
  <2>. HIDE DEF Good
  <2>. QED
    BY <1>2, <1>3, <2>1, NatSetInduction
<1>5. PICK g : Runs(g, L + 1)
  BY <1>4
<1>6. \A k \in 1..(L + 1) : g[k] = TargetOf(g, k)
  BY <1>0, <1>5
<1>. QED
  BY <1>5, <1>6 DEF TargetOf, PassRun

(* t is s from the place k on, where at the places of R something was put: *)
(* it is found there, the other bytes are those of s, and no place of H is *)
(* left that one of R does not cover.                                      *)
PassedOver(s, n, H, with, k, R, t) ==
  /\ t \in Seq(Byte) /\ Len(t) = (Len(s) + 1) - k
  /\ R \subseteq H /\ \A r \in R : r >= k
  /\ \A q, r \in R : q < r => q + n <= r
  /\ \A r \in R : \A i \in 1..n : t[(r - k) + i] = with[r][i]
  /\ \A i \in k..Len(s) : (\A r \in R : i < r \/ r + n <= i) => t[(i + 1) - k] = s[i]
  /\ \A j \in H : j >= k => \E r \in R : r <= j /\ j < r + n

LEMMA ThreeJoined ==
  ASSUME NEW u \in Seq(Byte), NEW v \in Seq(Byte), NEW w \in Seq(Byte)
  PROVE  LET t == u \o v \o w
         IN  /\ t \in Seq(Byte) /\ Len(t) = Len(u) + Len(v) + Len(w)
             /\ \A i \in 1..Len(u) : t[i] = u[i]
             /\ \A i \in 1..Len(v) : t[Len(u) + i] = v[i]
             /\ \A i \in 1..Len(w) : t[Len(u) + Len(v) + i] = w[i]
<1> DEFINE p == u \o v
           t == p \o w
<1>1. /\ p \in Seq(Byte) /\ Len(p) = Len(u) + Len(v)
      /\ \A i \in 1..Len(u) : p[i] = u[i]
      /\ \A i \in 1..Len(v) : p[i + Len(u)] = v[i]
  BY BytesJoined, ConcatProperties
<1>. HIDE DEF p
<1>2. /\ t \in Seq(Byte) /\ Len(t) = Len(p) + Len(w)
      /\ \A i \in 1..Len(p) : t[i] = p[i]
      /\ \A i \in 1..Len(w) : t[i + Len(p)] = w[i]
  BY <1>1, BytesJoined, ConcatProperties
<1>. HIDE DEF t
<1>3. Len(u) \in Nat /\ Len(v) \in Nat /\ Len(w) \in Nat
  BY LenProperties
<1>4. ASSUME NEW i \in 1..Len(u) PROVE t[i] = u[i]
  <2>1. i \in 1..Len(p)
    BY <1>1, <1>3
  <2>. QED
    BY <1>1, <1>2, <2>1
<1>5. ASSUME NEW i \in 1..Len(v) PROVE t[Len(u) + i] = v[i]
  <2>1. Len(u) + i \in 1..Len(p) /\ i + Len(u) = Len(u) + i
    BY <1>1, <1>3
  <2>. QED
    BY <1>1, <1>2, <2>1
<1>6. ASSUME NEW i \in 1..Len(w) PROVE t[Len(u) + Len(v) + i] = w[i]
  <2>1. i + Len(p) = Len(u) + Len(v) + i
    BY <1>1, <1>3
  <2>. QED
    BY <1>2, <2>1
<1>7. Len(t) = Len(u) + Len(v) + Len(w)
  BY <1>1, <1>2, <1>3
<1>8. /\ t \in Seq(Byte) /\ Len(t) = Len(u) + Len(v) + Len(w)
      /\ \A i \in 1..Len(u) : t[i] = u[i]
      /\ \A i \in 1..Len(v) : t[Len(u) + i] = v[i]
      /\ \A i \in 1..Len(w) : t[Len(u) + Len(v) + i] = w[i]
  BY <1>2, <1>4, <1>5, <1>6, <1>7
<1>. QED
  BY <1>8 DEF t, p

(* The pass finds a place j.                                               *)
LEMMA PassHits ==
  ASSUME NEW s \in Seq(Byte), NEW n, NEW H, NEW with, Fits(Len(s), n, H, with),
         NEW k \in 1..(Len(s) + 1), NEW j \in H, j >= k, \A i \in H : i >= k => i >= j,
         NEW R, NEW w, PassedOver(s, n, H, with, j + n, R, w)
  PROVE  PassedOver(s, n, H, with, k, R \cup {j}, SubSeq(s, k, j - 1) \o with[j] \o w)
<1> DEFINE u == SubSeq(s, k, j - 1)
           v == with[j]
           t == u \o v \o w
           L == Len(s)
<1>1. L \in Nat /\ n \in Nat /\ n > 0 /\ j \in 1..L /\ j + n <= L + 1 /\ H \subseteq 1..L
      /\ v \in Seq(Byte) /\ Len(v) = n
  BY DEF Fits
<1>2. u \in Seq(Byte) /\ Len(u) = j - k /\ \A i \in 1..(j - k) : u[i] = s[i + (k - 1)]
  <2>1. k - 1 \in Nat /\ j - k \in Nat /\ (k - 1) + (j - k) <= Len(s)
        /\ (k - 1) + 1 = k /\ (k - 1) + (j - k) = j - 1
    BY <1>1
  <2>2. LET x == SubSeq(s, (k - 1) + 1, (k - 1) + (j - k))
        IN  x \in Seq(Byte) /\ Len(x) = j - k /\ \A i \in 1..(j - k) : x[i] = s[i + (k - 1)]
    BY <2>1, PieceOf
  <2>. QED
    BY <2>1, <2>2
<1>3. /\ w \in Seq(Byte) /\ Len(w) = (L + 1) - (j + n)
      /\ R \subseteq H /\ \A r \in R : r >= j + n
      /\ \A q, r \in R : q < r => q + n <= r
      /\ \A r \in R : \A i \in 1..n : w[(r - (j + n)) + i] = with[r][i]
      /\ \A i \in (j + n)..L : (\A r \in R : i < r \/ r + n <= i) => w[(i + 1) - (j + n)] = s[i]
      /\ \A i \in H : i >= j + n => \E r \in R : r <= i /\ i < r + n
  BY DEF PassedOver
<1>. HIDE DEF u, v
<1>4. /\ t \in Seq(Byte) /\ Len(t) = Len(u) + Len(v) + Len(w)
      /\ \A i \in 1..Len(u) : t[i] = u[i]
      /\ \A i \in 1..Len(v) : t[Len(u) + i] = v[i]
      /\ \A i \in 1..Len(w) : t[Len(u) + Len(v) + i] = w[i]
  <2>1. u \in Seq(Byte) /\ v \in Seq(Byte) /\ w \in Seq(Byte)
    BY <1>1, <1>2, <1>3
  <2>. QED
    BY <2>1, ThreeJoined
<1>. HIDE DEF t
<1>5. /\ Len(t) = (L + 1) - k
      /\ \A i \in 1..(j - k) : t[i] = s[i + (k - 1)]
      /\ \A i \in 1..n : t[(j - k) + i] = with[j][i]
      /\ \A i \in 1..((L + 1) - (j + n)) : t[(j - k) + n + i] = w[i]
  <2>1. Len(t) = (L + 1) - k
    BY <1>1, <1>2, <1>3, <1>4
  <2>2. \A i \in 1..(j - k) : t[i] = s[i + (k - 1)]
    BY <1>2, <1>4
  <2>3. \A i \in 1..n : t[(j - k) + i] = with[j][i]
    BY <1>1, <1>2, <1>4 DEF v
  <2>4. \A i \in 1..((L + 1) - (j + n)) : t[(j - k) + n + i] = w[i]
    BY <1>1, <1>2, <1>3, <1>4
  <2>. QED
    BY <2>1, <2>2, <2>3, <2>4
<1> DEFINE Q == R \cup {j}
<1>6. Q \subseteq H /\ \A r \in Q : r >= k
  <2>1. ASSUME NEW r \in R PROVE r \in H /\ r >= k
    <3>1. r \in H /\ r >= j + n /\ r \in 1..L
      BY <1>1, <1>3
    <3>. QED
      BY <1>1, <3>1
  <2>. QED
    BY <2>1
<1>7. \A q, r \in Q : q < r => q + n <= r
  <2>1. \A r \in R : r >= j + n /\ r \in 1..L
    BY <1>1, <1>3
  <2>2. ASSUME NEW q \in Q, NEW r \in Q, q < r PROVE q + n <= r
    <3>1. CASE q \in R /\ r \in R
      BY <1>3, <2>2, <3>1
    <3>2. CASE r = j
      <4>1. q \in R \/ q = j
        OBVIOUS
      <4>. QED
        BY <1>1, <2>1, <2>2, <3>2, <4>1
    <3>3. CASE q = j /\ r \in R
      BY <2>1, <3>3
    <3>. QED
      BY <3>1, <3>2, <3>3
  <2>. QED
    BY <2>2
<1>8. ASSUME NEW r \in Q, NEW i \in 1..n PROVE t[(r - k) + i] = with[r][i]
  <2>1. CASE r = j
    BY <1>5, <2>1
  <2>2. CASE r \in R
    <3> DEFINE m == (r - (j + n)) + i
    <3>1. r \in H /\ r >= j + n /\ r \in 1..L /\ r + n <= L + 1
      BY <1>1, <1>3, <2>2 DEF Fits
    <3>2. m \in 1..((L + 1) - (j + n)) /\ (r - k) + i = (j - k) + n + m
      BY <1>1, <3>1
    <3>3. w[m] = with[r][i]
      BY <1>3, <2>2
    <3>. HIDE DEF m
    <3>. QED
      BY <1>5, <3>2, <3>3
  <2>. QED
    BY <2>1, <2>2
<1>9. ASSUME NEW i \in k..L, \A r \in Q : i < r \/ r + n <= i PROVE t[(i + 1) - k] = s[i]
  <2>1. i < j \/ j + n <= i
    BY <1>9
  <2>2. CASE i < j
    <3>1. (i + 1) - k \in 1..(j - k) /\ ((i + 1) - k) + (k - 1) = i
      BY <1>1, <2>2
    <3>. QED
      BY <1>5, <3>1
  <2>3. CASE j + n <= i
    <3> DEFINE m == (i + 1) - (j + n)
    <3>1. m \in 1..((L + 1) - (j + n)) /\ (i + 1) - k = (j - k) + n + m /\ i \in (j + n)..L
      BY <1>1, <2>3
    <3>2. w[m] = s[i]
      BY <1>3, <1>9, <3>1
    <3>. HIDE DEF m
    <3>. QED
      BY <1>5, <3>1, <3>2
  <2>. QED
    BY <2>1, <2>2, <2>3
<1>10. ASSUME NEW i \in H, i >= k PROVE \E r \in Q : r <= i /\ i < r + n
  <2>1. i >= j /\ i \in 1..L
    BY <1>1, <1>10
  <2>2. CASE i >= j + n
    BY <1>3, <2>2
  <2>3. CASE i < j + n
    BY <2>1, <2>3
  <2>. QED
    BY <1>1, <2>1, <2>2, <2>3
<1>. HIDE DEF Q
<1>11. PassedOver(s, n, H, with, k, Q, t)
  BY <1>4, <1>5, <1>6, <1>7, <1>8, <1>9, <1>10 DEF PassedOver
<1>. QED
  BY <1>11 DEF Q, t, u, v

LEMMA PassMisses ==
  ASSUME NEW s \in Seq(Byte), NEW n, NEW H, NEW with, Fits(Len(s), n, H, with),
         NEW k \in 1..(Len(s) + 1), {j \in H : j >= k} = {}
  PROVE  PassedOver(s, n, H, with, k, {}, SubSeq(s, k, Len(s)))
<1> DEFINE L == Len(s)
           t == SubSeq(s, k, L)
<1>1. L \in Nat
  BY LenProperties
<1>2. t \in Seq(Byte) /\ Len(t) = (L + 1) - k /\ \A i \in 1..((L + 1) - k) : t[i] = s[i + (k - 1)]
  <2>1. k - 1 \in Nat /\ (L + 1) - k \in Nat /\ (k - 1) + ((L + 1) - k) <= Len(s)
        /\ (k - 1) + 1 = k /\ (k - 1) + ((L + 1) - k) = L
    BY <1>1
  <2>2. LET x == SubSeq(s, (k - 1) + 1, (k - 1) + ((L + 1) - k))
        IN  x \in Seq(Byte) /\ Len(x) = (L + 1) - k /\ \A i \in 1..((L + 1) - k) : x[i] = s[i + (k - 1)]
    BY <2>1, PieceOf
  <2>. QED
    BY <2>1, <2>2
<1>. HIDE DEF t
<1>3. ASSUME NEW i \in k..L PROVE t[(i + 1) - k] = s[i]
  <2>1. (i + 1) - k \in 1..((L + 1) - k) /\ ((i + 1) - k) + (k - 1) = i
    BY <1>1
  <2>. QED
    BY <1>2, <2>1
<1>4. PassedOver(s, n, H, with, k, {}, t)
  BY <1>2, <1>3 DEF PassedOver
<1>. QED
  BY <1>4 DEF t

(* What the pass gives from each place on.                                 *)
LEMMA PassAlong ==
  ASSUME NEW s \in Seq(Byte), NEW n, NEW H, NEW with, Fits(Len(s), n, H, with), NEW from,
         PassRun(from, s, Len(s), n, H, with)
  PROVE  \E R : PassedOver(s, n, H, with, 1, R, from[1])
<1> DEFINE L == Len(s)
           Done(k) == \E R : PassedOver(s, n, H, with, k, R, from[k])
           Good == {d \in Nat : \A k \in 1..(L + 1) : k >= (L + 1) - d => Done(k)}
<1>0. L \in Nat
  BY LenProperties
<1>1. ASSUME NEW k \in 1..(L + 1), \A i \in 1..(L + 1) : i > k => Done(i)
      PROVE  Done(k)
  <2>1. CASE {j \in H : j >= k} = {}
    <3>1. from[k] = SubSeq(s, k, Len(s))
      BY <2>1 DEF PassAt, PassRun
    <3>2. PassedOver(s, n, H, with, k, {}, SubSeq(s, k, Len(s)))
      BY <2>1, PassMisses
    <3>. QED
      BY <3>1, <3>2
  <2>2. CASE {j \in H : j >= k} # {}
    <3> DEFINE j == Min({i \in H : i >= k})
    <3>1. j \in H /\ k <= j /\ j + n \in 1..(L + 1) /\ j + n > k /\ \A i \in H : i >= k => i >= j
      BY <2>2, NextHit
    <3>2. from[k] = SubSeq(s, k, j - 1) \o with[j] \o from[j + n]
      BY <2>2 DEF PassAt, PassRun
    <3>. HIDE DEF j
    <3>3. PICK R : PassedOver(s, n, H, with, j + n, R, from[j + n])
      BY <1>1, <3>1
    <3>4. j >= k
      BY <1>0, <3>1 DEF Fits
    <3>5. PassedOver(s, n, H, with, k, R \cup {j}, SubSeq(s, k, j - 1) \o with[j] \o from[j + n])
      BY <3>1, <3>3, <3>4, PassHits
    <3>. QED
      BY <3>2, <3>5
  <2>. QED
    BY <2>1, <2>2
<1>. HIDE DEF Done
<1>2. 0 \in Good
  <2>1. ASSUME NEW k \in 1..(L + 1), k >= (L + 1) - 0 PROVE Done(k)
    <3>1. \A i \in 1..(L + 1) : ~(i > k)
      BY <1>0, <2>1
    <3>. QED
      BY <1>1, <3>1
  <2>. QED
    BY <2>1
<1>3. ASSUME NEW d \in Nat, d \in Good PROVE d + 1 \in Good
  <2>1. ASSUME NEW k \in 1..(L + 1), k >= (L + 1) - (d + 1) PROVE Done(k)
    <3>1. ASSUME NEW i \in 1..(L + 1), i > k PROVE Done(i)
      <4>1. i >= (L + 1) - d
        BY <1>0, <2>1, <3>1
      <4>. QED
        BY <1>3, <4>1
    <3>. QED
      BY <1>1, <3>1
  <2>. QED
    BY <2>1
<1>4. L \in Good
  <2>. HIDE DEF Good
  <2>. QED
    BY <1>0, <1>2, <1>3, NatSetInduction
<1>5. 1 \in 1..(L + 1) /\ 1 >= (L + 1) - L
  BY <1>0
<1>6. Done(1)
  BY <1>4, <1>5
<1>. QED
  BY <1>6 DEF Done

(* What the whole pass leaves.                                             *)
Hits(s, n, New) == {k \in Places(s, n) : SubSeq(s, k, k + n - 1) \in DOMAIN New}
PutAt(s, n, New) == [k \in Hits(s, n, New) |-> New[SubSeq(s, k, k + n - 1)]]

LEMMA PassIs ==
  ASSUME NEW s \in Seq(Byte), NEW n, NEW New,
         Fits(Len(s), n, Hits(s, n, New), PutAt(s, n, New))
  PROVE  \E R : PassedOver(s, n, Hits(s, n, New), PutAt(s, n, New), 1, R, OnePass(s, n, New))
<1> DEFINE L == Len(s)
           H == Hits(s, n, New)
           with == PutAt(s, n, New)
           known(k) == SubSeq(s, k, k + n - 1)
           from[k \in 1..(Len(s) + 1)] ==
             LET found == {j \in Places(s, n) : j >= k /\ known(j) \in DOMAIN New}
                 j     == Min(found)
             IN  IF found = {} THEN SubSeq(s, k, Len(s))
                 ELSE SubSeq(s, k, j - 1) \o New[known(j)] \o from[j + n]
<1>1. OnePass(s, n, New) = from[1]
  BY DEF OnePass
<1>2. ASSUME NEW g, NEW k \in 1..(L + 1)
      PROVE  PassAt(g, s, n, H, with, k) =
               LET found == {j \in Places(s, n) : j >= k /\ known(j) \in DOMAIN New}
                   j     == Min(found)
               IN  IF found = {} THEN SubSeq(s, k, Len(s))
                   ELSE SubSeq(s, k, j - 1) \o New[known(j)] \o g[j + n]
  <2> DEFINE found == {j \in Places(s, n) : j >= k /\ known(j) \in DOMAIN New}
             least == Min(found)
  <2>1. found = {j \in H : j >= k}
    BY DEF Hits
  <2>2. CASE found = {}
    BY <2>1, <2>2 DEF PassAt
  <2>3. CASE found # {}
    <3>1. least \in H
      BY <2>1, <2>3, NextHit
    <3>2. with[least] = New[known(least)]
      <4>. HIDE DEF least
      <4>. QED
        BY <3>1 DEF PutAt
    <3>. QED
      BY <2>1, <2>3, <3>2 DEF PassAt
  <2>. QED
    BY <2>2, <2>3
<1>3. PICK g : PassRun(g, s, L, n, H, with)
  <2>. HIDE DEF H, with
  <2>1. Fits(L, n, H, with)
    BY DEF H, with
  <2>. QED
    BY <2>1, PassRuns
<1>4. from = [k \in 1..(L + 1) |->
                LET found == {j \in Places(s, n) : j >= k /\ known(j) \in DOMAIN New}
                    j     == Min(found)
                IN  IF found = {} THEN SubSeq(s, k, Len(s))
                    ELSE SubSeq(s, k, j - 1) \o New[known(j)] \o from[j + n]]
  <2>1. g = [k \in 1..(L + 1) |->
               LET found == {j \in Places(s, n) : j >= k /\ known(j) \in DOMAIN New}
                   j     == Min(found)
               IN  IF found = {} THEN SubSeq(s, k, Len(s))
                   ELSE SubSeq(s, k, j - 1) \o New[known(j)] \o g[j + n]]
    <3>1. /\ g = [k \in 1..(L + 1) |-> g[k]]
          /\ \A k \in 1..(L + 1) : g[k] = PassAt(g, s, n, H, with, k)
      BY <1>3, Zenon DEF PassRun
    <3>. HIDE DEF H, with
    <3>. QED
      BY <1>2, <3>1, Zenon
  <2>. QED
    BY <2>1, Zenon
<1>. HIDE DEF from
<1>5. \A k \in 1..(L + 1) : from[k] = PassAt(from, s, n, H, with, k)
  <2>1. ASSUME NEW k \in 1..(L + 1)
        PROVE  from[k] = LET found == {j \in Places(s, n) : j >= k /\ known(j) \in DOMAIN New}
                             j     == Min(found)
                         IN  IF found = {} THEN SubSeq(s, k, Len(s))
                             ELSE SubSeq(s, k, j - 1) \o New[known(j)] \o from[j + n]
    BY <1>4, Zenon
  <2>. HIDE DEF H, with
  <2>. QED
    BY <1>2, <2>1, Zenon
<1>6. Fits(L, n, H, with)
  BY DEF L, H, with
<1>. HIDE DEF H, with
<1>7. from = [k \in 1..(L + 1) |-> from[k]]
  BY <1>4
<1>8. PassRun(from, s, L, n, H, with)
  BY <1>5, <1>7, Zenon DEF PassRun
<1>9. \E R : PassedOver(s, n, H, with, 1, R, from[1])
  BY <1>6, <1>8, PassAlong
<1>. QED
  BY <1>1, <1>9 DEF H, with

-----------------------------------------------------------------------------
(* Addresses in payloads. *)

LEMMA AddressIs == \A a \in Address : a \in Seq(Byte) /\ Len(a) = 4
<1>1. ASSUME NEW a \in Address PROVE a \in Seq(Byte) /\ Len(a) = 4
  <2>1. a \in Seq(Byte)
    <3>1. a = [i \in 1..4 |-> a[i]] /\ \A i \in 1..4 : a[i] \in Byte
      BY DEF Address
    <3>2. [i \in 1..4 |-> a[i]] \in Seq(Byte)
      BY <3>1, IsASeq
    <3>. QED
      BY <3>1, <3>2
  <2>2. DOMAIN a = 1..4 /\ DOMAIN a = 1..Len(a) /\ Len(a) \in Nat
    BY <2>1, LenProperties DEF Address
  <2>3. Len(a) = 4
    BY <2>2
  <2>. QED
    BY <2>1, <2>3
<1>. QED
  BY <1>1

LEMMA StandsMeans ==
  ASSUME NEW s \in Seq(Byte), NEW a \in Seq(Byte), NEW k
  PROVE  StandsAt(a, s, k) <=> /\ k \in 1..((Len(s) - Len(a)) + 1)
                               /\ \A i \in 1..Len(a) : s[(k - 1) + i] = a[i]
<1> DEFINE n == Len(a)
           t == Slice(s, k - 1, n)
<1>1. n \in Nat /\ Len(s) \in Nat
  BY LenProperties
<1>2. ASSUME k \in 1..((Len(s) - n) + 1)
      PROVE  (t = a) <=> \A i \in 1..n : s[(k - 1) + i] = a[i]
  <2>1. k - 1 \in Nat /\ (k - 1) + n <= Len(s)
    BY <1>1, <1>2
  <2>2. LET x == SubSeq(s, (k - 1) + 1, (k - 1) + n)
        IN  x \in Seq(Byte) /\ Len(x) = n /\ \A i \in 1..n : x[i] = s[i + (k - 1)]
    BY <1>1, <2>1, PieceOf
  <2>3. t \in Seq(Byte) /\ Len(t) = n /\ \A i \in 1..n : t[i] = s[i + (k - 1)]
    BY <2>2 DEF Slice
  <2>. HIDE DEF t
  <2>4. \A i \in 1..n : i + (k - 1) = (k - 1) + i
    BY <1>1, <2>1
  <2>5. ASSUME \A i \in 1..n : s[(k - 1) + i] = a[i] PROVE t = a
    <3>1. \A i \in 1..Len(t) : t[i] = a[i]
      BY <2>3, <2>4, <2>5
    <3>. QED
      BY <2>3, <3>1, SeqEqual
  <2>6. ASSUME t = a PROVE \A i \in 1..n : s[(k - 1) + i] = a[i]
    BY <2>3, <2>4, <2>6
  <2>. QED
    BY <2>5, <2>6
<1>. QED
  BY <1>2 DEF StandsAt, Places

(* A stretch of four bytes of s that is a.                                 *)
LEMMA AddressStands ==
  ASSUME NEW s \in Seq(Byte), NEW a \in Address, NEW k
  PROVE  StandsAt(a, s, k) <=> /\ k \in 1..(Len(s) - 3)
                               /\ \A i \in 1..4 : s[(k - 1) + i] = a[i]
<1>1. a \in Seq(Byte) /\ Len(a) = 4
  BY AddressIs
<1>2. Len(s) \in Nat
  BY LenProperties
<1>3. (Len(s) - 4) + 1 = Len(s) - 3
  BY <1>2
<1>4. StandsAt(a, s, k) <=> /\ k \in 1..((Len(s) - Len(a)) + 1)
                            /\ \A i \in 1..Len(a) : s[(k - 1) + i] = a[i]
  BY <1>1, StandsMeans, ZenonT(60)
<1>. QED
  BY <1>1, <1>3, <1>4

LEMMA FirstOf ==
  ASSUME NEW S, NEW s \in Seq(S), NEW n \in Nat, n <= Len(s)
  PROVE  /\ SubSeq(s, 1, n) \in Seq(S) /\ Len(SubSeq(s, 1, n)) = n
         /\ \A i \in 1..n : SubSeq(s, 1, n)[i] = s[i]
<1>1. Len(s) \in Nat
  BY LenProperties
<1>2. \A i \in 1..n : s[i] \in S
  BY <1>1, ElementOfSeq
<1>3. /\ SubSeq(s, 1, n) \in Seq(S)
      /\ Len(SubSeq(s, 1, n)) = IF 1 <= n THEN n - 1 + 1 ELSE 0
      /\ \A i \in 1..(n - 1 + 1) : SubSeq(s, 1, n)[i] = s[1 + i - 1]
  BY <1>2, SubSeqProperties
<1>4. n - 1 + 1 = n /\ (IF 1 <= n THEN n ELSE 0) = n /\ \A i \in 1..n : 1 + i - 1 = i
  OBVIOUS
<1>. QED
  BY <1>3, <1>4

LEMMA ApartMeans ==
  ASSUME NEW a \in Address, NEW b \in Address, Apart(a, b), NEW d \in 0..3
  PROVE  /\ \E i \in 1..(4 - d) : a[d + i] # b[i]
         /\ \E i \in 1..(4 - d) : b[d + i] # a[i]
<1> DEFINE n == 4 - d
<1>1. n \in 1..4 /\ 5 - n = d + 1 /\ d + n = 4 /\ d \in Nat /\ n \in Nat
  OBVIOUS
<1>2. /\ SubSeq(a, d + 1, 4) # SubSeq(b, 1, n)
      /\ SubSeq(b, d + 1, 4) # SubSeq(a, 1, n)
  BY <1>1 DEF Apart
<1>. HIDE DEF n
<1>3. ASSUME NEW x \in Address, NEW y \in Address, \A i \in 1..n : x[d + i] = y[i]
      PROVE  SubSeq(x, d + 1, 4) = SubSeq(y, 1, n)
  <2> DEFINE u == SubSeq(x, d + 1, d + n)
             v == SubSeq(y, 1, n)
  <2>1. x \in Seq(Byte) /\ Len(x) = 4 /\ y \in Seq(Byte) /\ Len(y) = 4
    BY AddressIs
  <2>0. d \in Nat /\ n \in Nat /\ d + n <= Len(x) /\ n <= Len(y)
    BY <1>1, <2>1
  <2>2. u \in Seq(Byte) /\ Len(u) = n /\ \A i \in 1..n : u[i] = x[i + d]
    BY <2>0, <2>1, PieceOf, ZenonT(60)
  <2>3. v \in Seq(Byte) /\ Len(v) = n /\ \A i \in 1..n : v[i] = y[i]
    BY <1>1, <2>0, <2>1, FirstOf
  <2>4. SubSeq(x, d + 1, 4) = u /\ SubSeq(y, 1, n) = v
    BY <1>1
  <2>. HIDE DEF u, v
  <2>5. \A i \in 1..n : i + d = d + i
    BY <1>1
  <2>6. \A i \in 1..Len(u) : u[i] = v[i]
    BY <1>3, <2>2, <2>3, <2>5
  <2>7. u = v
    BY <2>2, <2>3, <2>6, SeqEqual
  <2>. QED
    BY <2>4, <2>7
<1>. QED
  BY <1>2, <1>3 DEF n

(* t is s with ip replaced by mine at the places of R.                     *)
Replaced(s, ip, mine, R, t) ==
  /\ t \in Seq(Byte) /\ Len(t) = Len(s)
  /\ \A r \in R : StandsAt(ip, s, r)
  /\ \A r \in R : \A i \in 1..4 : t[(r - 1) + i] = mine[i]
  /\ \A i \in 1..Len(s) : (\A r \in R : i < r \/ r + 4 <= i) => t[i] = s[i]
  /\ \A j : StandsAt(ip, s, j) => \E r \in R : r <= j /\ j < r + 4

LEMMA AddressPass ==
  ASSUME NEW s \in Seq(Byte), NEW ip \in Address, NEW mine \in Address
  PROVE  \E R : Replaced(s, ip, mine, R, OnePass(s, 4, [x \in {ip} |-> mine]))
<1> DEFINE New == [x \in {ip} |-> mine]
           H == Hits(s, 4, New)
           with == PutAt(s, 4, New)
           t == OnePass(s, 4, New)
<1>1. Len(s) \in Nat /\ ip \in Seq(Byte) /\ mine \in Seq(Byte) /\ Len(ip) = 4 /\ Len(mine) = 4
  BY AddressIs, LenProperties
<1>2. ASSUME NEW k PROVE k \in H <=> StandsAt(ip, s, k)
  <2>1. ASSUME k \in Places(s, 4) PROVE SubSeq(s, k, k + 4 - 1) = Slice(s, k - 1, 4)
    <3>1. k \in Int
      BY <1>1, <2>1 DEF Places
    <3>2. (k - 1) + 1 = k /\ (k - 1) + 4 = k + 4 - 1
      BY <3>1
    <3>. QED
      BY <3>2 DEF Slice
  <2>2. k \in H <=> k \in Places(s, 4) /\ SubSeq(s, k, k + 4 - 1) = ip
    BY DEF Hits
  <2>. QED
    BY <1>1, <2>1, <2>2 DEF StandsAt
<1>3. ASSUME NEW k \in H PROVE with[k] = mine
  <2>1. SubSeq(s, k, k + 4 - 1) = ip
    BY DEF Hits
  <2>. QED
    BY <2>1 DEF PutAt
<1>4. H \subseteq 1..Len(s) /\ \A j \in H : j + 4 <= Len(s) + 1
  BY <1>1 DEF Hits, Places
<1>5. Fits(Len(s), 4, H, with)
  <2>. HIDE DEF H, with
  <2>. QED
    BY <1>1, <1>3, <1>4 DEF Fits
<1>6. PICK R : PassedOver(s, 4, H, with, 1, R, t)
  <2>1. \E R : PassedOver(s, 4, Hits(s, 4, New), PutAt(s, 4, New), 1, R, OnePass(s, 4, New))
    <3>. HIDE DEF New
    <3>. QED
      BY <1>5, PassIs
  <2>. QED
    BY <2>1
<1>. HIDE DEF t, H, with
<1>7. /\ t \in Seq(Byte) /\ Len(t) = (Len(s) + 1) - 1
      /\ R \subseteq H
      /\ \A r \in R : \A i \in 1..4 : t[(r - 1) + i] = with[r][i]
      /\ \A i \in 1..Len(s) : (\A r \in R : i < r \/ r + 4 <= i) => t[(i + 1) - 1] = s[i]
      /\ \A j \in H : j >= 1 => \E r \in R : r <= j /\ j < r + 4
  BY <1>6 DEF PassedOver
<1>8. Len(t) = Len(s) /\ \A i \in 1..Len(s) : (i + 1) - 1 = i
  BY <1>1, <1>7
<1>9. \A j \in H : j >= 1
  BY <1>1, <1>4
<1>10. Replaced(s, ip, mine, R, t)
  <2>1. \A r \in R : StandsAt(ip, s, r)
    BY <1>2, <1>7
  <2>2. \A r \in R : \A i \in 1..4 : t[(r - 1) + i] = mine[i]
    BY <1>3, <1>7
  <2>3. \A i \in 1..Len(s) : (\A r \in R : i < r \/ r + 4 <= i) => t[i] = s[i]
    BY <1>7, <1>8
  <2>4. \A j : StandsAt(ip, s, j) => \E r \in R : r <= j /\ j < r + 4
    BY <1>2, <1>7, <1>9
  <2>. QED
    BY <1>7, <1>8, <2>1, <2>2, <2>3, <2>4 DEF Replaced
<1>. QED
  BY <1>10 DEF t

(* An address that is apart from mine and stands in t stood in s, clear of *)
(* what was replaced.                                                      *)
LEMMA StoodBefore ==
  ASSUME NEW s \in Seq(Byte), NEW ip \in Address, NEW mine \in Address, NEW R, NEW t,
         Replaced(s, ip, mine, R, t), NEW a \in Address, Apart(mine, a),
         NEW k, StandsAt(a, t, k)
  PROVE  StandsAt(a, s, k) /\ \A r \in R : r + 4 <= k \/ k + 4 <= r
<1>1. /\ t \in Seq(Byte) /\ Len(t) = Len(s)
      /\ \A r \in R : StandsAt(ip, s, r)
      /\ \A r \in R : \A i \in 1..4 : t[(r - 1) + i] = mine[i]
      /\ \A i \in 1..Len(s) : (\A r \in R : i < r \/ r + 4 <= i) => t[i] = s[i]
  BY DEF Replaced
<1>2. Len(s) \in Nat /\ k \in 1..(Len(s) - 3) /\ \A i \in 1..4 : t[(k - 1) + i] = a[i]
  BY <1>1, AddressStands, LenProperties
<1>3. ASSUME NEW r \in R PROVE r \in 1..(Len(s) - 3)
  BY <1>1, AddressStands
<1>4. ASSUME NEW r \in R PROVE r + 4 <= k \/ k + 4 <= r
  <2>1. r \in Int /\ k \in Int
    BY <1>2, <1>3
  <2>2. ASSUME r <= k, k < r + 4 PROVE FALSE
    <3> DEFINE d == k - r
    <3>1. d \in 0..3
      BY <2>1, <2>2
    <3>2. PICK i \in 1..(4 - d) : mine[d + i] # a[i]
      <4>. HIDE DEF d
      <4>. QED
        BY <3>1, ApartMeans
    <3>3. d + i \in 1..4 /\ i \in 1..4 /\ (r - 1) + (d + i) = (k - 1) + i
      BY <2>1, <3>1
    <3>. HIDE DEF d
    <3>4. t[(r - 1) + (d + i)] = mine[d + i] /\ t[(k - 1) + i] = a[i]
      BY <1>1, <1>2, <3>3
    <3>. QED
      BY <3>2, <3>3, <3>4
  <2>3. ASSUME k < r, r < k + 4 PROVE FALSE
    <3> DEFINE d == r - k
    <3>1. d \in 0..3
      BY <2>1, <2>3
    <3>2. PICK i \in 1..(4 - d) : a[d + i] # mine[i]
      <4>. HIDE DEF d
      <4>. QED
        BY <3>1, ApartMeans
    <3>3. d + i \in 1..4 /\ i \in 1..4 /\ (k - 1) + (d + i) = (r - 1) + i
      BY <2>1, <3>1
    <3>. HIDE DEF d
    <3>4. t[(k - 1) + (d + i)] = a[d + i] /\ t[(r - 1) + i] = mine[i]
      BY <1>1, <1>2, <3>3
    <3>. QED
      BY <3>2, <3>3, <3>4
  <2>. QED
    BY <2>1, <2>2, <2>3
<1>5. ASSUME NEW i \in 1..4 PROVE s[(k - 1) + i] = a[i]
  <2> DEFINE m == (k - 1) + i
  <2>1. m \in 1..Len(s)
    BY <1>2
  <2>2. ASSUME NEW r \in R PROVE m < r \/ r + 4 <= m
    <3>1. r \in Int /\ k \in Int /\ (r + 4 <= k \/ k + 4 <= r)
      BY <1>2, <1>3, <1>4
    <3>. QED
      BY <3>1
  <2>. HIDE DEF m
  <2>3. t[m] = s[m]
    BY <1>1, <2>1, <2>2
  <2>. QED
    BY <1>2, <2>3 DEF m
<1>6. StandsAt(a, s, k)
  BY <1>2, <1>5, AddressStands
<1>. QED
  BY <1>4, <1>6

(* What one pass does to a payload.                                        *)
Without(s, ip, mine) == OnePass(s, 4, [x \in {ip} |-> mine])

LEMMA PassLeaves ==
  ASSUME NEW s \in Seq(Byte), NEW ip \in Address, NEW mine \in Address
  PROVE  LET t == Without(s, ip, mine)
         IN  /\ t \in Seq(Byte) /\ Len(t) = Len(s)
             /\ \A a \in Address : Apart(mine, a) =>
                  \A k : StandsAt(a, t, k) => StandsAt(a, s, k)
             /\ Apart(mine, ip) => \A k : ~StandsAt(ip, t, k)
             /\ \A i \in 1..Len(s) : t[i] # s[i] =>
                  \E j \in (i - 3)..i : StandsAt(ip, s, j)
<1> DEFINE t == Without(s, ip, mine)
<1>1. PICK R : Replaced(s, ip, mine, R, t)
  BY AddressPass DEF Without
<1>. HIDE DEF t
<1>2. /\ t \in Seq(Byte) /\ Len(t) = Len(s)
      /\ \A r \in R : StandsAt(ip, s, r)
      /\ \A i \in 1..Len(s) : (\A r \in R : i < r \/ r + 4 <= i) => t[i] = s[i]
      /\ \A j : StandsAt(ip, s, j) => \E r \in R : r <= j /\ j < r + 4
  BY <1>1 DEF Replaced
<1>3. ASSUME NEW a \in Address, Apart(mine, a), NEW k, StandsAt(a, t, k)
      PROVE  StandsAt(a, s, k)
  BY <1>1, <1>3, StoodBefore
<1>4. ASSUME Apart(mine, ip), NEW k, StandsAt(ip, t, k)
      PROVE  FALSE
  <2>1. StandsAt(ip, s, k) /\ \A r \in R : r + 4 <= k \/ k + 4 <= r
    BY <1>1, <1>4, StoodBefore
  <2>2. PICK r \in R : r <= k /\ k < r + 4
    BY <1>2, <2>1
  <2>3. r \in Int /\ k \in Int
    BY <1>2, <2>1, AddressStands
  <2>. QED
    BY <2>1, <2>2, <2>3
<1>5. ASSUME NEW i \in 1..Len(s), t[i] # s[i]
      PROVE  \E j \in (i - 3)..i : StandsAt(ip, s, j)
  <2>1. PICK r \in R : ~(i < r \/ r + 4 <= i)
    BY <1>2, <1>5
  <2>2. StandsAt(ip, s, r)
    BY <1>2
  <2>3. r \in Int
    BY <2>2, AddressStands
  <2>4. r \in (i - 3)..i
    BY <2>1, <2>3
  <2>. QED
    BY <2>2, <2>4
<1>6. /\ t \in Seq(Byte) /\ Len(t) = Len(s)
      /\ \A a \in Address : Apart(mine, a) =>
           \A k : StandsAt(a, t, k) => StandsAt(a, s, k)
      /\ Apart(mine, ip) => \A k : ~StandsAt(ip, t, k)
      /\ \A i \in 1..Len(s) : t[i] # s[i] =>
           \E j \in (i - 3)..i : StandsAt(ip, s, j)
  BY <1>2, <1>3, <1>4, <1>5
<1>. QED
  BY <1>6 DEF t

(* t is s after the first k addresses have been replaced.                  *)
Cleaned(s, ips, mine, k, t) ==
  /\ t \in Seq(Byte) /\ Len(t) = Len(s)
  /\ \A a \in Address : Apart(mine, a) => \A j : StandsAt(a, t, j) => StandsAt(a, s, j)
  /\ \A m \in 1..k : Apart(mine, ips[m]) => \A j : ~StandsAt(ips[m], t, j)
  /\ (\A m \in 1..k : Apart(mine, ips[m])) =>
       \A i \in 1..Len(s) : t[i] # s[i] =>
         \E m \in 1..k : \E j \in (i - 3)..i : StandsAt(ips[m], s, j)
  /\ (\A m \in 1..k : \A j : ~StandsAt(ips[m], s, j)) => t = s

LEMMA NothingCleaned ==
  ASSUME NEW s \in Seq(Byte), NEW ips, NEW mine
  PROVE  Cleaned(s, ips, mine, 0, s)
<1>1. 1..0 = {}
  OBVIOUS
<1>. QED
  BY <1>1 DEF Cleaned

LEMMA OneMoreCleaned ==
  ASSUME NEW s \in Seq(Byte), NEW ips \in Seq(Address), NEW mine \in Address,
         NEW k \in Nat, k + 1 <= Len(ips), NEW t, Cleaned(s, ips, mine, k, t)
  PROVE  Cleaned(s, ips, mine, k + 1, Without(t, ips[k + 1], mine))
<1> DEFINE ip == ips[k + 1]
           u == Without(t, ips[k + 1], mine)
<1>0. Len(ips) \in Nat /\ k + 1 \in 1..(k + 1) /\ \A m \in 1..k : m \in 1..(k + 1)
  BY LenProperties
<1>1. ip \in Address
  <2>1. k + 1 \in 1..Len(ips)
    BY <1>0
  <2>. QED
    BY <2>1, ElementOfSeq
<1>2. /\ t \in Seq(Byte) /\ Len(t) = Len(s)
      /\ \A a \in Address : Apart(mine, a) => \A j : StandsAt(a, t, j) => StandsAt(a, s, j)
      /\ \A m \in 1..k : Apart(mine, ips[m]) => \A j : ~StandsAt(ips[m], t, j)
      /\ (\A m \in 1..k : Apart(mine, ips[m])) =>
           \A i \in 1..Len(s) : t[i] # s[i] =>
             \E m \in 1..k : \E j \in (i - 3)..i : StandsAt(ips[m], s, j)
      /\ (\A m \in 1..k : \A j : ~StandsAt(ips[m], s, j)) => t = s
  BY DEF Cleaned
<1>. HIDE DEF ip
<1>3. /\ u \in Seq(Byte) /\ Len(u) = Len(t)
      /\ \A a \in Address : Apart(mine, a) =>
           \A j : StandsAt(a, u, j) => StandsAt(a, t, j)
      /\ Apart(mine, ip) => \A j : ~StandsAt(ip, u, j)
      /\ \A i \in 1..Len(t) : u[i] # t[i] =>
           \E j \in (i - 3)..i : StandsAt(ip, t, j)
  <2>1. u = Without(t, ip, mine)
    BY DEF ip
  <2>2. LET v == Without(t, ip, mine)
        IN  /\ v \in Seq(Byte) /\ Len(v) = Len(t)
            /\ \A a \in Address : Apart(mine, a) =>
                 \A j : StandsAt(a, v, j) => StandsAt(a, t, j)
            /\ Apart(mine, ip) => \A j : ~StandsAt(ip, v, j)
            /\ \A i \in 1..Len(t) : v[i] # t[i] =>
                 \E j \in (i - 3)..i : StandsAt(ip, t, j)
    BY <1>1, <1>2, PassLeaves
  <2>. HIDE DEF u
  <2>. QED
    BY <2>1, <2>2
<1>. HIDE DEF u
<1>4. \A m \in 1..(k + 1) : m \in 1..k \/ m = k + 1
  OBVIOUS
<1>5. \A m \in 1..(k + 1) : ips[m] \in Address
  <2>1. \A m \in 1..(k + 1) : m \in 1..Len(ips)
    BY <1>0
  <2>. QED
    BY <2>1, ElementOfSeq
<1>6. ASSUME NEW m \in 1..(k + 1), Apart(mine, ips[m]), NEW j PROVE ~StandsAt(ips[m], u, j)
  <2>1. CASE m = k + 1
    BY <1>3, <1>6, <2>1 DEF ip
  <2>2. CASE m \in 1..k
    BY <1>2, <1>3, <1>5, <1>6, <2>2
  <2>. QED
    BY <1>4, <2>1, <2>2
<1>7. ASSUME \A m \in 1..(k + 1) : Apart(mine, ips[m]), NEW i \in 1..Len(s), u[i] # s[i]
      PROVE  \E m \in 1..(k + 1) : \E j \in (i - 3)..i : StandsAt(ips[m], s, j)
  <2>1. CASE t[i] # s[i]
    <3>1. \A m \in 1..k : Apart(mine, ips[m])
      BY <1>0, <1>7
    <3>2. PICK m \in 1..k : \E j \in (i - 3)..i : StandsAt(ips[m], s, j)
      BY <1>2, <2>1, <3>1
    <3>. QED
      BY <1>0, <3>2
  <2>2. CASE t[i] = s[i]
    <3>1. PICK j \in (i - 3)..i : StandsAt(ip, t, j)
      BY <1>2, <1>3, <1>7, <2>2
    <3>2. Apart(mine, ip)
      BY <1>0, <1>7 DEF ip
    <3>3. StandsAt(ip, s, j)
      BY <1>1, <1>2, <3>1, <3>2
    <3>. QED
      BY <1>0, <3>3 DEF ip
  <2>. QED
    BY <2>1, <2>2
<1>8. ASSUME \A m \in 1..(k + 1) : \A j : ~StandsAt(ips[m], s, j) PROVE u = s
  <2>1. t = s
    BY <1>0, <1>2, <1>8
  <2>2. \A j : ~StandsAt(ip, t, j)
    BY <1>0, <1>8, <2>1 DEF ip
  <2>3. \A i \in 1..Len(u) : u[i] = t[i]
    BY <1>3, <2>2
  <2>4. u = t
    BY <1>2, <1>3, <2>3, SeqEqual
  <2>. QED
    BY <2>1, <2>4
<1>9. \A a \in Address : Apart(mine, a) => \A j : StandsAt(a, u, j) => StandsAt(a, s, j)
  BY <1>2, <1>3
<1>10. Cleaned(s, ips, mine, k + 1, u)
  BY <1>2, <1>3, <1>6, <1>7, <1>8, <1>9 DEF Cleaned
<1>. QED
  BY <1>10 DEF u

(* What the whole rewriting does.                                          *)
LEMMA RewriteCleans ==
  ASSUME NEW s \in Seq(Byte), NEW ips \in Seq(Address), NEW mine \in Address
  PROVE  Cleaned(s, ips, mine, Len(ips), Rewrite(s, ips, mine))
<1> DEFINE n == Len(ips)
           after[k \in 0..n] == IF k = 0 THEN s
                                ELSE OnePass(after[k - 1], 4, [x \in {ips[k]} |-> mine])
<1>0. n \in Nat
  BY LenProperties
<1>1. Rewrite(s, ips, mine) = after[n]
  BY DEF Rewrite
<1>2. after = [k \in 0..n |-> IF k = 0 THEN s
                              ELSE OnePass(after[k - 1], 4, [x \in {ips[k]} |-> mine])]
  <2> DEFINE step == [k \in 1..n |-> [u \in Seq(Byte) |-> Without(u, ips[k], mine)]]
  <2>1. IsStep(step, n, Seq(Byte))
    <3>1. ASSUME NEW k \in 1..n, NEW u \in Seq(Byte)
          PROVE  Without(u, ips[k], mine) \in Seq(Byte)
      <4> DEFINE ip == ips[k]
                 v == Without(u, ip, mine)
      <4>1. ip \in Address
        BY ElementOfSeq
      <4>. HIDE DEF ip
      <4>2. v \in Seq(Byte)
        BY <4>1, PassLeaves
      <4>. QED
        BY <4>2 DEF ip
    <3>. QED
      BY <3>1 DEF IsStep
  <2>. HIDE DEF step
  <2>2. PICK g : Iterates(g, n, Seq(Byte), s, step)
    BY <1>0, <2>1, Iterated
  <2>3. ASSUME NEW k \in 0..n
        PROVE  g[k] = IF k = 0 THEN s ELSE Without(g[k - 1], ips[k], mine)
    <3>1. CASE k = 0
      BY <2>2, <3>1 DEF Iterates
    <3>2. CASE k # 0
      <4>1. k \in 1..n /\ k - 1 \in 0..n
        BY <1>0, <3>2
      <4>2. g[k - 1] \in Seq(Byte) /\ g[k] = step[k][g[k - 1]]
        BY <2>2, <4>1 DEF Iterates
      <4>3. g[k] = Without(g[k - 1], ips[k], mine)
        BY <4>1, <4>2 DEF step
      <4>. QED
        BY <3>2, <4>3
    <3>. QED
      BY <3>1, <3>2
  <2>4. g = [k \in 0..n |-> g[k]]
    BY <2>2 DEF Iterates
  <2>5. g = [k \in 0..n |-> IF k = 0 THEN s
                            ELSE OnePass(g[k - 1], 4, [x \in {ips[k]} |-> mine])]
    BY <2>3, <2>4, Zenon DEF Without
  <2>. QED
    BY <2>5, Zenon
<1>. HIDE DEF after
<1>3. after[0] = s /\ \A k \in 1..n : after[k] = Without(after[k - 1], ips[k], mine)
  <2>1. ASSUME NEW k \in 0..n
        PROVE  after[k] = IF k = 0 THEN s
                          ELSE OnePass(after[k - 1], 4, [x \in {ips[k]} |-> mine])
    BY <1>2, Zenon
  <2>2. 0 \in 0..n /\ \A k \in 1..n : k \in 0..n /\ k # 0
    BY <1>0
  <2>. QED
    BY <2>1, <2>2, Zenon DEF Without
<1> DEFINE Good == {k \in Nat : k <= n => Cleaned(s, ips, mine, k, after[k])}
<1>4. 0 \in Good
  BY <1>3, NothingCleaned
<1>5. ASSUME NEW k \in Nat, k \in Good PROVE k + 1 \in Good
  <2>1. ASSUME k + 1 <= n PROVE Cleaned(s, ips, mine, k + 1, after[k + 1])
    <3>1. k <= n /\ k + 1 \in 1..n /\ (k + 1) - 1 = k
      BY <1>0, <2>1
    <3>2. Cleaned(s, ips, mine, k, after[k])
      BY <1>5, <3>1
    <3>3. after[k + 1] = Without(after[k], ips[k + 1], mine)
      BY <1>3, <3>1
    <3>4. Cleaned(s, ips, mine, k + 1, Without(after[k], ips[k + 1], mine))
      BY <2>1, <3>2, OneMoreCleaned
    <3>. QED
      BY <3>3, <3>4
  <2>. QED
    BY <2>1
<1>6. n \in Good
  <2>. HIDE DEF Good
  <2>. QED
    BY <1>0, <1>4, <1>5, NatSetInduction
<1>. QED
  BY <1>0, <1>1, <1>6

-----------------------------------------------------------------------------
(* What the emulator has of the recording is made of bytes. *)

LEMMA FlattenIn ==
  ASSUME NEW S, NEW seqs \in Seq(Seq(S))
  PROVE  FlattenSeq(seqs) \in Seq(S)
<1> DEFINE n == Len(seqs)
<1>1. n \in Nat
  BY LenProperties
<1>2. CASE n = 0
  <2>1. seqs = <<>>
    BY <1>2, EmptySeq
  <2>. QED
    BY <1>2, <2>1, EmptySeq DEF FlattenSeq
<1>3. CASE n # 0
  <2> DEFINE flat[i \in 1..n] == IF i = 1 THEN seqs[i] ELSE flat[i - 1] \o seqs[i]
  <2>1. /\ FlattenSeq(seqs) = flat[n]
        /\ \A i \in 1..n : flat[i] = IF i = 1 THEN seqs[i] ELSE flat[i - 1] \o seqs[i]
    <3>1. FlattenSeq(seqs) = flat[n]
      BY <1>3 DEF FlattenSeq
    <3>2. \E g : /\ g = [i \in 1..n |-> g[i]]
                 /\ \A i \in 1..n : g[i] = IF i = 1 THEN seqs[i] ELSE g[i - 1] \o seqs[i]
      BY <1>1, FlattenRuns, ZenonT(60)
    <3>3. \E g : g = [i \in 1..n |-> IF i = 1 THEN seqs[i] ELSE g[i - 1] \o seqs[i]]
      BY <3>2, ZenonT(60)
    <3>4. flat = [i \in 1..n |-> IF i = 1 THEN seqs[i] ELSE flat[i - 1] \o seqs[i]]
      BY <3>3, Zenon
    <3>. HIDE DEF flat
    <3>. QED
      BY <3>1, <3>4
  <2>. HIDE DEF flat
  <2>2. \A i \in 1..n : seqs[i] \in Seq(S)
    BY ElementOfSeq
  <2> DEFINE Good == {i \in Nat : i + 1 <= n => flat[i + 1] \in Seq(S)}
  <2>3. 0 \in Good
    <3>1. 1 \in 1..n /\ 0 + 1 = 1
      BY <1>1, <1>3
    <3>2. flat[1] = seqs[1]
      BY <2>1, <3>1
    <3>. QED
      BY <2>2, <3>1, <3>2
  <2>4. ASSUME NEW i \in Nat, i \in Good PROVE i + 1 \in Good
    <3>1. ASSUME (i + 1) + 1 <= n PROVE flat[(i + 1) + 1] \in Seq(S)
      <4> DEFINE j == (i + 1) + 1
      <4>1. j \in 1..n /\ j # 1 /\ j - 1 = i + 1 /\ i + 1 <= n
        BY <1>1, <3>1
      <4>2. flat[i + 1] \in Seq(S)
        BY <2>4, <4>1
      <4>. HIDE DEF j
      <4>3. flat[j] = flat[i + 1] \o seqs[j] /\ seqs[j] \in Seq(S)
        BY <2>1, <2>2, <4>1
      <4>4. flat[j] \in Seq(S)
        BY <4>2, <4>3, ConcatProperties
      <4>. QED
        BY <4>4 DEF j
    <3>. QED
      BY <3>1
  <2>5. Nat \subseteq Good
    <3>. HIDE DEF Good
    <3>. QED
      BY <2>3, <2>4, NatSetInduction
  <2>6. n - 1 \in Nat /\ (n - 1) + 1 = n
    BY <1>1, <1>3
  <2>7. n - 1 \in Good
    <3>. HIDE DEF Good
    <3>. QED
      BY <2>5, <2>6
  <2>. QED
    BY <1>1, <2>1, <2>6, <2>7
<1>. QED
  BY <1>2, <1>3

LEMMA ListedAre ==
  ASSUME NEW s \in Seq(Byte), NEW mine
  PROVE  ListedIps(s, mine) \in Seq(Address)
<1> DEFINE host(k) == SubSeq(s, k, k + 3)
           P == {k \in Places(s, 6) : /\ SubSeq(s, k + 4, k + 5) = <<27, 7>>
                                      /\ host(k)[1] \notin {0, 127} /\ host(k) # mine}
           at == Ascending(Len(s), P)
<1>1. Len(s) \in Nat
  BY LenProperties
<1>2. ListedIps(s, mine) = [i \in 1..Len(at) |-> host(at[i])]
  BY DEF ListedIps
<1>3. at \in Seq(P \cap 1..Len(s))
  <2>. HIDE DEF P
  <2>. QED
    BY <1>1, AscendingIs
<1>4. P \subseteq Places(s, 6)
  OBVIOUS
<1>. HIDE DEF at, P
<1>5. ASSUME NEW k \in Places(s, 6) PROVE host(k) \in Address
  <2>1. k \in Int /\ k + 3 \in Int /\ k >= 1 /\ k + 3 <= Len(s)
    BY <1>1 DEF Places
  <2>2. \A i \in k..(k + 3) : s[i] \in Byte
    <3>1. \A i \in k..(k + 3) : i \in 1..Len(s)
      BY <1>1, <2>1
    <3>. QED
      BY <3>1, ElementOfSeq
  <2>3. /\ host(k) \in Seq(Byte)
        /\ Len(host(k)) = IF k <= k + 3 THEN k + 3 - k + 1 ELSE 0
    BY <2>1, <2>2, SubSeqProperties
  <2>4. (IF k <= k + 3 THEN k + 3 - k + 1 ELSE 0) = 4
    BY <2>1
  <2>. HIDE DEF host
  <2>5. host(k) \in [1..Len(host(k)) -> Byte]
    BY <2>3, LenProperties
  <2>. QED
    BY <2>3, <2>4, <2>5 DEF Address
<1>6. Len(at) \in Nat /\ \A i \in 1..Len(at) : at[i] \in Places(s, 6)
  BY <1>3, <1>4, LenProperties, ElementOfSeq
<1>. HIDE DEF host
<1>7. \A i \in 1..Len(at) : host(at[i]) \in Address
  BY <1>5, <1>6
<1>8. [i \in 1..Len(at) |-> host(at[i])] \in Seq(Address)
  BY <1>6, <1>7, IsASeq
<1>. QED
  BY <1>2, <1>8

(* Each line of Those is one of those lines.                               *)
LEMMA ThoseIn ==
  ASSUME NEW S, NEW s \in Seq(S), NEW P, NEW T, \A i \in P \cap 1..Len(s) : s[i] \in T
  PROVE  Those(s, P) \in Seq(T)
<1> DEFINE R == {s[i] : i \in P \cap 1..Len(s)}
<1>1. Those(s, P) \in Seq(R)
  BY ThoseAre
<1>2. R \subseteq T
  OBVIOUS
<1>. HIDE DEF R
<1>. QED
  BY <1>1, <1>2, SeqMonotonic

LEMMA EndpointsAre == EndpointIps(Lines) \in Seq(Address)
<1> DEFINE P == {i \in 1..Len(Lines) : Lines[i].kind = "server_endpoint"}
           seen == Those(Lines, P)
<1>1. Lines \in Seq(NetLine \cup EndpointLine)
  BY LinesAssumption
<1>2. ASSUME NEW i \in P \cap 1..Len(Lines) PROVE Lines[i] \in EndpointLine
  <2>1. Lines[i] \in NetLine \cup EndpointLine /\ Lines[i].kind = "server_endpoint"
    BY <1>1, ElementOfSeq
  <2>2. Lines[i] \notin NetLine
    BY <2>1 DEF NetLine
  <2>. QED
    BY <2>1, <2>2
<1>3. seen \in Seq(EndpointLine)
  <2>. HIDE DEF P
  <2>. QED
    BY <1>1, <1>2, ThoseIn
<1>. HIDE DEF seen
<1>4. Len(seen) \in Nat /\ \A i \in 1..Len(seen) : seen[i] \in EndpointLine
  BY <1>3, LenProperties, ElementOfSeq
<1>5. \A i \in 1..Len(seen) : seen[i].ip \in Address
  BY <1>4 DEF EndpointLine
<1>6. [i \in 1..Len(seen) |-> seen[i].ip] \in Seq(Address)
  BY <1>4, <1>5, IsASeq
<1>. QED
  BY <1>6 DEF EndpointIps, seen

Ports == {"1818", "1819", "18123", "18124"}
Typed(qs) == DOMAIN qs = Ports /\ \A p \in Ports : qs[p] \in Seq(NetLine)

LEMMA QueuesTyped == Typed(Queues)
<1>1. Lines \in Seq(NetLine \cup EndpointLine)
  BY LinesAssumption
<1>2. ASSUME NEW p \in Ports PROVE Queues[p] \in Seq(NetLine)
  <2> DEFINE P == {i \in 1..Len(Lines) :
                     /\ Lines[i].kind = "net" /\ Lines[i].port = p
                     /\ ~(/\ Lines[i].cipher = "none" /\ p \in PLAINTEXT_PORTS
                          /\ Lines[i].op = KEEPALIVE_OP)}
  <2>1. Queues[p] = Those(Lines, P)
    BY DEF Queues, Ports
  <2>2. ASSUME NEW i \in P \cap 1..Len(Lines) PROVE Lines[i] \in NetLine
    <3>1. Lines[i] \in NetLine \cup EndpointLine /\ Lines[i].kind = "net"
      BY <1>1, ElementOfSeq
    <3>2. Lines[i] \notin EndpointLine
      BY <3>1 DEF EndpointLine
    <3>. QED
      BY <3>1, <3>2
  <2>. HIDE DEF P
  <2>3. Those(Lines, P) \in Seq(NetLine)
    BY <1>1, <2>2, ThoseIn
  <2>. QED
    BY <2>1, <2>3
<1>3. DOMAIN Queues = Ports
  BY DEF Queues, Ports
<1>. QED
  BY <1>2, <1>3 DEF Typed

LEMMA SentAre ==
  ASSUME NEW q \in Seq(NetLine)
  PROVE  /\ FromServerIn(q) \in Seq(NetLine)
         /\ \A i \in 1..Len(FromServerIn(q)) : FromServerIn(q)[i].payload \in Seq(Byte)
<1>1. \A i \in 1..Len(q) : q[i] \in NetLine
  BY ElementOfSeq
<1>2. FromServerIn(q) \in Seq(NetLine)
  BY <1>1, ThoseIn DEF FromServerIn
<1>3. \A i \in 1..Len(FromServerIn(q)) : FromServerIn(q)[i] \in NetLine
  BY <1>2, ElementOfSeq
<1>. QED
  BY <1>2, <1>3 DEF NetLine

LEMMA IpsAre ==
  ASSUME Typed(queues)
  PROVE  Ips \in Seq(Address)
<1> DEFINE ports == <<"1818", "1819", "18123", "18124">>
           sent1(p) == FromServerIn(queues[p])
           listed(p) == [i \in 1..Len(sent1(p)) |-> ListedIps(sent1(p)[i].payload, Mine)]
           ips == [i \in 1..Len(ports) |-> FlattenSeq(listed(ports[i]))]
           all == EndpointIps(Lines) \o FlattenSeq(ips)
<1>1. Ips = Distinct(all)
  BY DEF Ips, ProdIps
<1>2. Len(ports) = 4 /\ \A i \in 1..4 : ports[i] \in Ports
  BY DEF Ports
<1>3. ASSUME NEW p \in Ports PROVE FlattenSeq(listed(p)) \in Seq(Address)
  <2> DEFINE s == sent1(p)
  <2>1. s \in Seq(NetLine) /\ \A i \in 1..Len(s) : s[i].payload \in Seq(Byte)
    BY SentAre DEF Typed
  <2>. HIDE DEF s
  <2>2. Len(s) \in Nat /\ \A i \in 1..Len(s) : ListedIps(s[i].payload, Mine) \in Seq(Address)
    BY <2>1, LenProperties, ListedAre
  <2>3. [i \in 1..Len(s) |-> ListedIps(s[i].payload, Mine)] \in Seq(Seq(Address))
    BY <2>2, IsASeq
  <2>4. FlattenSeq([i \in 1..Len(s) |-> ListedIps(s[i].payload, Mine)]) \in Seq(Address)
    BY <2>3, FlattenIn
  <2>. QED
    BY <2>4 DEF s
<1>. HIDE DEF listed
<1>4. \A i \in 1..4 : FlattenSeq(listed(ports[i])) \in Seq(Address)
  BY <1>2, <1>3
<1>5. ips \in Seq(Seq(Address))
  <2>. HIDE DEF ports
  <2>1. [i \in 1..4 |-> FlattenSeq(listed(ports[i]))] \in Seq(Seq(Address))
    BY <1>4, IsASeq
  <2>. QED
    BY <1>2, <2>1
<1>. HIDE DEF ips
<1>6. all \in Seq(Address)
  <2>1. FlattenSeq(ips) \in Seq(Address)
    BY <1>5, FlattenIn
  <2>. QED
    BY <2>1, EndpointsAre, ConcatProperties
<1>. HIDE DEF all
<1>7. \A i \in 1..Len(all) : all[i] \in Address
  BY <1>6, ElementOfSeq
<1>8. Distinct(all) \in Seq(Address)
  BY <1>6, <1>7, ThoseIn DEF Distinct
<1>. QED
  BY <1>1, <1>8

-----------------------------------------------------------------------------
(* The swap of two ids in a payload. *)

LEMMA PairOf ==
  ASSUME NEW s \in Seq(Byte), NEW k \in 1..(Len(s) - 1)
  PROVE  /\ SubSeq(s, k, k + 1) \in Seq(Byte) /\ Len(SubSeq(s, k, k + 1)) = 2
         /\ SubSeq(s, k, k + 1)[1] = s[k] /\ SubSeq(s, k, k + 1)[2] = s[k + 1]
<1> DEFINE t == SubSeq(s, (k - 1) + 1, (k - 1) + 2)
<1>1. Len(s) \in Nat
  BY LenProperties
<1>2. k - 1 \in Nat /\ 2 \in Nat /\ (k - 1) + 2 <= Len(s)
  BY <1>1
<1>3. t \in Seq(Byte) /\ Len(t) = 2 /\ \A i \in 1..2 : t[i] = s[i + (k - 1)]
  BY <1>2, PieceOf
<1>4. t = SubSeq(s, k, k + 1)
  BY <1>1
<1>. HIDE DEF t
<1>5. t[1] = s[1 + (k - 1)] /\ t[2] = s[2 + (k - 1)]
  BY <1>3
<1>6. 1 + (k - 1) = k /\ 2 + (k - 1) = k + 1
  BY <1>1
<1>. QED
  BY <1>3, <1>4, <1>5, <1>6

IsId(a) == a \in Seq(Byte) /\ Len(a) = 2

LEMMA IdEqual ==
  ASSUME NEW a, IsId(a), NEW b, IsId(b), a[1] = b[1], a[2] = b[2]
  PROVE  a = b
<1>1. a \in Seq(Byte) /\ b \in Seq(Byte) /\ Len(a) = 2 /\ Len(b) = 2
  BY DEF IsId
<1>2. \A i \in 1..2 : a[i] = b[i]
  OBVIOUS
<1>. QED
  BY <1>1, <1>2, SeqEqual

LEMMA IdIs ==
  ASSUME NEW n \in Half
  PROVE  IsId(IdBytes(n)) /\ IdBytes(n)[1] = n % 256 /\ IdBytes(n)[2] = n \div 256
<1> DEFINE lo == n % 256   hi == n \div 256
<1>1. lo \in Byte /\ hi \in Byte
  BY WordParts
<1>2. IdBytes(n) = <<lo, hi>>
  BY DEF IdBytes
<1>. HIDE DEF lo, hi
<1>3. <<lo, hi>> \in Seq(Byte) /\ Len(<<lo, hi>>) = 2 /\ <<lo, hi>>[1] = lo /\ <<lo, hi>>[2] = hi
  BY <1>1
<1>. QED
  BY <1>2, <1>3 DEF IsId, lo, hi

(* What one of the two ids gives way to. *)
OtherId(x, own, target) == IF x = own THEN target ELSE own

(* t is s with the ids at the places of R swapped.                         *)
SwappedAt(s, own, target, R, t) ==
  /\ t \in Seq(Byte) /\ Len(t) = Len(s)
  /\ R \subseteq IdPlaces(s, {own, target})
  /\ \A r \in R : /\ t[r] = OtherId(SubSeq(s, r, r + 1), own, target)[1]
                  /\ t[r + 1] = OtherId(SubSeq(s, r, r + 1), own, target)[2]
  /\ \A i \in 1..Len(s) : (\A r \in R : i < r \/ r + 2 <= i) => t[i] = s[i]
  /\ \A j \in IdPlaces(s, {own, target}) : \E r \in R : r <= j /\ j < r + 2

LEMMA SwapPass ==
  ASSUME NEW s \in Seq(Byte), NEW own, IsId(own), NEW target, IsId(target)
  PROVE  \E R : SwappedAt(s, own, target, R, ByteSwap(s, own, target))
<1> DEFINE New == [id \in {own, target} |-> IF id = own THEN target ELSE own]
           H == Hits(s, 2, New)
           with == PutAt(s, 2, New)
           t == ByteSwap(s, own, target)
           ids == {own, target}
<1>1. /\ Len(s) \in Nat
      /\ own \in Seq(Byte) /\ Len(own) = 2 /\ target \in Seq(Byte) /\ Len(target) = 2
  BY LenProperties DEF IsId
<1>2. ASSUME NEW k \in Places(s, 2) PROVE k \in Int /\ k + 2 - 1 = k + 1
  <2>1. k \in Int
    BY <1>1 DEF Places
  <2>. QED
    BY <2>1
<1>3. H = IdPlaces(s, ids)
  <2>1. H = {k \in Places(s, 2) : SubSeq(s, k, k + 2 - 1) \in ids}
    BY DEF Hits
  <2>. QED
    BY <1>2, <2>1 DEF IdPlaces
<1>4. ASSUME NEW k \in H PROVE with[k] = OtherId(SubSeq(s, k, k + 1), own, target)
  <2>1. k \in Places(s, 2) /\ SubSeq(s, k, k + 2 - 1) \in ids
    BY DEF Hits
  <2>2. with[k] = New[SubSeq(s, k, k + 2 - 1)]
    BY DEF PutAt
  <2>3. k + 2 - 1 = k + 1
    BY <1>2, <2>1
  <2>. QED
    BY <2>1, <2>2, <2>3 DEF OtherId
<1>5. \A k \in H : with[k] \in Seq(Byte) /\ Len(with[k]) = 2
  BY <1>1, <1>4 DEF OtherId
<1>6. H \subseteq 1..Len(s) /\ \A j \in H : j + 2 <= Len(s) + 1
  BY <1>1 DEF Hits, Places
<1>7. Fits(Len(s), 2, H, with)
  <2>. HIDE DEF H, with
  <2>. QED
    BY <1>1, <1>5, <1>6 DEF Fits
<1>8. PICK R : PassedOver(s, 2, H, with, 1, R, t)
  <2>1. \E R : PassedOver(s, 2, Hits(s, 2, New), PutAt(s, 2, New), 1, R, OnePass(s, 2, New))
    <3>. HIDE DEF New
    <3>. QED
      BY <1>7, PassIs
  <2>. QED
    BY <2>1 DEF ByteSwap
<1>. HIDE DEF t, H, with
<1>9. /\ t \in Seq(Byte) /\ Len(t) = (Len(s) + 1) - 1
      /\ R \subseteq H
      /\ \A r \in R : \A i \in 1..2 : t[(r - 1) + i] = with[r][i]
      /\ \A i \in 1..Len(s) : (\A r \in R : i < r \/ r + 2 <= i) => t[(i + 1) - 1] = s[i]
      /\ \A j \in H : j >= 1 => \E r \in R : r <= j /\ j < r + 2
  BY <1>8 DEF PassedOver
<1>10. Len(t) = Len(s) /\ \A i \in 1..Len(s) : (i + 1) - 1 = i
  BY <1>1, <1>9
<1>11. \A j \in H : j >= 1
  BY <1>1, <1>6
<1>12. ASSUME NEW r \in R
       PROVE  /\ t[r] = OtherId(SubSeq(s, r, r + 1), own, target)[1]
              /\ t[r + 1] = OtherId(SubSeq(s, r, r + 1), own, target)[2]
  <2>1. r \in H /\ r \in Int
    BY <1>6, <1>9
  <2>2. (r - 1) + 1 = r /\ (r - 1) + 2 = r + 1
    BY <2>1
  <2>3. \A i \in 1..2 : t[(r - 1) + i] = with[r][i]
    BY <1>9
  <2>4. t[(r - 1) + 1] = with[r][1] /\ t[(r - 1) + 2] = with[r][2]
    BY <2>3
  <2>. QED
    BY <1>4, <2>1, <2>2, <2>4
<1>13. SwappedAt(s, own, target, R, t)
  <2>1. \A i \in 1..Len(s) : (\A r \in R : i < r \/ r + 2 <= i) => t[i] = s[i]
    BY <1>9, <1>10
  <2>2. \A j \in H : \E r \in R : r <= j /\ j < r + 2
    BY <1>9, <1>11
  <2>. QED
    BY <1>3, <1>9, <1>10, <1>12, <2>1, <2>2 DEF SwappedAt
<1>. QED
  BY <1>13 DEF t

(* What the pass does to a payload.                                        *)
LEMMA SwapLeaves ==
  ASSUME NEW s \in Seq(Byte), NEW own, IsId(own), NEW target, IsId(target)
  PROVE  LET t   == ByteSwap(s, own, target)
             ids == {own, target}
         IN  /\ t \in Seq(Byte) /\ Len(t) = Len(s)
             /\ \A k \in 1..Len(s) : t[k] # s[k] => {k - 1, k} \cap IdPlaces(s, ids) # {}
             /\ Unmistakable(ids) =>
                  /\ IdPlaces(t, ids) = IdPlaces(s, ids)
                  /\ \A k \in IdPlaces(s, ids) :
                       {SubSeq(s, k, k + 1), SubSeq(t, k, k + 1)} = ids
             /\ \A k : IdPlaces(s, ids) = {k} =>
                  SubSeq(t, k, k + 1) = OtherId(SubSeq(s, k, k + 1), own, target)
<1> DEFINE t == ByteSwap(s, own, target)
           ids == {own, target}
<1>1. PICK R : SwappedAt(s, own, target, R, t)
  BY SwapPass
<1>. HIDE DEF t
<1>2. /\ t \in Seq(Byte) /\ Len(t) = Len(s)
      /\ R \subseteq IdPlaces(s, ids)
      /\ \A r \in R : /\ t[r] = OtherId(SubSeq(s, r, r + 1), own, target)[1]
                      /\ t[r + 1] = OtherId(SubSeq(s, r, r + 1), own, target)[2]
      /\ \A i \in 1..Len(s) : (\A r \in R : i < r \/ r + 2 <= i) => t[i] = s[i]
      /\ \A j \in IdPlaces(s, ids) : \E r \in R : r <= j /\ j < r + 2
  BY <1>1 DEF SwappedAt
<1>3. Len(s) \in Nat /\ (Len(s) - 2) + 1 = Len(s) - 1
  <2>1. Len(s) \in Nat
    BY LenProperties
  <2>. QED
    BY <2>1
<1>4. ASSUME NEW u \in Seq(Byte), Len(u) = Len(s), NEW k
      PROVE  k \in IdPlaces(u, ids) <=> k \in 1..(Len(s) - 1) /\ SubSeq(u, k, k + 1) \in ids
  BY <1>3, <1>4 DEF IdPlaces, Places
<1>5. ASSUME NEW r \in R
      PROVE  /\ r \in 1..(Len(s) - 1) /\ SubSeq(s, r, r + 1) \in ids
             /\ SubSeq(t, r, r + 1) = OtherId(SubSeq(s, r, r + 1), own, target)
  <2>1. r \in 1..(Len(s) - 1) /\ SubSeq(s, r, r + 1) \in ids
    BY <1>2, <1>4
  <2> DEFINE x == OtherId(SubSeq(s, r, r + 1), own, target)
             y == SubSeq(t, r, r + 1)
  <2>2. IsId(x)
    BY DEF OtherId
  <2>3. IsId(y) /\ y[1] = t[r] /\ y[2] = t[r + 1]
    BY <1>2, <2>1, PairOf DEF IsId
  <2>4. y[1] = x[1] /\ y[2] = x[2]
    BY <1>2, <2>3
  <2>. HIDE DEF x, y
  <2>5. y = x
    BY <2>2, <2>3, <2>4, IdEqual
  <2>. QED
    BY <2>1, <2>5 DEF x, y
<1>6. ASSUME NEW k \in 1..Len(s), t[k] # s[k]
      PROVE  {k - 1, k} \cap IdPlaces(s, ids) # {}
  <2>1. PICK r \in R : ~(k < r \/ r + 2 <= k)
    BY <1>2, <1>6
  <2>2. r \in IdPlaces(s, ids) /\ r \in 1..(Len(s) - 1)
    BY <1>2, <1>5
  <2>3. r = k - 1 \/ r = k
    BY <1>3, <2>1, <2>2
  <2>. QED
    BY <2>2, <2>3
<1>7. ASSUME Unmistakable(ids)
      PROVE  /\ IdPlaces(t, ids) = IdPlaces(s, ids)
             /\ \A k \in IdPlaces(s, ids) :
                  {SubSeq(s, k, k + 1), SubSeq(t, k, k + 1)} = ids
  <2>1. \A a, b \in ids : a[1] # b[2]
    BY <1>7 DEF Unmistakable
  <2>2. ASSUME NEW u \in Seq(Byte), Len(u) = Len(s),
               NEW k, k \in IdPlaces(u, ids), k + 1 \in IdPlaces(u, ids)
        PROVE  FALSE
    <3> DEFINE a == SubSeq(u, k, k + 1)
               b == SubSeq(u, k + 1, (k + 1) + 1)
    <3>1. k \in 1..(Len(s) - 1) /\ k + 1 \in 1..(Len(s) - 1) /\ a \in ids /\ b \in ids
      BY <1>4, <2>2
    <3>2. a[2] = u[k + 1]
      BY <2>2, <3>1, PairOf
    <3>3. b[1] = u[k + 1]
      BY <2>2, <3>1, PairOf
    <3>. HIDE DEF a, b
    <3>. QED
      BY <2>1, <3>1, <3>2, <3>3
  <2>3. IdPlaces(s, ids) \subseteq R
    <3>1. ASSUME NEW j \in IdPlaces(s, ids) PROVE j \in R
      <4>1. PICK r \in R : r <= j /\ j < r + 2
        BY <1>2
      <4>2. r \in 1..(Len(s) - 1) /\ r \in IdPlaces(s, ids)
        BY <1>2, <1>5
      <4>3. j \in 1..(Len(s) - 1)
        BY <1>4, <3>1
      <4>4. j = r \/ j = r + 1
        BY <1>3, <4>1, <4>2, <4>3
      <4>5. ASSUME j = r + 1 PROVE FALSE
        <5>1. r + 1 \in IdPlaces(s, ids)
          BY <3>1, <4>5
        <5>. QED
          BY <2>2, <4>2, <5>1
      <4>. QED
        BY <4>4, <4>5
    <3>. QED
      BY <3>1
  <2>4. ASSUME NEW r \in R PROVE r \in IdPlaces(t, ids)
    <3>1. r \in 1..(Len(s) - 1) /\ SubSeq(t, r, r + 1) \in ids
      BY <1>5 DEF OtherId
    <3>. QED
      BY <1>2, <1>4, <3>1
  <2>5. ASSUME NEW j \in IdPlaces(t, ids) PROVE j \in IdPlaces(s, ids)
    <3>1. j \in 1..(Len(s) - 1) /\ SubSeq(t, j, j + 1) \in ids
      BY <1>2, <1>4
    <3>2. CASE j \in R
      BY <1>2, <3>2
    <3>3. CASE j \notin R
      <4>1. j - 1 \notin R
        <5>1. ASSUME j - 1 \in R PROVE FALSE
          <6>1. j - 1 \in IdPlaces(t, ids)
            BY <2>4, <5>1
          <6>2. (j - 1) + 1 = j
            BY <1>3, <3>1
          <6>3. (j - 1) + 1 \in IdPlaces(t, ids)
            BY <2>5, <6>2
          <6>. QED
            BY <1>2, <2>2, <6>1, <6>3
        <5>. QED
          BY <5>1
      <4>2. j + 1 \notin R
        BY <1>2, <2>2, <2>4
      <4>3. ASSUME NEW r \in R
            PROVE  (j < r \/ r + 2 <= j) /\ (j + 1 < r \/ r + 2 <= j + 1)
        <5>1. r \in Int /\ j \in Int /\ r # j /\ r # j - 1 /\ r # j + 1
          BY <1>5, <3>1, <3>3, <4>1, <4>2
        <5>. QED
          BY <5>1
      <4>4. j \in 1..Len(s) /\ j + 1 \in 1..Len(s)
        BY <1>3, <3>1
      <4>5. t[j] = s[j] /\ t[j + 1] = s[j + 1]
        BY <1>2, <4>3, <4>4
      <4> DEFINE x == SubSeq(s, j, j + 1)
                 y == SubSeq(t, j, j + 1)
      <4>6. IsId(x) /\ x[1] = s[j] /\ x[2] = s[j + 1]
        BY <3>1, PairOf DEF IsId
      <4>7. IsId(y) /\ y[1] = t[j] /\ y[2] = t[j + 1]
        BY <1>2, <3>1, PairOf DEF IsId
      <4>8. x[1] = y[1] /\ x[2] = y[2]
        BY <4>5, <4>6, <4>7
      <4>. HIDE DEF x, y
      <4>9. x = y
        BY <4>6, <4>7, <4>8, IdEqual
      <4>10. SubSeq(s, j, j + 1) \in ids
        BY <3>1, <4>9 DEF x, y
      <4>. QED
        BY <1>4, <3>1, <4>10
    <3>. QED
      BY <3>2, <3>3
  <2>6. ASSUME NEW k \in IdPlaces(s, ids)
        PROVE  {SubSeq(s, k, k + 1), SubSeq(t, k, k + 1)} = ids
    <3> DEFINE x == SubSeq(s, k, k + 1)
               y == SubSeq(t, k, k + 1)
    <3>1. x \in ids /\ y = OtherId(x, own, target)
      BY <1>5, <2>3
    <3>. HIDE DEF x, y
    <3>2. {x, y} = ids
      BY <3>1 DEF OtherId
    <3>. QED
      BY <3>2 DEF x, y
  <2>. QED
    BY <2>3, <2>4, <2>5, <2>6
<1>8. ASSUME NEW k, IdPlaces(s, ids) = {k}
      PROVE  SubSeq(t, k, k + 1) = OtherId(SubSeq(s, k, k + 1), own, target)
  <2>1. k \in IdPlaces(s, ids)
    BY <1>8
  <2>2. PICK r \in R : r <= k /\ k < r + 2
    BY <1>2, <2>1
  <2>3. r = k
    BY <1>2, <1>8
  <2>. QED
    BY <1>5, <2>3
<1>9. /\ t \in Seq(Byte) /\ Len(t) = Len(s)
      /\ \A k \in 1..Len(s) : t[k] # s[k] => {k - 1, k} \cap IdPlaces(s, ids) # {}
      /\ Unmistakable(ids) =>
           /\ IdPlaces(t, ids) = IdPlaces(s, ids)
           /\ \A k \in IdPlaces(s, ids) :
                {SubSeq(s, k, k + 1), SubSeq(t, k, k + 1)} = ids
      /\ \A k : IdPlaces(s, ids) = {k} =>
           SubSeq(t, k, k + 1) = OtherId(SubSeq(s, k, k + 1), own, target)
  BY <1>2, <1>6, <1>7, <1>8
<1>. QED
  BY <1>9 DEF t

-----------------------------------------------------------------------------
(* What the swap is made of. *)

LEMMA PaddedIs ==
  ASSUME NEW name \in Seq(Byte)
  PROVE  Padded(name) \in Seq(Byte) /\ Len(Padded(name)) = 12
<1> DEFINE e(i) == IF i <= Len(name) THEN name[i] ELSE 0
<1>1. Len(name) \in Nat /\ 0 \in Byte
  BY LenProperties DEF Byte
<1>2. \A i \in 1..Len(name) : name[i] \in Byte
  BY ElementOfSeq
<1>3. \A i \in 1..12 : e(i) \in Byte
  BY <1>1, <1>2
<1>. HIDE DEF e
<1>4. [i \in 1..12 |-> e(i)] \in Seq(Byte) /\ Len([i \in 1..12 |-> e(i)]) = 12
  BY <1>3
<1>. QED
  BY <1>4 DEF Padded, e

LEMMA WordAt ==
  ASSUME NEW f \in Seq(Byte), NEW k \in Nat, k + 2 <= Len(f)
  PROVE  U16(f, k) \in Half
<1> DEFINE l == f[k + 1]
           h == f[k + 2]
<1>1. Len(f) \in Nat
  BY LenProperties
<1>2. k + 1 \in 1..Len(f) /\ k + 2 \in 1..Len(f) /\ (k + 1) + 1 = k + 2
  BY <1>1
<1>3. l \in Byte /\ h \in Byte
  BY <1>2, ElementOfSeq
<1>4. U16(f, k) = l + 256 * h
  BY <1>2 DEF U16, At
<1>. HIDE DEF l, h
<1>5. 256 * h + l \in Half
  BY <1>3, WordParts
<1>6. 256 * h + l = l + 256 * h
  BY <1>3 DEF Byte
<1>. QED
  BY <1>4, <1>5, <1>6

LEMMA SpawnIs ==
  ASSUME NEW f \in Seq(Byte)
  PROVE  ParseSpawn(f).actor \in Half /\ ParseSpawn(f).name \in Seq(Byte)
<1>1. Len(f) \in Nat
  BY LenProperties
<1>2. SpawnName(f) \in Seq(Byte)
  <2>1. CASE Len(f) < 58
    BY <2>1 DEF SpawnName
  <2>2. CASE ~(Len(f) < 58)
    <3> DEFINE n == 58 + U16(f, 56)
    <3>1. n \in Nat
      <4>1. U16(f, 56) \in Half
        BY <1>1, <2>2, WordAt
      <4>. QED
        BY <4>1 DEF Half
    <3>. HIDE DEF n
    <3> DEFINE m == Min({n, Len(f)})
    <3>2. m \in Nat /\ m <= Len(f)
      <4>1. {n, Len(f)} \subseteq Nat /\ {n, Len(f)} # {}
        BY <1>1, <3>1
      <4>2. m \in {n, Len(f)} /\ \A x \in {n, Len(f)} : m <= x
        BY <4>1, MinIsIn
      <4>. QED
        BY <1>1, <3>1, <4>2
    <3>3. SpawnName(f) = SubSeq(f, 59, m)
      BY <1>1, <2>2 DEF SpawnName, n
    <3>. HIDE DEF m
    <3>4. \A i \in 59..m : i \in 1..Len(f)
      BY <1>1, <3>2
    <3>5. \A i \in 59..m : f[i] \in Byte
      BY <3>4, ElementOfSeq
    <3>6. SubSeq(f, 59, m) \in Seq(Byte)
      BY <3>2, <3>5, SubSeqProperties
    <3>. QED
      BY <3>3, <3>6
  <2>. QED
    BY <2>1, <2>2
<1>3. <<>> \in Seq(Byte) /\ 0 \in Half
  BY EmptySeq DEF Half
<1>4. Len(f) >= 36 => U16(f, 10) \in Half
  BY <1>1, WordAt
<1>. QED
  BY <1>2, <1>3, <1>4 DEF ParseSpawn, NoSpawn

(* A name of twelve bytes is put where another one stands first.           *)
LEMMA ReplacedFirst ==
  ASSUME NEW s \in Seq(Byte), NEW old \in Seq(Byte), Len(old) = 12,
         NEW new \in Seq(Byte), Len(new) = 12
  PROVE  LET t == ReplaceFirst(s, old, new)
         IN  t \in Seq(Byte) /\ (Stands(old, s) => Stands(new, t))
<1> DEFINE places == {k \in Places(s, Len(old)) : Slice(s, k - 1, Len(old)) = old}
           t == ReplaceFirst(s, old, new)
           m == Min(places)
<1>1. Len(s) \in Nat
  BY LenProperties
<1>2. CASE places = {}
  <2>1. t = s
    BY <1>2 DEF ReplaceFirst
  <2>2. ~Stands(old, s)
    BY <1>2 DEF Stands, StandsAt
  <2>. QED
    BY <2>1, <2>2
<1>3. CASE places # {}
  <2>1. m \in places
    <3>1. places \subseteq Nat
      BY <1>1 DEF Places
    <3>. HIDE DEF places
    <3>. QED
      BY <1>3, <3>1, MinIsIn
  <2>2. t = Put(s, m - 1, new)
    BY <1>3 DEF ReplaceFirst
  <2>3. m \in 1..(Len(s) - 11)
    BY <1>1, <2>1 DEF Places
  <2>. HIDE DEF places, m, t
  <2> DEFINE u == SubSeq(s, 1, m - 1)
             w == SubSeq(s, m + 12, Len(s))
  <2>4. t = u \o new \o w
    <3>1. (m - 1) + Len(new) + 1 = m + 12
      BY <1>1, <2>3
    <3>. QED
      BY <2>2, <3>1 DEF Put
  <2>5. u \in Seq(Byte) /\ Len(u) = m - 1
    <3>1. m - 1 \in Nat /\ m - 1 <= Len(s)
      BY <1>1, <2>3
    <3>. QED
      BY <3>1, FirstOf
  <2>6. w \in Seq(Byte) /\ Len(w) = (Len(s) - (m + 12)) + 1
    <3>1. \A i \in (m + 12)..Len(s) : i \in 1..Len(s)
      BY <1>1, <2>3
    <3>2. \A i \in (m + 12)..Len(s) : s[i] \in Byte
      BY <3>1, ElementOfSeq
    <3>3. m + 12 \in Int /\ Len(s) \in Int
      BY <1>1, <2>3
    <3>4. w \in Seq(Byte) /\ Len(w) = IF m + 12 <= Len(s) THEN Len(s) - (m + 12) + 1 ELSE 0
      BY <3>2, <3>3, SubSeqProperties
    <3>5. (IF m + 12 <= Len(s) THEN Len(s) - (m + 12) + 1 ELSE 0) = (Len(s) - (m + 12)) + 1
      BY <1>1, <2>3
    <3>. QED
      BY <3>4, <3>5
  <2>. HIDE DEF u, w
  <2>7. /\ t \in Seq(Byte) /\ Len(t) = Len(u) + Len(new) + Len(w)
        /\ \A i \in 1..Len(new) : t[Len(u) + i] = new[i]
    <3> DEFINE v == new
               x == u \o v \o w
    <3>0. v \in Seq(Byte)
      OBVIOUS
    <3>. HIDE DEF v
    <3>1. /\ x \in Seq(Byte) /\ Len(x) = Len(u) + Len(v) + Len(w)
          /\ \A i \in 1..Len(u) : x[i] = u[i]
          /\ \A i \in 1..Len(v) : x[Len(u) + i] = v[i]
          /\ \A i \in 1..Len(w) : x[Len(u) + Len(v) + i] = w[i]
      <4>1. u \in Seq(Byte) /\ v \in Seq(Byte) /\ w \in Seq(Byte)
        BY <2>5, <2>6, <3>0
      <4>. QED
        BY <4>1, ThreeJoined, SMTT(60)
    <3>2. t = x
      BY <2>4 DEF v
    <3>. HIDE DEF x
    <3>. QED
      BY <3>1, <3>2 DEF v
  <2>8. Len(t) = Len(s)
    BY <1>1, <2>3, <2>5, <2>6, <2>7
  <2>9. StandsAt(new, t, m)
    <3>1. m \in 1..((Len(t) - Len(new)) + 1)
      BY <1>1, <2>3, <2>8
    <3>2. \A i \in 1..Len(new) : t[(m - 1) + i] = new[i]
      BY <2>5, <2>7
    <3>. QED
      BY <2>7, <3>1, <3>2, StandsMeans
  <2>10. Stands(new, t)
    BY <2>9 DEF Stands, StandsAt
  <2>. QED
    BY <2>7, <2>10 DEF t
<1>. QED
  BY <1>2, <1>3 DEF t

(* One entry of a queue of the world after the swap.                       *)
SwappedIn(rec, a, b) ==
  IF rec.dir = "S2C"
  THEN [rec EXCEPT !.payload = ByteSwap(@, IdBytes(a), IdBytes(b))] ELSE rec

LEMMA SwappedInIs ==
  ASSUME NEW rec \in NetLine, NEW a \in Half, NEW b \in Half
  PROVE  /\ SwappedIn(rec, a, b) \in NetLine
         /\ SwappedIn(rec, a, b).dir = rec.dir
         /\ rec.dir = "S2C" =>
              SwappedIn(rec, a, b).payload = ByteSwap(rec.payload, IdBytes(a), IdBytes(b))
<1> DEFINE s == ByteSwap(rec.payload, IdBytes(a), IdBytes(b))
<1>1. s \in Seq(Byte)
  <2>1. rec.payload \in Seq(Byte) /\ IsId(IdBytes(a)) /\ IsId(IdBytes(b))
    BY IdIs DEF NetLine
  <2>. QED
    BY <2>1, SwapLeaves
<1>2. SwappedIn(rec, a, b) = IF rec.dir = "S2C" THEN [rec EXCEPT !.payload = s] ELSE rec
  BY DEF SwappedIn
<1>. HIDE DEF s
<1>3. [rec EXCEPT !.payload = s] \in NetLine
  BY <1>1 DEF NetLine
<1>4. [rec EXCEPT !.payload = s].dir = rec.dir /\ [rec EXCEPT !.payload = s].payload = s
  BY DEF NetLine
<1>. QED
  BY <1>2, <1>3, <1>4 DEF s

LEMMA RenamedIs ==
  ASSUME NEW q \in Seq(NetLine), NEW old \in Seq(Byte), NEW new \in Seq(Byte)
  PROVE  /\ Renamed(q, old, new) \in Seq(NetLine)
         /\ Len(Renamed(q, old, new)) = Len(q)
         /\ \A i \in 1..Len(q) :
              /\ Renamed(q, old, new)[i].dir = q[i].dir
              /\ q[i].dir = "S2C" /\ At(q[i].payload, 2) = 212
                   => Renamed(q, old, new)[i].payload
                        = ReplaceFirst(q[i].payload, Padded(old), Padded(new))
<1> DEFINE on(rec) == rec.dir = "S2C" /\ At(rec.payload, 2) = 212
           s(rec) == ReplaceFirst(rec.payload, Padded(old), Padded(new))
           e(rec) == IF on(rec) THEN [rec EXCEPT !.payload = s(rec)] ELSE rec
<1>1. Len(q) \in Nat /\ \A i \in 1..Len(q) : q[i] \in NetLine
  BY LenProperties, ElementOfSeq
<1>2. ASSUME NEW rec \in NetLine PROVE s(rec) \in Seq(Byte)
  <2>1. rec.payload \in Seq(Byte)
    BY DEF NetLine
  <2>. QED
    BY <2>1, PaddedIs, ReplacedFirst
<1>. HIDE DEF on, s
<1>3. ASSUME NEW rec \in NetLine
      PROVE  e(rec) \in NetLine /\ e(rec).dir = rec.dir /\ (on(rec) => e(rec).payload = s(rec))
  BY <1>2 DEF NetLine
<1>4. Renamed(q, old, new) = [i \in 1..Len(q) |-> e(q[i])]
  BY DEF Renamed, on, s
<1>. HIDE DEF e
<1>5. \A i \in 1..Len(q) : e(q[i]) \in NetLine
  BY <1>1, <1>3
<1>6. [i \in 1..Len(q) |-> e(q[i])] \in Seq(NetLine) /\ Len([i \in 1..Len(q) |-> e(q[i])]) = Len(q)
  BY <1>1, <1>5
<1>7. \A i \in 1..Len(q) : /\ e(q[i]).dir = q[i].dir
                           /\ on(q[i]) => e(q[i]).payload = s(q[i])
  BY <1>1, <1>3
<1>. QED
  BY <1>4, <1>6, <1>7 DEF on, s

-----------------------------------------------------------------------------
(* The queues after the swap. *)

(* Whose places change, and what is read of them.                          *)
OwnOf(q)          == Min(Spawns(q))
TargetOf(q, name) == Min(Targets(q, name))
Actor(q, i)       == ParseSpawn(q[i].payload).actor
Name(q, i)        == ParseSpawn(q[i].payload).name

LEMMA SwapPlaces ==
  ASSUME NEW q \in Seq(NetLine), NEW name, CanSwap(q, name)
  PROVE  /\ OwnOf(q) \in Spawns(q) /\ TargetOf(q, name) \in Spawns(q)
         /\ TargetOf(q, name) # OwnOf(q)
         /\ Spawns(q) \subseteq 1..Len(q)
<1>1. Len(q) \in Nat
  BY LenProperties
<1>2. Spawns(q) \subseteq 1..Len(q)
  BY DEF Spawns
<1>3. Targets(q, name) \subseteq Spawns(q) /\ OwnOf(q) \notin Targets(q, name)
  BY DEF Targets, OwnOf
<1>4. Spawns(q) # {} /\ Targets(q, name) # {}
  BY DEF CanSwap
<1>5. Spawns(q) \subseteq Nat /\ Targets(q, name) \subseteq Nat
  BY <1>1, <1>2, <1>3
<1>6. OwnOf(q) \in Spawns(q) /\ TargetOf(q, name) \in Targets(q, name)
  BY <1>4, <1>5, MinIsIn DEF OwnOf, TargetOf
<1>. QED
  BY <1>2, <1>3, <1>6

LEMMA SpawnEntry ==
  ASSUME NEW q \in Seq(NetLine), NEW i \in Spawns(q)
  PROVE  /\ q[i] \in NetLine /\ q[i].payload \in Seq(Byte) /\ q[i].dir = "S2C"
         /\ Actor(q, i) \in Half /\ Name(q, i) \in Seq(Byte)
         /\ ParseSpawn(q[i].payload).kind = "self_spawn"
<1>1. i \in 1..Len(q) /\ NamedSpawn(q, i)
  BY DEF Spawns
<1>2. q[i] \in NetLine
  BY <1>1, ElementOfSeq
<1>3. q[i].payload \in Seq(Byte)
  BY <1>2 DEF NetLine
<1>. QED
  BY <1>1, <1>2, <1>3, SpawnIs DEF NamedSpawn, Actor, Name

WorldSwapped(q, own, at, a, b) ==
  [i \in 1..Len(q) |-> IF i = own THEN q[at] ELSE SwappedIn(q[i], a, b)]
AllSwapped(q, a, b) == [i \in 1..Len(q) |-> SwappedIn(q[i], a, b)]

LEMMA SwapGives ==
  ASSUME NEW qs, DOMAIN qs = Ports, NEW name, CanSwap(qs["18123"], name)
  PROVE  LET r   == SwapSelf(qs, name)
             q   == qs["18123"]
             own == OwnOf(q)
             at  == TargetOf(q, name)
         IN  /\ DOMAIN r = Ports
             /\ r["1818"] = Renamed(qs["1818"], Name(q, own), Name(q, at))
             /\ r["1819"] = Renamed(qs["1819"], Name(q, own), Name(q, at))
             /\ r["18123"] = WorldSwapped(q, own, at, Actor(q, own), Actor(q, at))
             /\ r["18124"] = AllSwapped(qs["18124"], Actor(q, own), Actor(q, at))
<1> DEFINE q   == qs["18123"]
           own == OwnOf(q)
           at  == TargetOf(q, name)
           a   == Actor(q, own)
           b   == Actor(q, at)
           r   == [p \in DOMAIN qs |->
              CASE p \in {"1818", "1819"} -> Renamed(qs[p], Name(q, own), Name(q, at))
                [] p = "18123" -> WorldSwapped(q, own, at, a, b)
                [] p = "18124" -> AllSwapped(qs[p], a, b)
                [] OTHER -> qs[p]]
<1>1. SwapSelf(qs, name) = r
  BY DEF SwapSelf, OwnOf, TargetOf, Actor, Name, WorldSwapped, AllSwapped, SwappedIn
<1>2. /\ r["1818"] = Renamed(qs["1818"], Name(q, own), Name(q, at))
      /\ r["1819"] = Renamed(qs["1819"], Name(q, own), Name(q, at))
      /\ r["18123"] = WorldSwapped(q, own, at, a, b)
      /\ r["18124"] = AllSwapped(qs["18124"], a, b)
  BY DEF Ports
<1>3. DOMAIN r = Ports
  OBVIOUS
<1>. HIDE DEF r
<1>. QED
  BY <1>1, <1>2, <1>3

LEMMA WorldIs ==
  ASSUME NEW q \in Seq(NetLine), NEW own, NEW at \in 1..Len(q), NEW a \in Half, NEW b \in Half
  PROVE  /\ WorldSwapped(q, own, at, a, b) \in Seq(NetLine)
         /\ Len(WorldSwapped(q, own, at, a, b)) = Len(q)
<1> DEFINE e(i) == IF i = own THEN q[at] ELSE SwappedIn(q[i], a, b)
<1>1. Len(q) \in Nat /\ \A i \in 1..Len(q) : q[i] \in NetLine
  BY LenProperties, ElementOfSeq
<1>2. \A i \in 1..Len(q) : SwappedIn(q[i], a, b) \in NetLine
  BY <1>1, SwappedInIs
<1>3. \A i \in 1..Len(q) : e(i) \in NetLine
  BY <1>1, <1>2
<1>. HIDE DEF e
<1>4. [i \in 1..Len(q) |-> e(i)] \in Seq(NetLine) /\ Len([i \in 1..Len(q) |-> e(i)]) = Len(q)
  BY <1>1, <1>3
<1>. QED
  BY <1>4 DEF WorldSwapped, e

LEMMA AllSwappedIs ==
  ASSUME NEW q \in Seq(NetLine), NEW a \in Half, NEW b \in Half
  PROVE  AllSwapped(q, a, b) \in Seq(NetLine)
<1>1. Len(q) \in Nat /\ \A i \in 1..Len(q) : q[i] \in NetLine
  BY LenProperties, ElementOfSeq
<1>2. \A i \in 1..Len(q) : SwappedIn(q[i], a, b) \in NetLine
  BY <1>1, SwappedInIs
<1>3. [i \in 1..Len(q) |-> SwappedIn(q[i], a, b)] \in Seq(NetLine)
  BY <1>1, <1>2, IsASeq
<1>. QED
  BY <1>3 DEF AllSwapped

LEMMA SwapTyped ==
  ASSUME NEW qs, Typed(qs), NEW name
  PROVE  Typed(SwapSelf(qs, name))
<1> DEFINE q   == qs["18123"]
           own == OwnOf(q)
           at  == TargetOf(q, name)
           r   == SwapSelf(qs, name)
<1>1. DOMAIN qs = Ports /\ \A p \in Ports : qs[p] \in Seq(NetLine)
  BY DEF Typed
<1>2. q \in Seq(NetLine) /\ qs["1818"] \in Seq(NetLine) /\ qs["1819"] \in Seq(NetLine)
      /\ qs["18124"] \in Seq(NetLine)
  BY <1>1 DEF Ports
<1>3. CASE ~CanSwap(q, name)
  BY <1>3 DEF SwapSelf
<1>4. CASE CanSwap(q, name)
  <2>1. /\ DOMAIN r = Ports
        /\ r["1818"] = Renamed(qs["1818"], Name(q, own), Name(q, at))
        /\ r["1819"] = Renamed(qs["1819"], Name(q, own), Name(q, at))
        /\ r["18123"] = WorldSwapped(q, own, at, Actor(q, own), Actor(q, at))
        /\ r["18124"] = AllSwapped(qs["18124"], Actor(q, own), Actor(q, at))
    BY <1>1, <1>4, SwapGives
  <2>2. own \in Spawns(q) /\ at \in Spawns(q) /\ at \in 1..Len(q)
    BY <1>2, <1>4, SwapPlaces
  <2>. HIDE DEF r, q, own, at
  <2> DEFINE a == Actor(q, own)
             b == Actor(q, at)
             m == Name(q, own)
             n == Name(q, at)
  <2>3. a \in Half /\ b \in Half /\ m \in Seq(Byte) /\ n \in Seq(Byte)
    BY <1>2, <2>2, SpawnEntry
  <2>. HIDE DEF a, b, m, n
  <2>4. Renamed(qs["1818"], m, n) \in Seq(NetLine) /\ Renamed(qs["1819"], m, n) \in Seq(NetLine)
    BY <1>2, <2>3, RenamedIs
  <2>5. WorldSwapped(q, own, at, a, b) \in Seq(NetLine)
    BY <1>2, <2>2, <2>3, WorldIs
  <2>6. AllSwapped(qs["18124"], a, b) \in Seq(NetLine)
    BY <1>2, <2>3, AllSwappedIs
  <2>7. Typed(r)
    BY <2>1, <2>4, <2>5, <2>6 DEF Typed, Ports, a, b, m, n
  <2>. QED
    BY <2>7 DEF r
<1>. QED
  BY <1>3, <1>4

-----------------------------------------------------------------------------
(* What is prepared before the emulator listens stays as it was prepared.  *)
Prepared == queues = SwapSelf(Queues, swapTo) /\ login = LoginFrames

LEMMA PreparedKept == Prepared /\ [Next]_vars => Prepared'
<1>. SUFFICES ASSUME Prepared, [Next]_vars PROVE Prepared'
  OBVIOUS
<1>1. UNCHANGED <<queues, swapTo, login>>
  <2>1. CASE UNCHANGED vars
    BY <2>1 DEF vars, worldVars, linkVars
  <2>2. CASE Emulating
    <3>1. UNCHANGED <<swapTo, login>>
      BY <2>2 DEF Emulating, linkVars
    <3>2. UNCHANGED queues
      BY <2>2 DEF Emulating, Connect, Pusher, Push, PushFails, PushStopped, PushDone,
                  Handler, ReadMove, ReadOther, SendEcho, EchoFails, ReadCloses
    <3>. QED
      BY <3>1, <3>2
  <2>3. CASE ClientSends
    BY <2>3 DEF ClientSends, worldVars
  <2>4. CASE ClientCloses
    BY <2>4 DEF ClientCloses, linkVars
  <2>5. ASSUME NEW f \in Flows, Transmit(f) \/ Missed(f) \/ Retransmit(f)
        PROVE  UNCHANGED <<queues, swapTo, login>>
    BY <2>5 DEF Transmit, Missed, Retransmit, TcpUnchanged
  <2>. QED
    BY <2>1, <2>2, <2>3, <2>4, <2>5 DEF Next
<1>2. UNCHANGED LoginFrames
  BY <1>1 DEF LoginFrames, LoginPayloads, Ips
<1>. QED
  BY <1>1, <1>2 DEF Prepared

LEMMA PreparedAlways == Spec => []Prepared
<1>1. Init => Prepared
  BY DEF Init, Prepared
<1>. QED
  BY <1>1, PreparedKept, PTL DEF Spec

LEMMA PreparedTyped == Prepared => Typed(queues)
  BY QueuesTyped, SwapTyped DEF Prepared

LEMMA LoginIs ==
  ASSUME Typed(queues)
  PROVE  /\ Len(LoginPayloads) = Len(FromServerIn(queues["1818"]))
         /\ Len(LoginFrames) = Len(LoginPayloads)
         /\ \A i \in 1..Len(LoginPayloads) :
              /\ LoginPayloads[i] = FromServerIn(queues["1818"])[i].payload
              /\ LoginPayloads[i] \in Seq(Byte)
              /\ LoginFrames[i] = Rewrite(LoginPayloads[i], Ips, Mine)
<1> DEFINE s == FromServerIn(queues["1818"])
<1>1. s \in Seq(NetLine) /\ \A i \in 1..Len(s) : s[i].payload \in Seq(Byte)
  BY SentAre DEF Typed, Ports
<1>. HIDE DEF s
<1>2. Len(s) \in Nat
  BY <1>1, LenProperties
<1> DEFINE p == [i \in 1..Len(s) |-> s[i].payload]
<1>3. Len(p) = Len(s)
  BY <1>2
<1>4. LoginPayloads = p
  BY DEF LoginPayloads, s
<1>5. Len(LoginPayloads) = Len(s)
  BY <1>3, <1>4
<1>6. \A i \in 1..Len(s) : LoginPayloads[i] = s[i].payload
  BY <1>4
<1>7. LoginFrames = [i \in 1..Len(s) |-> Rewrite(LoginPayloads[i], Ips, Mine)]
  BY <1>5 DEF LoginFrames
<1>8. /\ Len(LoginFrames) = Len(s)
      /\ \A i \in 1..Len(s) : LoginFrames[i] = Rewrite(LoginPayloads[i], Ips, Mine)
  BY <1>2, <1>7
<1>. QED
  BY <1>1, <1>5, <1>6, <1>8 DEF s

LEMMA CleanedIsClean == Prepared => NoProdAddress
<1>. SUFFICES ASSUME Prepared PROVE NoProdAddress
  OBVIOUS
<1>1. Typed(queues) /\ login = LoginFrames
  BY PreparedTyped DEF Prepared
<1>2. Ips \in Seq(Address) /\ Mine \in Address
  BY <1>1, IpsAre, LinesAssumption
<1> DEFINE known == ToSet(Ips)
<1>3. known = {Ips[m] : m \in 1..Len(Ips)} /\ \A m \in 1..Len(Ips) : Ips[m] \in Address
  BY <1>2, LenProperties, ElementOfSeq DEF ToSet
<1>. HIDE DEF known
<1>4. ASSUME NEW i \in 1..Len(login)
      PROVE  LET was == LoginPayloads[i]
             IN  /\ Len(login[i]) = Len(was)
                 /\ \A ip \in known : Apart(Mine, ip) => ~Stands(ip, login[i])
                 /\ (\A ip \in known : Apart(Mine, ip)) =>
                      \A k \in 1..Len(was) : login[i][k] # was[k] =>
                        \E ip \in known : \E j \in (k - 3)..k : StandsAt(ip, was, j)
  <2> DEFINE was == LoginPayloads[i]
             now == login[i]
             n == Len(Ips)
  <2>1. was \in Seq(Byte) /\ now = Rewrite(was, Ips, Mine)
    BY <1>1, LoginIs
  <2>. HIDE DEF was, now
  <2>2. Cleaned(was, Ips, Mine, n, now)
    BY <1>2, <2>1, RewriteCleans
  <2>3. /\ Len(now) = Len(was)
        /\ \A m \in 1..n : Apart(Mine, Ips[m]) => \A j : ~StandsAt(Ips[m], now, j)
        /\ (\A m \in 1..n : Apart(Mine, Ips[m])) =>
             \A k \in 1..Len(was) : now[k] # was[k] =>
               \E m \in 1..n : \E j \in (k - 3)..k : StandsAt(Ips[m], was, j)
    BY <2>2 DEF Cleaned
  <2>4. \A ip \in known : Apart(Mine, ip) => ~Stands(ip, now)
    BY <1>3, <2>3 DEF Stands
  <2>5. ASSUME \A ip \in known : Apart(Mine, ip), NEW k \in 1..Len(was), now[k] # was[k]
        PROVE  \E ip \in known : \E j \in (k - 3)..k : StandsAt(ip, was, j)
    <3>1. \A m \in 1..n : Apart(Mine, Ips[m])
      BY <1>3, <2>5
    <3>2. PICK m \in 1..n : \E j \in (k - 3)..k : StandsAt(Ips[m], was, j)
      BY <2>3, <2>5, <3>1
    <3>. QED
      BY <1>3, <3>2
  <2>. QED
    BY <2>3, <2>4, <2>5 DEF was, now
<1>. QED
  BY <1>4 DEF NoProdAddress, known

(* After a login the client knows no address of the recorded servers.      *)
THEOREM NoServerAddressLeft == Spec => []NoProdAddress
<1>. QED
  BY PreparedAlways, CleanedIsClean, PTL

-----------------------------------------------------------------------------
(* The character the client is shown. *)

LEMMA SameWord ==
  ASSUME NEW s, NEW t, NEW k \in Nat, t[k + 1] = s[k + 1], t[k + 2] = s[k + 2]
  PROVE  U16(t, k) = U16(s, k)
<1>1. k + 2 = (k + 1) + 1
  OBVIOUS
<1>. QED
  BY <1>1 DEF U16, At

LEMMA SameName ==
  ASSUME NEW s \in Seq(Byte), NEW t \in Seq(Byte), Len(t) = Len(s),
         \A i \in 1..Len(s) : i > 12 => t[i] = s[i]
  PROVE  SpawnName(t) = SpawnName(s)
<1>1. Len(s) \in Nat
  BY LenProperties
<1>2. CASE Len(s) < 58
  BY <1>2 DEF SpawnName
<1>3. CASE ~(Len(s) < 58)
  <2>1. t[57] = s[57] /\ t[58] = s[58]
    BY <1>1, <1>3
  <2>2. U16(t, 56) = U16(s, 56)
    BY <2>1, SameWord
  <2> DEFINE n == 58 + U16(s, 56)
             m == Min({n, Len(s)})
  <2>3. n \in Nat
    <3>1. U16(s, 56) \in Half
      BY <1>1, <1>3, WordAt
    <3>. QED
      BY <3>1 DEF Half
  <2>4. SpawnName(s) = SubSeq(s, 59, m) /\ SpawnName(t) = SubSeq(t, 59, m)
    BY <1>1, <1>3, <2>2 DEF SpawnName
  <2>. HIDE DEF n
  <2>5. m \in Nat /\ m <= Len(s)
    <3>1. {n, Len(s)} \subseteq Nat /\ {n, Len(s)} # {}
      BY <1>1, <2>3
    <3>2. m \in {n, Len(s)} /\ \A x \in {n, Len(s)} : m <= x
      BY <3>1, MinIsIn
    <3>. QED
      BY <1>1, <2>3, <3>2
  <2>. HIDE DEF m
  <2> DEFINE x == SubSeq(s, 59, m)
             y == SubSeq(t, 59, m)
  <2>6. \A i \in 59..m : i \in 1..Len(s) /\ i > 12
    BY <1>1, <2>5
  <2>7. \A i \in 59..m : s[i] \in Byte /\ t[i] = s[i]
    BY <2>6, ElementOfSeq
  <2>8. /\ x \in Seq(Byte) /\ Len(x) = IF 59 <= m THEN m - 59 + 1 ELSE 0
        /\ \A i \in 1..(m - 59 + 1) : x[i] = s[59 + i - 1]
    BY <2>5, <2>7, SubSeqProperties
  <2>9. /\ y \in Seq(Byte) /\ Len(y) = IF 59 <= m THEN m - 59 + 1 ELSE 0
        /\ \A i \in 1..(m - 59 + 1) : y[i] = t[59 + i - 1]
    BY <2>5, <2>7, SubSeqProperties
  <2>. HIDE DEF x, y
  <2>10. \A i \in 1..(m - 59 + 1) : 59 + i - 1 \in 59..m
    BY <2>5
  <2>11. \A i \in 1..(m - 59 + 1) : x[i] = y[i]
    BY <2>7, <2>8, <2>9, <2>10
  <2>12. \A i \in 1..Len(x) : i \in 1..(m - 59 + 1)
    BY <2>5, <2>8
  <2>13. x = y
    BY <2>8, <2>9, <2>11, <2>12, SeqEqual
  <2>. QED
    BY <2>4, <2>13 DEF x, y
<1>. QED
  BY <1>2, <1>3

(* A spawn frame with another actor id.                                    *)
LEMMA SameSpawn ==
  ASSUME NEW s \in Seq(Byte), NEW t \in Seq(Byte), Len(t) = Len(s),
         ParseSpawn(s).kind = "self_spawn",
         \A i \in 1..Len(s) : i \notin {11, 12} => t[i] = s[i]
  PROVE  /\ ParseSpawn(t) = [ParseSpawn(s) EXCEPT !.actor = U16(t, 10)]
         /\ Len(s) >= 36 /\ ParseSpawn(s).actor = U16(s, 10)
<1>1. Len(s) \in Nat
  BY LenProperties
<1> DEFINE self(f) == [kind |-> "self_spawn", actor |-> U16(f, 10), x |-> U16(f, 32),
                       y |-> U16(f, 34), name |-> SpawnName(f)]
           load(f) == [kind |-> "map_load", actor |-> 0, x |-> U16(f, 13), y |-> U16(f, 15),
                       name |-> <<>>]
<1>2. ASSUME NEW f
      PROVE  ParseSpawn(f) = CASE Len(f) >= 17 /\ At(f, 2) = 176 /\ At(f, 8) = 17 -> load(f)
                               [] Len(f) >= 36 /\ At(f, 2) = 177 /\ At(f, 8) = 1 -> self(f)
                               [] OTHER -> NoSpawn
  BY DEF ParseSpawn
<1>3. load(s).kind # "self_spawn" /\ NoSpawn.kind # "self_spawn" /\ 176 # 177
  BY DEF NoSpawn
<1>. HIDE DEF self, load
<1>4. Len(s) >= 36 /\ At(s, 2) = 177 /\ At(s, 8) = 1
  BY <1>2, <1>3
<1>5. ParseSpawn(s) = self(s)
  BY <1>2, <1>3, <1>4
<1>6. At(t, 2) = At(s, 2) /\ At(t, 8) = At(s, 8)
  <2>1. t[3] = s[3] /\ t[9] = s[9]
    BY <1>1, <1>4
  <2>. QED
    BY <2>1 DEF At
<1>7. ParseSpawn(t) = self(t)
  BY <1>2, <1>3, <1>4, <1>6
<1>8. U16(t, 32) = U16(s, 32) /\ U16(t, 34) = U16(s, 34)
  <2>1. t[33] = s[33] /\ t[34] = s[34] /\ t[35] = s[35] /\ t[36] = s[36]
    BY <1>1, <1>4
  <2>. QED
    BY <2>1, SameWord
<1>9. SpawnName(t) = SpawnName(s)
  <2>1. \A i \in 1..Len(s) : i > 12 => t[i] = s[i]
    BY <1>1
  <2>. QED
    BY <2>1, SameName
<1>10. self(t) = [self(s) EXCEPT !.actor = U16(t, 10)] /\ self(s).actor = U16(s, 10)
  BY <1>8, <1>9 DEF self
<1>. QED
  BY <1>4, <1>5, <1>7, <1>10

(* The id of a word.                                                       *)
LEMMA IdOfWord ==
  ASSUME NEW s \in Seq(Byte), NEW k \in Nat, k + 2 <= Len(s)
  PROVE  /\ SubSeq(s, k + 1, k + 2) = IdBytes(U16(s, k))
         /\ \A n \in Half : SubSeq(s, k + 1, k + 2) = IdBytes(n) => U16(s, k) = n
<1> DEFINE x == SubSeq(s, k + 1, k + 2)
           l == s[k + 1]
           h == s[k + 2]
<1>1. Len(s) \in Nat
  BY LenProperties
<1>2. k + 1 \in 1..(Len(s) - 1) /\ (k + 1) + 1 = k + 2 /\ k + 1 \in 1..Len(s) /\ k + 2 \in 1..Len(s)
  BY <1>1
<1>3. x \in Seq(Byte) /\ Len(x) = 2 /\ x[1] = l /\ x[2] = h
  <2>1. /\ SubSeq(s, k + 1, (k + 1) + 1) \in Seq(Byte) /\ Len(SubSeq(s, k + 1, (k + 1) + 1)) = 2
        /\ SubSeq(s, k + 1, (k + 1) + 1)[1] = s[k + 1]
        /\ SubSeq(s, k + 1, (k + 1) + 1)[2] = s[(k + 1) + 1]
    BY <1>2, PairOf
  <2>. QED
    BY <1>2, <2>1
<1>4. l \in Byte /\ h \in Byte
  BY <1>2, ElementOfSeq
<1>5. U16(s, k) = l + 256 * h
  BY <1>2 DEF U16, At
<1>. HIDE DEF x, l, h
<1>6. l + 256 * h \in Half /\ (l + 256 * h) % 256 = l /\ (l + 256 * h) \div 256 = h
  <2>1. 256 * h + l = l + 256 * h
    BY <1>4 DEF Byte
  <2>2. 256 * h + l \in Half /\ (256 * h + l) % 256 = l /\ (256 * h + l) \div 256 = h
    BY <1>4, WordParts
  <2>. QED
    BY <2>1, <2>2
<1>7. x = IdBytes(U16(s, k))
  <2> DEFINE w == U16(s, k)
  <2>1. w \in Half /\ w % 256 = l /\ w \div 256 = h
    BY <1>5, <1>6
  <2>. HIDE DEF w
  <2>2. IsId(IdBytes(w)) /\ IdBytes(w)[1] = l /\ IdBytes(w)[2] = h
    BY <2>1, IdIs
  <2>3. IsId(x)
    BY <1>3 DEF IsId
  <2>4. x = IdBytes(w)
    BY <1>3, <2>2, <2>3, IdEqual
  <2>. QED
    BY <2>4 DEF w
<1>8. ASSUME NEW n \in Half, x = IdBytes(n) PROVE U16(s, k) = n
  <2>1. l = n % 256 /\ h = n \div 256
    BY <1>3, <1>8, IdIs
  <2>2. 256 * (n \div 256) + (n % 256) = n
    BY WordParts
  <2>3. 256 * h + l = l + 256 * h
    BY <1>4 DEF Byte
  <2>. QED
    BY <1>5, <2>1, <2>2, <2>3
<1>. QED
  BY <1>7, <1>8 DEF x

(* The spawn frame of the other one, with the two ids swapped.             *)
LEMMA OtherSpawn ==
  ASSUME NEW s \in Seq(Byte), ParseSpawn(s).kind = "self_spawn", NEW a \in Half, NEW b \in Half,
         b = ParseSpawn(s).actor, IdPlaces(s, {IdBytes(a), IdBytes(b)}) = {11}
  PROVE  ParseSpawn(ByteSwap(s, IdBytes(a), IdBytes(b))) = [ParseSpawn(s) EXCEPT !.actor = a]
<1> DEFINE A == IdBytes(a)
           B == IdBytes(b)
           t == ByteSwap(s, A, B)
<1>1. IsId(A) /\ IsId(B)
  BY IdIs
<1>2. /\ t \in Seq(Byte) /\ Len(t) = Len(s)
      /\ \A k \in 1..Len(s) : t[k] # s[k] => {k - 1, k} \cap IdPlaces(s, {A, B}) # {}
      /\ \A k : IdPlaces(s, {A, B}) = {k} =>
           SubSeq(t, k, k + 1) = OtherId(SubSeq(s, k, k + 1), A, B)
  <2>. HIDE DEF A, B
  <2> DEFINE u == ByteSwap(s, A, B)
             ids == {A, B}
  <2>1. /\ u \in Seq(Byte) /\ Len(u) = Len(s)
        /\ \A k \in 1..Len(s) : u[k] # s[k] => {k - 1, k} \cap IdPlaces(s, ids) # {}
        /\ Unmistakable(ids) =>
             /\ IdPlaces(u, ids) = IdPlaces(s, ids)
             /\ \A k \in IdPlaces(s, ids) :
                  {SubSeq(s, k, k + 1), SubSeq(u, k, k + 1)} = ids
        /\ \A k : IdPlaces(s, ids) = {k} =>
             SubSeq(u, k, k + 1) = OtherId(SubSeq(s, k, k + 1), A, B)
    BY <1>1, SwapLeaves
  <2>. QED
    BY <2>1
<1>3. IdPlaces(s, {A, B}) = {11}
  OBVIOUS
<1>. HIDE DEF t, A, B
<1>4. Len(s) \in Nat
  BY LenProperties
<1>5. \A i \in 1..Len(s) : i \notin {11, 12} => t[i] = s[i]
  <2>1. ASSUME NEW i \in 1..Len(s), t[i] # s[i] PROVE i \in {11, 12}
    <3>1. i - 1 = 11 \/ i = 11
      BY <1>2, <1>3, <2>1
    <3>. QED
      BY <1>4, <3>1
  <2>. QED
    BY <2>1
<1>6. /\ ParseSpawn(t) = [ParseSpawn(s) EXCEPT !.actor = U16(t, 10)]
      /\ Len(s) >= 36 /\ ParseSpawn(s).actor = U16(s, 10)
  BY <1>2, <1>5, SameSpawn
<1>7. SubSeq(s, 11, 12) = B
  <2>1. 10 \in Nat /\ 10 + 2 <= Len(s) /\ 10 + 1 = 11 /\ 10 + 2 = 12
    BY <1>4, <1>6
  <2>2. SubSeq(s, 10 + 1, 10 + 2) = IdBytes(U16(s, 10))
    BY <2>1, IdOfWord
  <2>. QED
    BY <1>6, <2>1, <2>2 DEF B
<1>8. SubSeq(t, 11, 12) = A
  <2>1. 11 + 1 = 12
    OBVIOUS
  <2>2. SubSeq(t, 11, 12) = OtherId(SubSeq(s, 11, 12), A, B)
    BY <1>2, <1>3, <2>1
  <2>. QED
    BY <1>7, <2>2 DEF OtherId
<1>9. U16(t, 10) = a
  <2>1. 10 \in Nat /\ 10 + 2 <= Len(t) /\ 10 + 1 = 11 /\ 10 + 2 = 12
    BY <1>2, <1>4, <1>6
  <2>2. SubSeq(t, 10 + 1, 10 + 2) = IdBytes(a)
    BY <1>8, <2>1 DEF A
  <2>. QED
    BY <1>2, <2>1, <2>2, IdOfWord
<1>10. ParseSpawn(t) = [ParseSpawn(s) EXCEPT !.actor = a]
  BY <1>6, <1>9
<1>. QED
  BY <1>10 DEF t, A, B

(* A framed payload that has no id in its head stays framed.               *)
LEMMA StaysFramed ==
  ASSUME NEW s \in Seq(Byte), Framed(s), NEW t \in Seq(Byte), Len(t) = Len(s),
         NEW P, P \cap 1..2 = {}, P \subseteq 1..Len(s),
         \A k \in 1..Len(s) : t[k] # s[k] => {k - 1, k} \cap P # {}
  PROVE  Framed(t)
<1>1. ~Unsound(s) /\ Len(s) = Len16(s) + 2 /\ Len(s) \in Nat
  BY LenProperties DEF Framed
<1>2. Len(s) >= 4
  BY <1>1 DEF Unsound
<1>3. t[1] = s[1]
  <2>1. ASSUME t[1] # s[1] PROVE FALSE
    <3>1. {1 - 1, 1} \cap P # {}
      BY <1>1, <1>2, <2>1
    <3>2. 1 - 1 \notin P /\ 1 \notin P
      BY <1>1
    <3>. QED
      BY <3>1, <3>2
  <2>. QED
    BY <2>1
<1>4. t[2] = s[2]
  <2>1. ASSUME t[2] # s[2] PROVE FALSE
    <3>1. {2 - 1, 2} \cap P # {}
      BY <1>1, <1>2, <2>1
    <3>2. 2 - 1 \notin P /\ 2 \notin P
      BY <1>1
    <3>. QED
      BY <3>1, <3>2
  <2>. QED
    BY <2>1
<1>5. Len16(t) = Len16(s)
  BY <1>3, <1>4 DEF Len16
<1>. QED
  BY <1>1, <1>5 DEF Framed, Unsound

(* Two queues whose entries have the same directions are filtered alike.   *)
Entry(q, r, i, j) ==
  j \in 1..Len(q) /\ q[j].dir = "S2C" /\ FromServerIn(q)[i] = q[j] /\ FromServerIn(r)[i] = r[j]

LEMMA SentAlike ==
  ASSUME NEW q \in Seq(NetLine), NEW r \in Seq(NetLine), Len(r) = Len(q),
         \A i \in 1..Len(q) : r[i].dir = q[i].dir,
         NEW n \in 1..Len(FromServerIn(q))
  PROVE  Len(FromServerIn(r)) = Len(FromServerIn(q)) /\ \E j : Entry(q, r, n, j)
<1> DEFINE P == {i \in 1..Len(q) : q[i].dir = "S2C"}
           at == Ascending(Len(q), P)
<1>1. Len(q) \in Nat
  BY LenProperties
<1>2. {i \in 1..Len(r) : r[i].dir = "S2C"} = P
  OBVIOUS
<1>3. FromServerIn(q) = Those(q, P) /\ FromServerIn(r) = Those(r, P)
  BY <1>2 DEF FromServerIn
<1>4. at \in Seq(P \cap 1..Len(q))
  <2>. HIDE DEF P
  <2>. QED
    BY <1>1, AscendingIs
<1>5. Ascending(Len(r), P) = at
  OBVIOUS
<1>6. \A j \in P : j \in 1..Len(q) /\ q[j].dir = "S2C"
  OBVIOUS
<1>. HIDE DEF at, P
<1>7. Len(at) \in Nat /\ \A i \in 1..Len(at) : at[i] \in P
  BY <1>4, LenProperties, ElementOfSeq
<1>8. /\ FromServerIn(q) = [i \in 1..Len(at) |-> q[at[i]]]
      /\ FromServerIn(r) = [i \in 1..Len(at) |-> r[at[i]]]
  BY <1>3, <1>5 DEF Those, at
<1>9. /\ Len(FromServerIn(q)) = Len(at) /\ Len(FromServerIn(r)) = Len(at)
      /\ \A i \in 1..Len(at) : FromServerIn(q)[i] = q[at[i]] /\ FromServerIn(r)[i] = r[at[i]]
  BY <1>7, <1>8
<1>10. \E j : Entry(q, r, n, j)
  <2>0. n \in 1..Len(at)
    BY <1>9
  <2>1. at[n] \in 1..Len(q) /\ q[at[n]].dir = "S2C"
    BY <1>6, <1>7, <2>0
  <2>2. FromServerIn(q)[n] = q[at[n]] /\ FromServerIn(r)[n] = r[at[n]]
    BY <1>9, <2>0
  <2>3. Entry(q, r, n, at[n])
    BY <2>1, <2>2 DEF Entry
  <2>. QED
    BY <2>3
<1>. QED
  BY <1>9, <1>10

(* The slot of the player in the list of characters.                       *)
LEMMA SlotRenamed ==
  ASSUME Typed(queues), login = LoginFrames, NEW q \in Seq(NetLine),
         NEW m \in Seq(Byte), NEW n \in Seq(Byte), queues["1818"] = Renamed(q, m, n),
         NEW i \in 1..Len(FromServerIn(q)), At(FromServerIn(q)[i].payload, 2) = 212,
         Stands(Padded(m), FromServerIn(q)[i].payload)
  PROVE  \/ Stands(Padded(n), login[i])
         \/ \E ip \in ToSet(Ips) : Stands(ip, LoginPayloads[i])
<1> DEFINE r == queues["1818"]
           was == LoginPayloads[i]
<1>1. /\ r \in Seq(NetLine) /\ Len(r) = Len(q)
      /\ \A j \in 1..Len(q) :
           /\ r[j].dir = q[j].dir
           /\ q[j].dir = "S2C" /\ At(q[j].payload, 2) = 212
                => r[j].payload = ReplaceFirst(q[j].payload, Padded(m), Padded(n))
  BY RenamedIs
<1>. HIDE DEF r
<1>2. PICK j : Entry(q, r, i, j)
  <2>1. \A k \in 1..Len(q) : r[k].dir = q[k].dir
    BY <1>1
  <2>. QED
    BY <1>1, <2>1, SentAlike
<1>3. Len(FromServerIn(r)) = Len(FromServerIn(q))
  <2>1. \A k \in 1..Len(q) : r[k].dir = q[k].dir
    BY <1>1
  <2>. QED
    BY <1>1, <2>1, SentAlike
<1>4. i \in 1..Len(LoginPayloads)
  BY <1>3, LoginIs DEF r
<1>9. /\ j \in 1..Len(q) /\ q[j].dir = "S2C"
      /\ FromServerIn(q)[i] = q[j] /\ FromServerIn(r)[i] = r[j]
  BY <1>2 DEF Entry
<1>5. was = r[j].payload /\ was \in Seq(Byte) /\ login[i] = Rewrite(was, Ips, Mine)
  BY <1>9, <1>4, LoginIs DEF r
<1>. HIDE DEF was
<1>6. Stands(Padded(n), was)
  <2>1. was = ReplaceFirst(q[j].payload, Padded(m), Padded(n))
    BY <1>9, <1>1, <1>5
  <2>2. q[j].payload \in Seq(Byte)
    <3>1. q[j] \in NetLine
      BY <1>9, ElementOfSeq
    <3>. QED
      BY <3>1 DEF NetLine
  <2>3. Stands(Padded(m), q[j].payload)
    BY <1>9
  <2>4. /\ Padded(m) \in Seq(Byte) /\ Len(Padded(m)) = 12
        /\ Padded(n) \in Seq(Byte) /\ Len(Padded(n)) = 12
    BY PaddedIs
  <2> DEFINE s == q[j].payload
             x == Padded(m)
             y == Padded(n)
             t == ReplaceFirst(s, x, y)
  <2>5. /\ s \in Seq(Byte) /\ x \in Seq(Byte) /\ Len(x) = 12
        /\ y \in Seq(Byte) /\ Len(y) = 12
    BY <2>2, <2>4
  <2>. HIDE DEF s, x, y
  <2>6. t \in Seq(Byte) /\ (Stands(x, s) => Stands(y, t))
    BY <2>5, ReplacedFirst
  <2>. QED
    BY <2>1, <2>3, <2>6 DEF s, x, y
<1>7. Ips \in Seq(Address) /\ Mine \in Address
  BY IpsAre, LinesAssumption
<1>8. ASSUME \A ip \in ToSet(Ips) : ~Stands(ip, was) PROVE Stands(Padded(n), login[i])
  <2>1. \A k \in 1..Len(Ips) : Ips[k] \in ToSet(Ips)
    BY <1>7, LenProperties DEF ToSet
  <2>2. \A k \in 1..Len(Ips) : \A p : ~StandsAt(Ips[k], was, p)
    <3>. SUFFICES ASSUME NEW k \in 1..Len(Ips), NEW p PROVE ~StandsAt(Ips[k], was, p)
      OBVIOUS
    <3>1. ASSUME StandsAt(Ips[k], was, p) PROVE FALSE
      <4>1. p \in Places(was, Len(Ips[k]))
        BY <3>1 DEF StandsAt
      <4>2. Stands(Ips[k], was)
        BY <3>1, <4>1 DEF Stands
      <4>. QED
        BY <1>8, <2>1, <4>2
    <3>. QED
      BY <3>1
  <2>3. Cleaned(was, Ips, Mine, Len(Ips), login[i])
    BY <1>5, <1>7, RewriteCleans
  <2>4. login[i] = was
    BY <2>2, <2>3 DEF Cleaned
  <2>. QED
    BY <1>6, <2>4
<1>. QED
  BY <1>8 DEF was

(* One frame of the world after the swap.                                  *)
LEMMA FrameSwapped ==
  ASSUME NEW rec \in NetLine, rec.dir = "S2C", NEW a \in Half, NEW b \in Half
  PROVE  LET was == rec.payload
             now == SwappedIn(rec, a, b).payload
         IN  /\ SwappedFrame(was, now, {IdBytes(a), IdBytes(b)})
             /\ was \in Seq(Byte) /\ now \in Seq(Byte)
             /\ now = ByteSwap(was, IdBytes(a), IdBytes(b))
<1> DEFINE was == rec.payload
           A == IdBytes(a)
           B == IdBytes(b)
           now == SwappedIn(rec, a, b).payload
           t == ByteSwap(was, A, B)
           ids == {A, B}
<1>1. was \in Seq(Byte)
  BY DEF NetLine
<1>2. now = t
  BY SwappedInIs
<1>3. IsId(A) /\ IsId(B)
  BY IdIs
<1>. HIDE DEF now, was, A, B
<1>4. /\ t \in Seq(Byte) /\ Len(t) = Len(was)
      /\ \A k \in 1..Len(was) : t[k] # was[k] => {k - 1, k} \cap IdPlaces(was, ids) # {}
      /\ Unmistakable(ids) =>
           /\ IdPlaces(t, ids) = IdPlaces(was, ids)
           /\ \A k \in IdPlaces(was, ids) :
                {SubSeq(was, k, k + 1), SubSeq(t, k, k + 1)} = ids
      /\ \A k : IdPlaces(was, ids) = {k} =>
           SubSeq(t, k, k + 1) = OtherId(SubSeq(was, k, k + 1), A, B)
  BY <1>1, <1>3, SwapLeaves
<1>5. SwappedFrame(was, t, ids)
  BY <1>4 DEF SwappedFrame
<1>6. t \in Seq(Byte)
  BY <1>4
<1>. HIDE DEF t, ids
<1>7. SwappedFrame(was, now, ids) /\ was \in Seq(Byte) /\ now \in Seq(Byte) /\ now = t
  BY <1>1, <1>2, <1>5, <1>6
<1>. QED
  BY <1>7 DEF was, now, t, ids, A, B

LEMMA SwapIsConsistent == Prepared => SwapConsistent
<1>. SUFFICES ASSUME Prepared, CanSwap(Queues["18123"], swapTo) PROVE SwapConsistent
  BY Zenon DEF SwapConsistent
<1> DEFINE q   == Queues["18123"]
           new == queues["18123"]
           own == OwnOf(q)
           at  == TargetOf(q, swapTo)
           a   == Actor(q, own)
           b   == Actor(q, at)
           me  == ParseSpawn(q[own].payload)
           she == ParseSpawn(q[at].payload)
           ids == {IdBytes(a), IdBytes(b)}
           slots == FromServerIn(Queues["1818"])
<1>1. /\ Typed(queues) /\ login = LoginFrames /\ queues = SwapSelf(Queues, swapTo)
      /\ Typed(Queues)
  BY PreparedTyped, QueuesTyped DEF Prepared
<1>2. DOMAIN Queues = Ports /\ q \in Seq(NetLine) /\ Queues["1818"] \in Seq(NetLine)
  BY <1>1 DEF Typed, Ports
<1>3. /\ queues["1818"] = Renamed(Queues["1818"], Name(q, own), Name(q, at))
      /\ new = WorldSwapped(q, own, at, a, b)
  BY <1>1, <1>2, SwapGives
<1>4. /\ own \in Spawns(q) /\ at \in Spawns(q) /\ at # own
      /\ own \in 1..Len(q) /\ at \in 1..Len(q)
  BY <1>2, SwapPlaces
<1>5. /\ a = me.actor /\ b = she.actor /\ Name(q, own) = me.name /\ Name(q, at) = she.name
      /\ own = Min(Spawns(q)) /\ at = Min(Targets(q, swapTo))
  BY DEF Actor, Name, OwnOf, TargetOf
<1>. HIDE DEF q, new, own, at, a, b
<1>6. /\ q[at].dir = "S2C" /\ q[own].dir = "S2C" /\ she.kind = "self_spawn"
      /\ q[at].payload \in Seq(Byte) /\ q[at] \in NetLine
      /\ me.name \in Seq(Byte) /\ she.name \in Seq(Byte)
  BY <1>2, <1>4, <1>5, SpawnEntry
<1>7. a \in Half /\ b \in Half
  BY <1>2, <1>4, SpawnEntry DEF a, b
<1>. HIDE DEF me, she, ids
<1>8. /\ Len(new) = Len(q) /\ new[own] = q[at]
      /\ \A i \in 1..Len(q) : i # own => new[i] = SwappedIn(q[i], a, b)
  <2>1. Len(WorldSwapped(q, own, at, a, b)) = Len(q)
    BY <1>2, <1>4, <1>7, WorldIs
  <2>. QED
    BY <1>3, <1>4, <2>1 DEF WorldSwapped
<1>9. \A i \in 1..Len(q) : q[i] \in NetLine
  BY <1>2, ElementOfSeq
<1>10. ASSUME NEW i \in 1..Len(q), i # own PROVE new[i].dir = q[i].dir
  BY <1>7, <1>8, <1>9, <1>10, SwappedInIs
<1>11. FromServer = {i \in 1..Len(q) : new[i].dir = "S2C"}
  BY <1>8 DEF FromServer, Recorded, new
<1>12. ASSUME NEW i \in FromServer, i # own
       PROVE  /\ i \in 1..Len(q) /\ q[i].dir = "S2C" /\ q[i] \in NetLine
              /\ new[i] = SwappedIn(q[i], a, b)
  BY <1>8, <1>9, <1>10, <1>11, <1>12
<1>13. ASSUME NEW i \in FromServer \ {own}
       PROVE  /\ SwappedFrame(q[i].payload, new[i].payload, ids)
              /\ q[i].payload \in Seq(Byte) /\ new[i].payload \in Seq(Byte)
  BY <1>7, <1>12, FrameSwapped, ZenonT(60) DEF ids
<1>14. ParseSpawn(new[own].payload) = she
  BY <1>8 DEF she
<1>15. ASSUME IdPlaces(q[at].payload, ids) = {11}
       PROVE  ParseSpawn(new[at].payload) = [she EXCEPT !.actor = a]
  <2> DEFINE s == q[at].payload
  <2>1. new[at].payload = ByteSwap(s, IdBytes(a), IdBytes(b))
    BY <1>4, <1>6, <1>7, <1>8, FrameSwapped
  <2>2. /\ ParseSpawn(s).kind = "self_spawn" /\ b = ParseSpawn(s).actor
        /\ IdPlaces(s, {IdBytes(a), IdBytes(b)}) = {11} /\ s \in Seq(Byte)
    BY <1>5, <1>6, <1>15 DEF she, ids
  <2>. HIDE DEF s
  <2>3. ParseSpawn(ByteSwap(s, IdBytes(a), IdBytes(b))) = [ParseSpawn(s) EXCEPT !.actor = a]
    BY <1>7, <2>2, OtherSpawn
  <2>. QED
    BY <2>1, <2>3 DEF s, she
<1>16. ASSUME \A i \in FromServer : /\ Framed(q[i].payload)
                                    /\ IdPlaces(q[i].payload, ids) \cap 1..2 = {}
       PROVE  WorldFramed
  <2>1. ASSUME NEW i \in FromServer PROVE Framed(new[i].payload)
    <3>1. CASE i = own
      <4>1. new[at].dir = "S2C"
        BY <1>4, <1>6, <1>10
      <4>2. at \in FromServer
        BY <1>4, <1>11, <4>1
      <4>. QED
        BY <1>8, <1>16, <3>1, <4>2
    <3>2. CASE i # own
      <4> DEFINE s == q[i].payload
                 t == new[i].payload
                 P == IdPlaces(s, ids)
      <4>1. s \in Seq(Byte) /\ t \in Seq(Byte) /\ SwappedFrame(s, t, ids)
        BY <1>13, <3>2
      <4>2. Framed(s) /\ P \cap 1..2 = {}
        BY <1>16
      <4>. HIDE DEF s, t
      <4>3. P \subseteq 1..Len(s)
        <5>1. Len(s) \in Nat
          BY <4>1, LenProperties
        <5>. QED
          BY <5>1 DEF IdPlaces, Places
      <4>4. /\ Len(t) = Len(s)
            /\ \A k \in 1..Len(s) : t[k] # s[k] => {k - 1, k} \cap P # {}
        BY <4>1 DEF SwappedFrame
      <4>. HIDE DEF P
      <4>5. Framed(t)
        BY <4>1, <4>2, <4>3, <4>4, StaysFramed
      <4>. QED
        BY <4>5 DEF t
    <3>. QED
      BY <3>1, <3>2
  <2>. QED
    BY <2>1 DEF WorldFramed, Recorded, new
<1>17. ASSUME NEW i \in 1..Len(slots), At(slots[i].payload, 2) = 212,
              Stands(Padded(me.name), slots[i].payload)
       PROVE  \/ Stands(Padded(she.name), login[i])
              \/ \E ip \in ToSet(Ips) : Stands(ip, LoginPayloads[i])
  <2>1. queues["1818"] = Renamed(Queues["1818"], me.name, she.name)
    BY <1>3, <1>5
  <2>. QED
    BY <1>1, <1>2, <1>6, <1>17, <2>1, SlotRenamed
<1>. HIDE DEF slots
<1>18. ids = {IdBytes(me.actor), IdBytes(she.actor)} /\ a = me.actor
  BY <1>5 DEF ids
<1>19. SUFFICES ASSUME NEW old \in {Queues["18123"]}, NEW young \in {queues["18123"]},
                       NEW lots \in {FromServerIn(Queues["1818"])},
                       NEW i1 \in {Min(Spawns(old))}, NEW i2 \in {Min(Targets(old, swapTo))},
                       NEW m \in {ParseSpawn(old[i1].payload)},
                       NEW s \in {ParseSpawn(old[i2].payload)},
                       NEW d \in {{IdBytes(m.actor), IdBytes(s.actor)}}
       PROVE  /\ ParseSpawn(young[i1].payload) = s
              /\ IdPlaces(old[i2].payload, d) = {11} =>
                   ParseSpawn(young[i2].payload) = [s EXCEPT !.actor = m.actor]
              /\ \A i \in FromServer \ {i1} :
                   SwappedFrame(old[i].payload, young[i].payload, d)
              /\ (\A i \in FromServer :
                    /\ Framed(old[i].payload)
                    /\ IdPlaces(old[i].payload, d) \cap 1..2 = {}) => WorldFramed
              /\ \A i \in 1..Len(lots) :
                   At(lots[i].payload, 2) = 212 /\ Stands(Padded(m.name), lots[i].payload) =>
                     \/ Stands(Padded(s.name), login[i])
                     \/ \E ip \in ToSet(Ips) : Stands(ip, LoginPayloads[i])
  BY Zenon DEF SwapConsistent
<1>20. old = q /\ young = new /\ lots = slots
  BY DEF q, new, slots
<1>21. i1 = own /\ i2 = at
  BY <1>5, <1>20
<1>22. m = me /\ s = she
  BY <1>20, <1>21 DEF me, she
<1>23. d = ids
  BY <1>18, <1>22
<1>24. \A i \in FromServer \ {i1} : SwappedFrame(old[i].payload, young[i].payload, d)
  BY <1>13, <1>20, <1>21, <1>23
<1>25. IdPlaces(old[i2].payload, d) = {11} =>
         ParseSpawn(young[i2].payload) = [s EXCEPT !.actor = m.actor]
  BY <1>15, <1>18, <1>20, <1>21, <1>22, <1>23
<1>26. (\A i \in FromServer : /\ Framed(old[i].payload)
                              /\ IdPlaces(old[i].payload, d) \cap 1..2 = {}) => WorldFramed
  BY <1>16, <1>20, <1>23
<1>27. \A i \in 1..Len(lots) :
         At(lots[i].payload, 2) = 212 /\ Stands(Padded(m.name), lots[i].payload) =>
           \/ Stands(Padded(s.name), login[i])
           \/ \E ip \in ToSet(Ips) : Stands(ip, LoginPayloads[i])
  BY <1>17, <1>20, <1>22
<1>. QED
  BY <1>14, <1>20, <1>21, <1>22, <1>24, <1>25, <1>26, <1>27

(* After a swap the client is shown one character with the id, the name    *)
(* and the slot of the other.                                              *)
THEOREM CharacterSwapped == Spec => []SwapConsistent
<1>. QED
  BY PreparedAlways, SwapIsConsistent, PTL
=============================================================================
