---------------------------- MODULE FrameCipher ----------------------------
(***************************************************************************)
(* The world cipher and length code of port 18123, twice: as the server    *)
(* emulator has it (cipher.py, which checks the checksum and closes on a   *)
(* bad frame) and as the recorder has it (v2cipher.py, which does not).    *)
(* A frame is a sequence of bytes: a length of two bytes, the opcode, a    *)
(* checksum of four and the payload; the length counts from the opcode.    *)
(***************************************************************************)
EXTENDS Naturals, Sequences

Byte == 0..255

(* Bytes 0 and 1: the little-endian u16 of a frame. *)
Len16(f)    == f[1] + 256 * f[2]
LenBytes(n) == <<n % 256, n \div 256>>

(* Exclusive or, bit by bit for half a byte and from that for more. *)
Halves ==
  [a \in 0..15 |-> [b \in 0..15 |->
     LET bit(n) == ((a \div n) + (b \div n)) % 2
     IN  8 * bit(8) + 4 * bit(4) + 2 * bit(2) + bit(1)]]
Xor8(a, b)  == 16 * Halves[a \div 16][b \div 16] + Halves[a % 16][b % 16]
Xor16(a, b) == 256 * Xor8(a \div 256, b \div 256) + Xor8(a % 256, b % 256)

(* The rotations: only n modulo 8 counts. RorInto and RolInto turn a byte  *)
(* whose free bits are filled from another one.                            *)
RorInto(b, above, n) == LET m == n % 8 IN (b \div 2^m) + (above % 2^m) * 2^(8 - m)
RolInto(b, below, n) == LET m == n % 8 IN (b % 2^(8 - m)) * 2^m + (below \div 2^(8 - m))
Ror8(b, n)  == RorInto(b, b, n)
Rol8(b, n)  == RolInto(b, b, n)
Ror16(x, n) == LET m == n % 8 IN (x \div 2^m) + (x % 2^m) * 2^(16 - m)
Rol16(x, n) == LET m == n % 8 IN (x % 2^(16 - m)) * 2^m + (x \div 2^(16 - m))

(* crc_hash: h becomes byte + h * 0x1003f modulo 2^32, kept in two halves  *)
(* of 16 bits, the low one first (0x1003f is 2^16 + 63).                   *)
Hashed(h, byte) ==
  LET low == byte + h[1] * 63
  IN  <<low % 65536, (h[2] * 63 + h[1] + (low \div 65536)) % 65536>>
CrcHash(data) ==
  LET hash[i \in 0..Len(data)] ==
        IF i = 0 THEN <<0, 0>> ELSE Hashed(hash[i - 1], data[i])
  IN  LenBytes(hash[Len(data)][1]) \o LenBytes(hash[Len(data)][2])

(* The checksum modulo 7, plus one: by how much the payload is rotated. *)
Rotation(crc) ==
  ((crc[1] + 256 * crc[2] + (65536 % 7) * crc[3] + (16777216 % 7) * crc[4]) % 7) + 1

(* A payload is turned word by word, least significant byte first (ror32,  *)
(* rol32), the bytes after the last whole word one by one: byte j is       *)
(* filled from its neighbour in the word, cyclically, or from itself.      *)
InWord(s, j) == j + (Len(s) % 4) <= Len(s)
Above(s, j)  == IF ~InWord(s, j) THEN j ELSE IF j % 4 = 0 THEN j - 3 ELSE j + 1
Below(s, j)  == IF ~InWord(s, j) THEN j ELSE IF j % 4 = 1 THEN j + 3 ELSE j - 1

RolPayload(s, n) == [j \in 1..Len(s) |-> RolInto(s[j], s[Below(s, j)], n)]

(* Mutant: the bytes after the last whole word are left. *)
RorWordsOnly(s, n) ==
  [j \in 1..Len(s) |-> IF ~InWord(s, j) THEN s[j] ELSE RorInto(s[j], s[Above(s, j)], n)]

RorPayload(s, n) == [j \in 1..Len(s) |-> RorInto(s[j], s[Above(s, j)], n)]

(* The keystream: four times the byte m, xored with 0xB244C01E, turned     *)
(* left by one for each word; so the word of byte j was turned w times.    *)
Seed(m) == <<Xor8(m, 30), Xor8(m, 192), Xor8(m, 68), Xor8(m, 178)>>
KeyByte(m, j) ==
  LET w     == (j - 1) \div 4
      at(n) == Seed(m)[((n + 3 * (w \div 8)) % 4) + 1]
  IN  RolInto(at(j - 1), at(j + 2), w)
Keyed(s, m) == [j \in 1..Len(s) |-> Xor8(s[j], KeyByte(m, j))]

(* What the header gives to mask the first payload byte with. *)
HeadMask(f) == Xor8(Xor8(Len16(f) % 256, f[2]), 30)

Payload(f) == SubSeq(f, 8, Len16(f) + 2)
Rest(f)    == SubSeq(f, Len16(f) + 3, Len(f))

-----------------------------------------------------------------------------
(* cipher.py *)

Unsound(f) == Len(f) < 4 \/ Len16(f) < 6 \/ Len(f) < Len16(f) + 2

(* A frame that is exactly as long as its length says. *)
Framed(f) == f \in Seq(Byte) /\ ~Unsound(f) /\ Len(f) = Len16(f) + 2

(* The checksum is taken of the enciphered payload, which is then turned   *)
(* by it; the checksum slot of the plaintext is not looked at.             *)
Closed(p, body, crc) ==
  SubSeq(p, 1, 2) \o <<Rol8(Xor8(p[3], body[1]), crc[1])>> \o crc
    \o RolPayload(body, Rotation(crc)) \o Rest(p)
Enciphered(p, first, m) == <<first>> \o Keyed(Tail(Payload(p)), m)
Sealed(p, body)         == Closed(p, body, CrcHash(body))

(* Mutant: the mask is the plain byte, not the enciphered one. *)
EncryptSwappedMask(p) ==
  IF Unsound(p) THEN p ELSE Sealed(p, Enciphered(p, Xor8(HeadMask(p), p[8]), p[8]))

Encrypt(p) ==
  LET first == Xor8(HeadMask(p), p[8])
  IN  IF Unsound(p) THEN p ELSE Sealed(p, Enciphered(p, first, first))

Opened(f, crc, body) ==
  SubSeq(f, 1, 2) \o <<Xor8(Ror8(f[3], f[4]), body[1])>> \o crc
    \o (<<Xor8(body[1], HeadMask(f))>> \o Keyed(Tail(body), body[1])) \o Rest(f)
Checked(f, crc, body) ==
  IF CrcHash(body) # crc THEN [ok |-> FALSE, plain |-> f]
  ELSE [ok |-> TRUE, plain |-> Opened(f, crc, body)]

Decrypt(f) ==
  LET crc == SubSeq(f, 4, 7)
  IN  IF Unsound(f) THEN [ok |-> FALSE, plain |-> f]
      ELSE Checked(f, crc, RorPayload(Payload(f), Rotation(crc)))

(* The length code: how bytes 2 and 3 of the wire scramble the length. *)
LengthDecode(head) ==
  Rol16(Xor16(Ror16(Len16(head), (head[3] % 7) + 1), 49182), (head[4] % 7) + 1)
LengthEncode(n, byte2, byte3) ==
  Rol16(Xor16(Ror16(n, (byte3 % 7) + 1), 49182), (byte2 % 7) + 1)

-----------------------------------------------------------------------------
(* v2cipher.py, as the sniffer uses it. *)

ExtractLength(head) ==
  LET turned == Ror16(Len16(head), (head[3] % 7) + 1)
      masked == Xor16(turned, 49182)
  IN  Rol16(masked, (head[4] % 7) + 1)

(* decrypt_frame with the length already known. A frame too short for its  *)
(* length is returned as it is; the checksum is never compared.            *)
Unsealed(g, body, first) ==
  LET seed == Xor8(HeadMask(g), first)
  IN  SubSeq(g, 1, 2) \o <<Xor8(Ror8(g[3], g[4]), seed)>> \o SubSeq(g, 4, 7)
      \o (<<first>> \o Keyed(Tail(body), seed)) \o Rest(g)
Undone(g, body) == Unsealed(g, body, Xor8(HeadMask(g), body[1]))

Relabelled(f, n) == LenBytes(n) \o SubSeq(f, 3, Len(f))
SnifferOpen(g) ==
  IF Len(g) < 7 \/ Unsound(g) THEN g
  ELSE Undone(g, RorPayload(Payload(g), Rotation(SubSeq(g, 4, 7))))
SnifferDecrypt(f, n) == SnifferOpen(Relabelled(f, n))
=============================================================================
